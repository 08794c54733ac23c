---------------------------- MODULE CheminotParser ----------------------------
(***************************************************************************)
(* CheminotService (src/common/api-helper/cheminot): it reads the lines of *)
(* Cheminements.txt into programs, whose courses CheminotSync stores.      *)
(*                                                                         *)
(* A line is one of the kinds the parser tells apart, among them a program *)
(* line without a number (malformed), a CHOIX line without its last fields *)
(* (short) and the beginning of a section it does not read (skipped);      *)
(* comments, which it passes over wherever they stand, are left out.       *)
(* A course comes with its type and session, which the first of its lines  *)
(* decides, and with the pairs of a profile and a prerequisite of all of   *)
(* them.                                                                   *)
(***************************************************************************)
EXTENDS Naturals, Sequences, FiniteSets

CONSTANTS
  Programs,     \* codes
  Codes,        \* of courses
  Details,      \* a type and a session
  Listed,       \* the details of a course on a bare list: mandatory, session 1
  Requirements, \* a profile and a prerequisite
  Nothing,      \* what a line without content is
  MaxLines      \* length of the file, or of the files of several calls: a bound

CourseLine == [code : Codes, details : Details, requires : SUBSET Requirements]
Line ==
  [kind : {".PROGRAMME"}, is : Programs] \cup [kind : {"course"}, is : CourseLine] \cup
  [kind : {"list", "CHOIX", "short", "entry"}, is : Codes] \cup
  [kind : {"file", "malformed", "skipped", ".HORS-PROGRAMME", "section", "blank"}, is : {Nothing}]

Course  == [details : Details \cup {Listed}, requires : SUBSET Requirements]
Program == [code : Programs, choix : SUBSET Codes, horsProgramme : SUBSET Codes]

VARIABLES
  lines,      \* read so far, each file after a line of its own (history)
  opened,     \* the programs parsed, in order
  courses,    \* of each of them, by code
  programs,   \* the service's list: positions in opened
  current,    \* currentProgram, 0 for none
  skip,       \* skipSection
  collecting, \* handleHorsProgrammeSection() reads these lines too
  thrown      \* the parse has thrown, which ends the thread of the job

vars == <<lines, opened, courses, programs, current, skip, collecting, thrown>>

Init ==
  /\ lines = <<[kind |-> "file", is |-> Nothing]>>
  /\ opened = <<>>
  /\ courses = <<>>
  /\ programs = <<>>
  /\ current = 0
  /\ skip = FALSE
  /\ collecting = FALSE
  /\ thrown = FALSE

----------------------------------------------------------------------------
(* A course line is parsed in a program, outside of skipped sections.      *)
Parsed == current # 0 /\ ~skip

(* parseCourseLine() throws on a short CHOIX line, which nobody catches.   *)
Reads(kind, text) ==
  /\ ~thrown
  /\ Len(lines) < MaxLines
  /\ lines' = Append(lines, [kind |-> kind, is |-> text])
  /\ thrown' = (kind = "short" /\ Parsed)

(* The current program is listed when the next begins or the file ends.    *)
ListsCurrent == IF current = 0 THEN programs ELSE Append(programs, current)

ProgramLine(program) ==
  /\ Reads(".PROGRAMME", program)
  /\ programs' = ListsCurrent
  /\ opened' = Append(opened, [code |-> program, choix |-> {}, horsProgramme |-> {}])
  /\ courses' = Append(courses, << >>)
  /\ current' = Len(opened) + 1
  /\ skip' = FALSE
  /\ collecting' = FALSE

(* A program line without a number lists the current program and keeps it. *)
MalformedProgramLine ==
  /\ Reads("malformed", Nothing)
  /\ programs' = ListsCurrent
  /\ skip' = FALSE
  /\ collecting' = FALSE
  /\ UNCHANGED <<opened, courses, current>>

SectionLine(kind) ==
  /\ Reads(kind, Nothing)
  /\ skip' = (kind # "section")
  /\ collecting' = (kind = ".HORS-PROGRAMME" /\ current # 0)
  /\ UNCHANGED <<opened, courses, programs, current>>

BlankLine ==
  /\ Reads("blank", Nothing)
  /\ collecting' = FALSE
  /\ UNCHANGED <<opened, courses, programs, current, skip>>

(* Under .HORS-PROGRAMME every line is an entry, up to its comma, whatever *)
(* else the parser takes it for.                                           *)
Collects(code, choix) ==
  opened' = IF current = 0 THEN opened
            ELSE [opened EXCEPT
                    ![current].choix = @ \cup choix,
                    ![current].horsProgramme = IF collecting THEN @ \cup {code} ELSE @]

(* Mutant: the last line of a course decides. *)
MutMerged(old, new) == [details |-> new.details, requires |-> old.requires \cup new.requires]

(* addCourse() and mergeCourse() *)
Merged(old, new) == [details |-> old.details, requires |-> old.requires \cup new.requires]

With(found, code, new) ==
  [c \in DOMAIN found \cup {code} |->
     IF c # code THEN found[c]
     ELSE IF code \in DOMAIN found THEN Merged(found[code], new) ELSE new]

AddCourse(code, new) == courses' = [courses EXCEPT ![current] = With(@, code, new)]

CourseLineRead(line) ==
  /\ Reads("course", line)
  /\ Collects(line.code, {})
  /\ IF Parsed
     THEN AddCourse(line.code, [details |-> line.details, requires |-> line.requires])
     ELSE UNCHANGED courses
  /\ UNCHANGED <<programs, current, skip, collecting>>

ChoiceLine(code) ==
  /\ Reads("CHOIX", code)
  /\ Collects(code, IF skip THEN {} ELSE {code})
  /\ UNCHANGED <<courses, programs, current, skip, collecting>>

ShortChoiceLine(code) ==
  /\ Reads("short", code)
  /\ Collects(code, {})
  /\ UNCHANGED <<courses, programs, current, skip, collecting>>

(* A line of nothing but codes is a list of courses in any section.        *)
CourseList(code) ==
  /\ Reads("list", code)
  /\ Collects(code, {})
  /\ IF current # 0 THEN AddCourse(code, [details |-> Listed, requires |-> {}])
     ELSE UNCHANGED courses
  /\ UNCHANGED <<programs, current, skip, collecting>>

(* A code with a comma after it is no list.                                *)
Entry(code) ==
  /\ Reads("entry", code)
  /\ Collects(code, {})
  /\ UNCHANGED <<courses, programs, current, skip, collecting>>

(* The file ends; the next call adds its programs to the same list.        *)
FileEnds ==
  /\ Reads("file", Nothing)
  /\ programs' = ListsCurrent
  /\ current' = 0
  /\ skip' = FALSE
  /\ collecting' = FALSE
  /\ UNCHANGED <<opened, courses>>

Next ==
  \/ \E program \in Programs : ProgramLine(program)
  \/ MalformedProgramLine
  \/ \E kind \in {"skipped", ".HORS-PROGRAMME", "section"} : SectionLine(kind)
  \/ BlankLine
  \/ \E line \in CourseLine : CourseLineRead(line)
  \/ \E code \in Codes : ChoiceLine(code) \/ ShortChoiceLine(code)
                        \/ CourseList(code) \/ Entry(code)
  \/ FileEnds

Spec == Init /\ [][Next]_vars

----------------------------------------------------------------------------
TypeOK ==
  /\ lines \in Seq(Line)
  /\ opened \in Seq(Program)
  /\ DOMAIN courses = DOMAIN opened
  /\ \A k \in DOMAIN courses :
       DOMAIN courses[k] \subseteq Codes /\ \A c \in DOMAIN courses[k] : courses[k][c] \in Course
  /\ programs \in Seq(1..Len(opened))
  /\ current \in {0, Len(opened)}
  /\ skip \in BOOLEAN
  /\ collecting \in BOOLEAN
  /\ thrown \in BOOLEAN

(* The file itself says which program and which section a line belongs to. *)
Are(i, kinds) == lines[i].kind \in kinds
LastBefore(i, kinds) ==
  LET at == {k \in DOMAIN lines : k < i /\ Are(k, kinds)}
  IN  CHOOSE k \in at : \A l \in at : l <= k
ProgramOf(i) == LastBefore(i, {".PROGRAMME", "file"})
Headers == {i \in DOMAIN lines : Are(i, {".PROGRAMME"})}
Number(h) == Cardinality({g \in Headers : g <= h})
SectionOf(i) == LastBefore(i, {"file", ".PROGRAMME", "malformed", "skipped",
                               ".HORS-PROGRAMME", "section"})
Skipped(i) == Are(SectionOf(i), {"skipped", ".HORS-PROGRAMME"})
Names(i, c) ==
  \/ Are(i, {"list"}) /\ lines[i].is = c
  \/ Are(i, {"course"}) /\ lines[i].is.code = c /\ ~Skipped(i)
LinesOf(h, c) == {i \in DOMAIN lines : i > h /\ ProgramOf(i) = h /\ Names(i, c)}

(* Each program has the courses printed under its header outside of the    *)
(* sections that are skipped; the first line of a course decides its type  *)
(* and session, and its prerequisites are those of all its lines.          *)
CoursesOfPrograms ==
  \A h \in Headers : \A c \in Codes :
    LET of    == LinesOf(h, c)
        full  == {i \in of : Are(i, {"course"})}
        first == CHOOSE i \in of : \A j \in of : i <= j
        found == courses[Number(h)]
    IN  /\ c \in DOMAIN found <=> of # {}
        /\ of # {} =>
             found[c] = [details  |-> IF first \in full THEN lines[first].is.details ELSE Listed,
                         requires |-> UNION {lines[i].is.requires : i \in full}]

(* Once a file is read, every program of it is listed in order, and more   *)
(* than once only for program lines without a number; what earlier calls   *)
(* read is still there.                                                    *)
Malformed(h) == {i \in DOMAIN lines : i > h /\ Are(i, {"malformed"}) /\ ProgramOf(i) = h}
ProgramsListed ==
  current = 0 =>
    /\ \A h \in Headers :
         Cardinality({i \in DOMAIN programs : programs[i] = Number(h)}) = 1 + Cardinality(Malformed(h))
    /\ \A i, j \in DOMAIN programs : i < j => programs[i] <= programs[j]

(* What CheminotSync finds under a program is what the file says of it.    *)
CheminotAsPrinted == CoursesOfPrograms /\ ProgramsListed
============================================================================
