---------------------------- MODULE HoraireParser ----------------------------
(***************************************************************************)
(* HoraireCoursService (src/common/website-helper/pdf/pdf-parser/horaire): *)
(* it reads the timetable PDF of a program, text by text and page by page, *)
(* into courses with their prerequisites and their groups of periods.      *)
(*                                                                         *)
(* A text is one of the kinds the parser tells apart by its place, its     *)
(* font and its form.  Of the seven fields of a period two are modelled:   *)
(* the day, which begins a period, and one for the six that do not.  Titles*)
(* are gathered as prerequisites are and are left out; so are the texts    *)
(* that are skipped (empty, bold, below the end of the page).              *)
(***************************************************************************)
EXTENDS Naturals, Sequences

CONSTANTS
  Codes,    \* of courses
  Groups,   \* group numbers
  Days,
  Details,  \* a time, a teacher, a room, ...
  Words,    \* texts in the column of prerequisites
  None,     \* an empty string
  MaxTexts  \* length of a document: a bound

Text ==
  [kind : {"code"}, is : Codes] \cup [kind : {"prerequisites"}, is : Words] \cup
  [kind : {"group"}, is : Groups] \cup [kind : {"day"}, is : Days] \cup
  [kind : {"detail"}, is : Details] \cup [kind : {"other", "end"}, is : {None}]

Period  == [day : Days \cup {None}, detail : Details \cup {None}]
Empty   == [day |-> None, detail |-> None]
Course  == [code : Codes \cup {None}, prerequisites : SUBSET Words, groups : SUBSET Groups,
            periods : SUBSET (Groups \X (Period \ {Empty}))]
NewCourse(code) == [code |-> code, prerequisites |-> {}, groups |-> {}, periods |-> {}]

VARIABLES
  document, \* the texts read so far (history)
  courses,  \* by code
  course,   \* currentCourse
  group,    \* currentGroupNumber
  periods,  \* of the group, on this page
  done      \* the document is over

vars == <<document, courses, course, group, periods, done>>

Init ==
  /\ document = <<>>
  /\ courses = << >>
  /\ course = NewCourse(None)
  /\ group = None
  /\ periods = <<>>
  /\ done = FALSE

----------------------------------------------------------------------------
LastOf(s) == s[Len(s)]

(* addPeriods(): an empty period is not added.                              *)
AddedPeriods == {<<group, periods[i]>> : i \in {j \in DOMAIN periods : periods[j] # Empty}}

FinalizedGroup == [course EXCEPT !.groups = @ \cup {group}, !.periods = @ \cup AddedPeriods]

(* finalizeCurrentGroup(): nothing is kept when the last period is empty.  *)
Finalized ==
  IF group = None \/ periods = <<>> \/ LastOf(periods) = Empty THEN course ELSE FinalizedGroup

(* addOrUpdateCourse(): of a course listed before, the groups are added to; *)
(* a group it did not have is added without its periods.                   *)
AddOrUpdated(new) ==
  IF new.code = None THEN courses
  ELSE IF new.code \notin DOMAIN courses
  THEN [c \in DOMAIN courses \cup {new.code} |-> IF c = new.code THEN new ELSE courses[c]]
  ELSE [courses EXCEPT ![new.code].groups  = @ \cup new.groups,
                       ![new.code].periods =
                          @ \cup {gp \in new.periods : gp[1] \in courses[new.code].groups}]

Reads(kind, text) ==
  /\ ~done
  /\ Len(document) < MaxTexts
  /\ document' = Append(document, [kind |-> kind, is |-> text])

ReadCode(code) ==
  /\ Reads("code", code)
  /\ courses' = AddOrUpdated(Finalized)
  /\ course' = NewCourse(code)
  /\ group' = None
  /\ periods' = <<>>
  /\ UNCHANGED done

ReadPrerequisites(word) ==
  /\ Reads("prerequisites", word)
  /\ course' = [course EXCEPT !.prerequisites = @ \cup {word}]
  /\ UNCHANGED <<courses, group, periods, done>>

ReadGroup(number) ==
  /\ Reads("group", number)
  /\ course' = Finalized
  /\ group' = number
  /\ periods' = <<>>
  /\ UNCHANGED <<courses, done>>

(* updatePeriods() and handlePeriodDetailTypes(): a day begins a period,   *)
(* unless an empty one waits; whatever else comes goes to the last period. *)
Begun(kind) ==
  IF periods = <<>> \/ (kind = "day" /\ LastOf(periods) # Empty)
  THEN Append(periods, Empty) ELSE periods

Filled(kind, text) ==
  LET begun == Begun(kind)
  IN  CASE kind = "day"    -> [begun EXCEPT ![Len(begun)].day = text]
        [] kind = "detail" -> [begun EXCEPT ![Len(begun)].detail = text]
        [] OTHER           -> begun

ReadPeriodText(kind, text) ==
  /\ Reads(kind, text)
  /\ periods' = IF group = None THEN periods ELSE Filled(kind, text)
  /\ UNCHANGED <<courses, course, group, done>>

(* Mutant: what the page holds of the group is dropped. *)
MutPageEnds ==
  /\ Reads("end", None)
  /\ periods' = <<>>
  /\ UNCHANGED <<courses, course, group, done>>

(* The course and the group go on to the next page, the periods do not.    *)
PageEnds ==
  /\ Reads("end", None)
  /\ course' = Finalized
  /\ periods' = <<>>
  /\ UNCHANGED <<courses, group, done>>

(* The last page has ended; a document without a course is an error.       *)
DocumentEnds ==
  /\ ~done
  /\ document # <<>> /\ LastOf(document).kind = "end"
  /\ done' = TRUE
  /\ courses' = AddOrUpdated(course)
  /\ UNCHANGED <<document, course, group, periods>>

Next ==
  \/ \E code \in Codes : ReadCode(code)
  \/ \E word \in Words : ReadPrerequisites(word)
  \/ \E number \in Groups : ReadGroup(number)
  \/ \E day \in Days : ReadPeriodText("day", day)
  \/ \E detail \in Details : ReadPeriodText("detail", detail)
  \/ ReadPeriodText("other", None)
  \/ PageEnds \/ DocumentEnds

Spec == Init /\ [][Next]_vars

----------------------------------------------------------------------------
(* No period stored is empty: the one that may be is the only one.         *)
TypeOK ==
  /\ document \in Seq(Text)
  /\ DOMAIN courses \subseteq Codes
  /\ \A c \in DOMAIN courses : courses[c] \in Course /\ courses[c].code = c
  /\ course \in Course
  /\ group \in Groups \cup {None}
  /\ periods \in Seq(Period)
  /\ \A i \in DOMAIN periods : periods[i] = Empty => Len(periods) = 1
  /\ done \in BOOLEAN

(* The document itself says where a text belongs: to the last code before  *)
(* it, and to the last group number since.                                 *)
Are(i, kinds) == document[i].kind \in kinds
Between(i, j) == {k \in DOMAIN document : i < k /\ k < j}
LastBefore(i, kinds) ==
  LET at == {k \in Between(0, i) : Are(k, kinds)}
  IN  IF at = {} THEN 0 ELSE CHOOSE k \in at : \A l \in at : l <= k
HeadingOf(i) == LastBefore(i, {"code"})
GroupOf(i)   == LastBefore(i, {"code", "group"})
Under(i, c, g) ==
  /\ HeadingOf(i) # 0 /\ document[HeadingOf(i)].is = c
  /\ Are(GroupOf(i), {"group"}) /\ document[GroupOf(i)].is = g
IsFirst(h) == \A i \in Between(0, h) : document[i] # document[h]

SameRow(i, j) == \A k \in Between(i, j) : ~Are(k, {"code", "group", "day", "end"})
StandsAt(i, j, p) ==
  /\ Are(i, {"day", "detail"}) /\ Are(j, {"day", "detail"}) /\ i <= j /\ SameRow(i, j)
  /\ p.day    = IF Are(i, {"day"})    THEN document[i].is ELSE None
  /\ p.detail = IF Are(j, {"detail"}) THEN document[j].is ELSE None

(* No period is put together from two rows, or stored under another course *)
(* or group than the one it is printed under, whatever page it is on.      *)
PeriodsOfOneRow ==
  \A c \in DOMAIN courses : \A gp \in courses[c].periods :
    \E i, j \in DOMAIN document : Under(i, c, gp[1]) /\ StandsAt(i, j, gp[2])

(* Under the first heading of a course, every day and every detail no      *)
(* other one of its row replaces is stored: neither a page that ends nor a *)
(* course that is listed again costs a period.                             *)
Replaced(i) ==
  \E j \in DOMAIN document : i < j /\ Are(i, {"detail"}) /\ Are(j, {"detail"}) /\ SameRow(i, j)
NoPeriodLost ==
  \A i \in DOMAIN document : \A c \in Codes, g \in Groups :
    /\ Are(i, {"day", "detail"}) /\ Under(i, c, g) /\ IsFirst(HeadingOf(i)) /\ ~Replaced(i)
    => \E gp \in courses[c].periods : gp[1] = g /\ document[i].is \in {gp[2].day, gp[2].detail}

(* The prerequisites of a course are those under its first heading.        *)
PrerequisitesAsPrinted ==
  \A c \in DOMAIN courses :
    courses[c].prerequisites =
      {document[i].is : i \in {j \in DOMAIN document :
          /\ Are(j, {"prerequisites"}) /\ HeadingOf(j) # 0
          /\ document[HeadingOf(j)].is = c /\ IsFirst(HeadingOf(j))}}

(* What the parser makes of a document is what the document says: of the   *)
(* groups and periods under the first heading of a course nothing is lost  *)
(* or put in another place, and the prerequisites the Prerequisites job    *)
(* deletes and adds by are the course's own.                               *)
HoraireAsPrinted == done => PeriodsOfOneRow /\ NoPeriodLost /\ PrerequisitesAsPrinted
============================================================================
