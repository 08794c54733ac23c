-------------------------- MODULE SessionCalendar --------------------------
(***************************************************************************)
(* The academic calendar: which session a day belongs to (src/common/      *)
(* utils/session/sessionUtil.ts), the Session table (src/session/          *)
(* session.service.ts) and the two jobs that add rows to it, one from      *)
(* today's date, one from the session codes of the planification PDFs.     *)
(* The state walks through the days of FirstYear..LastYear.                *)
(***************************************************************************)
EXTENDS Naturals

CONSTANTS FirstYear, LastYear   \* the years walked through: a bound

ASSUME YearsAssumption ==
  FirstYear \in Nat /\ LastYear \in Nat /\ FirstYear <= LastYear

VARIABLES
  today,     \* the date: [year, month, day]
  sessions   \* the Session table: [year, trimester]

vars == <<today, sessions>>

Trimesters == {"HIVER", "ETE", "AUTOMNE"}
Session    == [year : Nat, trimester : Trimesters]
Date       == [year : FirstYear..LastYear, month : 1..12, day : 1..31]

----------------------------------------------------------------------------
(* sessionUtil.ts *)

DateToComparable(month, day) == month * 100 + day

IsDateInRange(d, s, e) == IF s <= e THEN s <= d /\ d <= e ELSE s <= d \/ d <= e

(* Mutant: the summer starts a day late. *)
MutSessionDateRange == [
  HIVER   |-> [index |-> 1, start |-> DateToComparable(12, 20), end |-> DateToComparable(4, 28)],
  ETE     |-> [index |-> 2, start |-> DateToComparable(4, 30),  end |-> DateToComparable(8, 17)],
  AUTOMNE |-> [index |-> 3, start |-> DateToComparable(8, 18),  end |-> DateToComparable(12, 19)]]

SessionDateRange == [
  HIVER   |-> [index |-> 1, start |-> DateToComparable(12, 20), end |-> DateToComparable(4, 28)],
  ETE     |-> [index |-> 2, start |-> DateToComparable(4, 29),  end |-> DateToComparable(8, 17)],
  AUTOMNE |-> [index |-> 3, start |-> DateToComparable(8, 18),  end |-> DateToComparable(12, 19)]]

InTrimester(month, day, t) ==
  IsDateInRange(DateToComparable(month, day), SessionDateRange[t].start, SessionDateRange[t].end)

(* getCurrentTrimester(): the first range that holds the date. *)
CurrentTrimester(date) ==
  CHOOSE t \in Trimesters : InTrimester(date.month, date.day, t)

(* Mutant: the index ignores that the winter begins in December. *)
MutCurrentSessionIndex(date) ==
  date.year * 10 + SessionDateRange[CurrentTrimester(date)].index

(* getCurrentSessionIndex(), as a number: the year, then 1, 2 or 3.  The   *)
(* last days of December belong to the winter of the next year.            *)
CurrentSessionIndex(date) ==
  LET t == CurrentTrimester(date)
      y == IF t = "HIVER" /\ date.month = 12 THEN date.year + 1 ELSE date.year
  IN  y * 10 + SessionDateRange[t].index

(* The code under which the school publishes a session's documents. *)
SessionIndex(s) == s.year * 10 + SessionDateRange[s.trimester].index

(* session.service.ts: getOrCreateCurrentSession() takes the trimester     *)
(* from the calendar and the year from the date.                           *)
CurrentSession(date) == [year |-> date.year, trimester |-> CurrentTrimester(date)]

----------------------------------------------------------------------------
IsLeap(y) == y % 4 = 0 /\ (y % 100 # 0 \/ y % 400 = 0)
DaysIn(y, m) ==
  CASE m = 2 /\ IsLeap(y)     -> 29
    [] m = 2 /\ ~IsLeap(y)    -> 28
    [] m \in {4, 6, 9, 11}    -> 30
    [] OTHER                  -> 31

Init ==
  /\ today = [year |-> FirstYear, month |-> 1, day |-> 1]
  /\ sessions = {}

(* The clock (external). *)
NextDay ==
  /\ \/ /\ today.day < DaysIn(today.year, today.month)
        /\ today' = [today EXCEPT !.day = @ + 1]
     \/ /\ today.day = DaysIn(today.year, today.month)
        /\ today.month < 12
        /\ today' = [year |-> today.year, month |-> today.month + 1, day |-> 1]
     \/ /\ today.day = 31
        /\ today.month = 12
        /\ today.year < LastYear
        /\ today' = [year |-> today.year + 1, month |-> 1, day |-> 1]
  /\ UNCHANGED sessions

(* getOrCreateCurrentSession(), called by the sessions job, which then     *)
(* fetches the horaire PDFs of that session.                               *)
ProcessSessions ==
  /\ sessions' = sessions \cup {CurrentSession(today)}
  /\ UNCHANGED today

(* getOrCreateSessionFromCode(): planification PDFs list the current       *)
(* session and those of the year that follows.                             *)
Planified ==
  {[year |-> y, trimester |-> t] : y \in {today.year, today.year + 1}, t \in Trimesters}
ProcessPlanification ==
  /\ \E s \in Planified :
       /\ SessionIndex(s) >= CurrentSessionIndex(today)
       /\ SessionIndex(s) <= CurrentSessionIndex(today) + 10
       /\ sessions' = sessions \cup {s}
  /\ UNCHANGED today

Next == NextDay \/ ProcessSessions \/ ProcessPlanification

Spec == Init /\ [][Next]_vars

----------------------------------------------------------------------------
TypeOK ==
  /\ today \in Date
  /\ sessions \subseteq Session

(* Every day lies in one range and in only one: getCurrentTrimester()      *)
(* never gives up, and the order in which it tries the ranges is moot.     *)
OneTrimester(month, day) ==
  \E t \in Trimesters : /\ InTrimester(month, day, t)
                        /\ \A u \in Trimesters \ {t} : ~InTrimester(month, day, u)
EveryDayInOneTrimester == OneTrimester(today.month, today.day)

(* From one day to the next the session index stays or moves to the        *)
(* session that follows (three to a year): it never jumps or goes back,    *)
(* not at the new year either.                                             *)
Following(i) == IF i % 10 = 3 THEN i + 8 ELSE i + 1
SessionsFollowEachOther ==
  [][today' # today =>
       CurrentSessionIndex(today') \in {CurrentSessionIndex(today),
                                        Following(CurrentSessionIndex(today))}]_vars

(* "Special case: If trimester is HIVER and month is December, assign to   *)
(* next year" (sessionUtil.ts): the sessions job works on that session.    *)
CurrentSessionIsIndexed ==
  [][ProcessSessions => SessionIndex(CurrentSession(today)) = CurrentSessionIndex(today)]_vars
============================================================================
