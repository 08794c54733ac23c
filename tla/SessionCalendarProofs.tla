----------------------- MODULE SessionCalendarProofs -----------------------
(***************************************************************************)
(* Theorems about SessionCalendar, for any span of years.                  *)
(***************************************************************************)
EXTENDS SessionCalendar, TLAPS

USE YearsAssumption

(* The three ranges partition the days of the year, December's wrap-around *)
(* included.                                                               *)
LEMMA RangesPartition ==
  ASSUME NEW month \in 1..12, NEW day \in 1..31
  PROVE  OneTrimester(month, day)
<1> DEFINE d == DateToComparable(month, day)
<1>1. d \in Nat
  BY DEF DateToComparable
<1>2. InTrimester(month, day, "HIVER") <=> d >= 1220 \/ d <= 428
  BY <1>1 DEF InTrimester, SessionDateRange, IsDateInRange, DateToComparable
<1>3. InTrimester(month, day, "ETE") <=> d >= 429 /\ d <= 817
  BY <1>1 DEF InTrimester, SessionDateRange, IsDateInRange, DateToComparable
<1>4. InTrimester(month, day, "AUTOMNE") <=> d >= 818 /\ d <= 1219
  BY <1>1 DEF InTrimester, SessionDateRange, IsDateInRange, DateToComparable
<1> HIDE DEF d
<1> QED
  BY <1>1, <1>2, <1>3, <1>4 DEF OneTrimester, Trimesters

LEMMA CurrentTrimesterFound ==
  ASSUME NEW date \in Date
  PROVE  /\ CurrentTrimester(date) \in Trimesters
         /\ InTrimester(date.month, date.day, CurrentTrimester(date))
<1>1. OneTrimester(date.month, date.day)
  BY RangesPartition DEF Date
<1> QED
  BY <1>1 DEF OneTrimester, CurrentTrimester

LEMMA DaysInBound ==
  ASSUME NEW y \in Nat, NEW m \in 1..12
  PROVE  DaysIn(y, m) \in 1..31
BY DEF DaysIn

LEMMA TypeStep == TypeOK /\ [Next]_vars => TypeOK'
<1> SUFFICES ASSUME TypeOK, [Next]_vars PROVE TypeOK'
  OBVIOUS
<1> USE DEF TypeOK, Date
<1>1. CASE NextDay
  <2>1. today.year \in Nat
    OBVIOUS
  <2>2. DaysIn(today.year, today.month) \in 1..31
    BY <2>1, DaysInBound
  <2>3. sessions' \subseteq Session
    BY <1>1 DEF NextDay
  <2>4. today' \in Date
    <3>1. CASE /\ today.day < DaysIn(today.year, today.month)
               /\ today' = [today EXCEPT !.day = @ + 1]
      <4>1. today.day + 1 \in 1..31
        BY <2>2, <3>1
      <4> QED
        BY <3>1, <4>1
    <3>2. CASE /\ today.month < 12
               /\ today' = [year |-> today.year, month |-> today.month + 1, day |-> 1]
      BY <3>2
    <3>3. CASE /\ today.year < LastYear
               /\ today' = [year |-> today.year + 1, month |-> 1, day |-> 1]
      BY <2>1, <3>3
    <3> QED
      BY <1>1, <3>1, <3>2, <3>3 DEF NextDay
  <2> QED
    BY <2>3, <2>4
<1>2. CASE ProcessSessions
  <2>1. CurrentTrimester(today) \in Trimesters
    BY CurrentTrimesterFound
  <2>2. CurrentSession(today) \in Session
    BY <2>1 DEF CurrentSession, Session
  <2> QED
    BY <1>2, <2>2 DEF ProcessSessions
<1>3. CASE ProcessPlanification
  <2>1. Planified \subseteq Session
    BY DEF Planified, Session
  <2> QED
    BY <1>3, <2>1 DEF ProcessPlanification
<1>4. CASE UNCHANGED vars
  BY <1>4 DEF vars
<1> QED
  BY <1>1, <1>2, <1>3, <1>4 DEF Next

(* The date stays a date and the table holds sessions, for any years.      *)
THEOREM TypeCorrect == Spec => []TypeOK
<1>1. Init => TypeOK
  BY DEF Init, TypeOK, Date
<1>2. TypeOK /\ [Next]_vars => TypeOK'
  BY TypeStep
<1> QED
  BY <1>1, <1>2, PTL DEF Spec

(* Whatever the day, exactly one trimester claims it: the calendar rule    *)
(* of getCurrentSessionIndex() never falls through to its error.           *)
THEOREM CalendarIsTotal == Spec => []EveryDayInOneTrimester
<1>1. TypeOK => EveryDayInOneTrimester
  BY RangesPartition DEF TypeOK, Date, EveryDayInOneTrimester
<1> QED
  BY <1>1, TypeCorrect, PTL

----------------------------------------------------------------------------
(* The place of a day among the sessions of its year: the winter that      *)
(* begins in December is the first session of the next one.                *)
Place(d) == IF d <= 428 THEN 1 ELSE IF d <= 817 THEN 2 ELSE IF d <= 1219 THEN 3 ELSE 11

LEMMA IndexIsPlace ==
  ASSUME NEW date \in Date
  PROVE  CurrentSessionIndex(date) = date.year * 10 + Place(DateToComparable(date.month, date.day))
<1> DEFINE d == DateToComparable(date.month, date.day)
           t == CurrentTrimester(date)
<1>1. date.year \in Nat /\ date.month \in 1..12 /\ date.day \in 1..31
  BY DEF Date
<1>2. d \in Nat /\ (d >= 1220 => date.month = 12) /\ (d <= 428 => date.month # 12)
  BY <1>1 DEF DateToComparable
<1>3. t \in Trimesters /\ InTrimester(date.month, date.day, t)
  BY CurrentTrimesterFound
<1>4. CASE t = "HIVER"
  <2>1. d >= 1220 \/ d <= 428
    BY <1>2, <1>3, <1>4 DEF InTrimester, SessionDateRange, IsDateInRange, DateToComparable
  <2> QED
    BY <1>1, <1>2, <1>4, <2>1 DEF CurrentSessionIndex, SessionDateRange, Place
<1>5. CASE t = "ETE"
  <2>1. d >= 429 /\ d <= 817
    BY <1>2, <1>3, <1>5 DEF InTrimester, SessionDateRange, IsDateInRange, DateToComparable
  <2> QED
    BY <1>1, <1>2, <1>5, <2>1 DEF CurrentSessionIndex, SessionDateRange, Place
<1>6. CASE t = "AUTOMNE"
  <2>1. d >= 818 /\ d <= 1219
    BY <1>2, <1>3, <1>6 DEF InTrimester, SessionDateRange, IsDateInRange, DateToComparable
  <2> QED
    BY <1>1, <1>2, <1>6, <2>1 DEF CurrentSessionIndex, SessionDateRange, Place
<1> QED
  BY <1>3, <1>4, <1>5, <1>6 DEF Trimesters

LEMMA FollowingPlace ==
  ASSUME NEW y \in Nat
  PROVE  /\ Following(y * 10 + 1) = y * 10 + 2
         /\ Following(y * 10 + 2) = y * 10 + 3
         /\ Following(y * 10 + 3) = y * 10 + 11
BY DEF Following

(* A month's last day is late enough for the next month's first day to be  *)
(* in the same session or the one that follows.                            *)
LEMMA DayFollows ==
  ASSUME TypeOK, NextDay
  PROVE  CurrentSessionIndex(today') \in
           {CurrentSessionIndex(today), Following(CurrentSessionIndex(today))}
<1> DEFINE d == DateToComparable(today.month, today.day)
           e == DateToComparable(today'.month, today'.day)
           y == today.year
<1>1. today \in Date /\ today' \in Date
  BY TypeStep DEF TypeOK, Next
<1>2. /\ CurrentSessionIndex(today) = y * 10 + Place(d)
      /\ CurrentSessionIndex(today') = today'.year * 10 + Place(e)
  BY <1>1, IndexIsPlace
<1>3. y \in Nat /\ today.month \in 1..12 /\ today.day \in 1..31
  BY <1>1 DEF Date
<1>4. DaysIn(y, today.month) \in 28..31
  BY <1>3 DEF DaysIn
<1>5. CASE /\ today.day < DaysIn(y, today.month)
           /\ today' = [today EXCEPT !.day = @ + 1]
  <2>1. today'.year = y /\ e = d + 1 /\ d \in 101..1230
    BY <1>1, <1>3, <1>4, <1>5 DEF Date, DateToComparable
  <2>2. Place(e) = Place(d) \/ <<Place(d), Place(e)>> \in {<<1, 2>>, <<2, 3>>, <<3, 11>>}
    BY <2>1 DEF Place
  <2> QED
    BY <1>2, <1>3, <2>1, <2>2, FollowingPlace
<1>6. CASE /\ today.day = DaysIn(y, today.month)
           /\ today.month < 12
           /\ today' = [year |-> y, month |-> today.month + 1, day |-> 1]
  <2>1. today'.year = y /\ d = today.month * 100 + today.day /\ e = (today.month + 1) * 100 + 1
    BY <1>6 DEF DateToComparable
  <2>2. today.month \in 1..11 /\ today.day \in 28..31
    BY <1>3, <1>4, <1>6
  <2>3. Place(e) = Place(d) \/ <<Place(d), Place(e)>> \in {<<1, 2>>, <<2, 3>>}
    BY <2>1, <2>2 DEF Place
  <2> QED
    BY <1>2, <1>3, <2>1, <2>3, FollowingPlace
<1>7. CASE /\ today.day = 31
           /\ today.month = 12
           /\ today' = [year |-> y + 1, month |-> 1, day |-> 1]
  <2>1. today'.year = y + 1 /\ d = 1231 /\ e = 101
    BY <1>7 DEF DateToComparable
  <2>2. Place(d) = 11 /\ Place(e) = 1
    BY <2>1 DEF Place
  <2> QED
    BY <1>2, <1>3, <2>1, <2>2
<1> QED
  BY <1>5, <1>6, <1>7 DEF NextDay

(* Day after day, over leap days and new years, getCurrentSessionIndex()   *)
(* names the same session or the one that follows.                         *)
THEOREM SessionsFollow == Spec => SessionsFollowEachOther
<1>1. TypeOK /\ [Next]_vars =>
        [today' # today =>
           CurrentSessionIndex(today') \in
             {CurrentSessionIndex(today), Following(CurrentSessionIndex(today))}]_vars
  BY DayFollows DEF Next, ProcessSessions, ProcessPlanification, vars
<1> QED
  BY <1>1, TypeCorrect, PTL DEF Spec, SessionsFollowEachOther
============================================================================
