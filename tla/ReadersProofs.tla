---------------------------- MODULE ReadersProofs ----------------------------
(***************************************************************************)
(* What the parts that read return is what was printed, found or asked     *)
(* for.  They share nothing: each step is a step of one part and leaves    *)
(* the variables of the others alone, so each part has an invariant of its *)
(* own.                                                                    *)
(***************************************************************************)
EXTENDS MCReaders, Sequences, FiniteSetTheorems, FunctionTheorems, TLAPS

(* A finite set of numbers has a greatest one: the numbers above an element*)
(* form a finite set, and inclusion orders those well.                     *)
LEMMA Greatest ==
  ASSUME NEW S \in SUBSET Nat, S # {}, IsFiniteSet(S)
  PROVE  \E x \in S : \A y \in S : y <= x
<1> DEFINE Above(x) == {y \in S : y > x}
           F == {Above(x) : x \in S}
<1>1. F \subseteq FiniteSubsetsOf(S) /\ F # {}
  <2>1. \A x \in S : Above(x) \in SUBSET S /\ IsFiniteSet(Above(x))
    BY FS_Subset
  <2> QED
    BY <2>1 DEF FiniteSubsetsOf
<1>2. PICK m \in F : \A s \in F : ~(<<s, m>> \in StrictSubsetOrdering(S))
  <2> HIDE DEF F
  <2> QED
    BY <1>1, FS_StrictSubsetOrderingWellFounded, WFMin
<1>3. PICK x \in S : m = Above(x)
  OBVIOUS
<1>4. ASSUME NEW y \in S, ~(y <= x)
      PROVE  FALSE
  <2> y \in Nat /\ x \in Nat /\ y > x
    BY <1>4
  <2>1. Above(y) \subseteq Above(x) /\ y \in Above(x) /\ y \notin Above(y)
    <3>1. \A z \in S : z \in Nat
      OBVIOUS
    <3>2. \A z \in S : z > y => z > x
      BY <3>1
    <3>3. y > x /\ ~(y > y)
      BY <3>1
    <3> HIDE DEF F
    <3> QED
      BY <3>1, <3>2, <3>3
  <2>2. <<Above(y), Above(x)>> \in StrictSubsetOrdering(S)
    BY <2>1 DEF StrictSubsetOrdering
  <2>3. Above(y) \in F
    OBVIOUS
  <2> QED
    BY <1>2, <1>3, <2>2, <2>3
<1> QED
  BY <1>4

(* Counting class by class: if a function into a finite set takes no value *)
(* more than k times, its domain has at most k elements for each value.    *)
LEMMA Fibres ==
  ASSUME NEW H, IsFiniteSet(H), NEW C, IsFiniteSet(C), NEW f \in [H -> C], NEW k \in Nat,
         \A c \in C : Cardinality({p \in H : f[p] = c}) <= k
  PROVE  Cardinality(H) <= Cardinality(C) * k
<1> DEFINE Class(c) == {p \in H : f[p] = c}
           Number(c) == CHOOSE g : g \in Injection(Class(c), 1..k)
<1>1. ASSUME NEW c \in C
      PROVE  Number(c) \in Injection(Class(c), 1..k)
  <2>1. /\ Cardinality(Class(c)) \in Nat /\ Cardinality(Class(c)) <= k
        /\ ExistsBijection(1..Cardinality(Class(c)), Class(c))
    BY FS_Subset, FS_CardinalityType
  <2>2. PICK b : b \in Bijection(Class(c), 1..Cardinality(Class(c)))
    BY <2>1, Fun_ExistsBijSymmetric DEF ExistsBijection
  <2> HIDE DEF Class
  <2>3. b \in Injection(Class(c), 1..k)
    BY <2>1, <2>2 DEF Bijection, Injection
  <2> QED
    BY <2>3
<1> DEFINE h == [p \in H |-> <<f[p], Number(f[p])[p]>>]
<1>2. ASSUME NEW p \in H
      PROVE  f[p] \in C /\ p \in Class(f[p]) /\ Number(f[p])[p] \in 1..k
  <2> f[p] \in C /\ p \in Class(f[p])
    OBVIOUS
  <2> HIDE DEF Class, Number
  <2> QED
    BY <1>1, Fun_InjectionProperties
<1>3. ASSUME NEW p \in H, NEW q \in H, h[p] = h[q]
      PROVE  p = q
  <2>1. f[p] = f[q] /\ Number(f[p])[p] = Number(f[p])[q]
    <3> HIDE DEF Number
    <3> QED
      BY <1>3
  <2>2. p \in Class(f[p]) /\ q \in Class(f[p]) /\ f[p] \in C
    BY <2>1
  <2> HIDE DEF Class, Number, h
  <2> QED
    BY <1>1, <2>1, <2>2, Fun_InjectionProperties
<1>4. h \in Injection(H, C \X (1..k))
  <2>1. h \in [H -> C \X (1..k)]
    BY <1>2
  <2> HIDE DEF h
  <2> QED
    BY <1>3, <2>1, Fun_IsInj
<1>5. /\ IsFiniteSet(1..k) /\ Cardinality(1..k) = k
  BY FS_Interval
<1>6. IsFiniteSet(C \X (1..k)) /\ Cardinality(C \X (1..k)) = Cardinality(C) * k
  BY <1>5, FS_Product
<1> QED
  BY <1>4, <1>6, FS_Injection

(* Counting places up to one of them: places are numbered in order, and a  *)
(* place after all others changes no number but takes the next.            *)
UpTo(i, S) == Cardinality({j \in S : j <= i})

LEMMA PlacesFinite ==
  ASSUME NEW n \in Nat, NEW S \in SUBSET (1..n)
  PROVE  /\ IsFiniteSet(S) /\ Cardinality(S) \in Nat
         /\ \A i : UpTo(i, S) \in 0..Cardinality(S)
         /\ UpTo(n, S) = Cardinality(S)
<1>1. IsFiniteSet(S)
  <2>1. IsFiniteSet(1..n)
    BY FS_Interval
  <2> QED
    BY <2>1, FS_Subset
<1>2. Cardinality(S) \in Nat
  BY <1>1, FS_CardinalityType
<1>3. ASSUME NEW i
      PROVE  UpTo(i, S) \in 0..Cardinality(S)
  <2>1. {j \in S : j <= i} \in SUBSET S
    OBVIOUS
  <2> HIDE DEF UpTo
  <2>2. IsFiniteSet({j \in S : j <= i}) /\ UpTo(i, S) <= Cardinality(S)
    BY <1>1, <2>1, FS_Subset DEF UpTo
  <2>3. UpTo(i, S) \in Nat
    BY <2>2, FS_CardinalityType DEF UpTo
  <2> QED
    BY <1>2, <2>2, <2>3
<1>4. {j \in S : j <= n} = S
  <2>1. \A j \in S : j <= n
    OBVIOUS
  <2> QED
    BY <2>1
<1> QED
  BY <1>1, <1>2, <1>3, <1>4 DEF UpTo

LEMMA Numbered ==
  ASSUME NEW n \in Nat, NEW S \in SUBSET (1..n), NEW i \in S
  PROVE  /\ UpTo(i, S) \in 1..Cardinality(S)
         /\ \A j \in S : i < j => UpTo(i, S) < UpTo(j, S)
<1>1. ASSUME NEW j \in S, i < j
      PROVE  UpTo(i, S) < UpTo(j, S)
  <2> DEFINE A == {x \in S : x <= i}
             B == {x \in S : x <= j}
  <2>1. A \in SUBSET B /\ j \in B /\ j \notin A
    <3>1. j <= j /\ ~(j <= i) /\ \A x \in S : x <= i => x <= j
      BY <1>1
    <3> QED
      BY <3>1
  <2>2. IsFiniteSet(B)
    BY PlacesFinite, FS_Subset
  <2> HIDE DEF A, B
  <2>3. IsFiniteSet(A) /\ Cardinality(A) <= Cardinality(B) /\ Cardinality(A) # Cardinality(B)
    BY <2>1, <2>2, FS_Subset
  <2>4. Cardinality(A) < Cardinality(B)
    BY <2>2, <2>3, FS_CardinalityType
  <2> QED
    BY <2>4 DEF A, B, UpTo
<1>2. UpTo(i, S) # 0
  <2>1. i \in {j \in S : j <= i} /\ IsFiniteSet({j \in S : j <= i})
    BY PlacesFinite, FS_Subset
  <2> QED
    BY <2>1, FS_EmptySet DEF UpTo
<1>3. UpTo(i, S) \in 0..Cardinality(S) /\ Cardinality(S) \in Nat
  BY PlacesFinite
<1> QED
  BY <1>1, <1>2, <1>3

LEMMA PlaceAdded ==
  ASSUME NEW n \in Nat, NEW S \in SUBSET (1..n)
  PROVE  /\ S \cup {n + 1} \in SUBSET (1..(n + 1))
         /\ Cardinality(S \cup {n + 1}) = Cardinality(S) + 1
         /\ UpTo(n + 1, S \cup {n + 1}) = Cardinality(S) + 1
         /\ \A i \in 1..n : UpTo(i, S \cup {n + 1}) = UpTo(i, S)
<1>1. IsFiniteSet(S) /\ n + 1 \notin S
  BY PlacesFinite
<1>2. Cardinality(S \cup {n + 1}) = Cardinality(S) + 1
  BY <1>1, FS_AddElement
<1>3. {j \in S \cup {n + 1} : j <= n + 1} = S \cup {n + 1}
  <2>1. \A j \in S \cup {n + 1} : j <= n + 1
    OBVIOUS
  <2> QED
    BY <2>1
<1>4. \A i \in 1..n : {j \in S \cup {n + 1} : j <= i} = {j \in S : j <= i}
  OBVIOUS
<1> QED
  BY <1>2, <1>3, <1>4 DEF UpTo

----------------------------------------------------------------------------
(* The planification table.  Each row that was read is among the courses,  *)
(* but for the last until the document ends, and lists what its own cells  *)
(* hold of the texts read so far.                                          *)
Rows == Cardinality(Planification!Headings)
RowsRead == [r \in 1..Rows |-> IF ~tableDone /\ r = Rows THEN row ELSE tableCourses[r]]

CellOK(cell, places) ==
  /\ Len(cell) = Cardinality(places)
  /\ \A i \in places : cell[UpTo(i, places)] = table[i].text

TableType ==
  /\ table \in Seq([column : Planification!Columns, text : Planification!Texts])
  /\ tableCourses \in Seq(Planification!Course)
  /\ row \in Planification!Course
  /\ tableDone \in BOOLEAN

TableInv ==
  /\ TableType
  /\ row.code = None <=> Rows = 0
  /\ Len(tableCourses) = IF tableDone \/ Rows = 0 THEN Rows ELSE Rows - 1
  /\ \A h \in Planification!Headings : RowsRead[Planification!RowOf(h)].code = table[h].text
  /\ \A r \in 1..Rows, s \in Sessions :
       CellOK(RowsRead[r].available[s], Planification!CellOf(r, s))

LEMMA TableCounts ==
  /\ \A i : Planification!RowOf(i) = UpTo(i, Planification!Headings)
  /\ \A S : Planification!Cardinality(S) = Cardinality(S)
  /\ \A cell, places : Planification!Lists(cell, places) <=> CellOK(cell, places)
<1>1. \A S : Planification!Cardinality(S) = Cardinality(S)
  BY DEF Cardinality, IsFiniteSet, Planification!Cardinality, Planification!IsFiniteSet
<1>2. \A i, S : Planification!UpTo(i, S) = UpTo(i, S)
  BY <1>1 DEF UpTo, Planification!UpTo
<1> QED
  BY <1>1, <1>2 DEF Planification!RowOf, Planification!Lists, CellOK

LEMMA TablePlaces ==
  ASSUME TableType
  PROVE  /\ Len(table) \in Nat /\ DOMAIN table = 1..Len(table)
         /\ Planification!Headings \in SUBSET (1..Len(table))
         /\ Rows \in Nat
         /\ \A r, s : Planification!CellOf(r, s) \in SUBSET (1..Len(table))
<1>1. Len(table) \in Nat /\ DOMAIN table = 1..Len(table)
  BY DEF TableType
<1>2. Planification!Headings \in SUBSET (1..Len(table))
  BY <1>1 DEF Planification!Headings
<1> QED
  BY <1>1, <1>2, PlacesFinite DEF Rows, Planification!CellOf

LEMMA TableInitially == Planification!Init => TableInv
<1> SUFFICES ASSUME Planification!Init PROVE TableInv
  OBVIOUS
<1>1. table = <<>> /\ tableCourses = <<>> /\ tableDone = FALSE
      /\ row = Planification!NewCourse(None)
  BY DEF Planification!Init
<1>2. TableType
  <2>1. row \in Planification!Course
    BY <1>1 DEF Planification!NewCourse, Planification!Course, Planification!Cells
  <2>2. \A S : <<>> \in Seq(S)
    OBVIOUS
  <2>3. /\ table \in Seq([column : Planification!Columns, text : Planification!Texts])
        /\ tableCourses \in Seq(Planification!Course)
    BY <1>1, <2>2
  <2> QED
    BY <1>1, <2>1, <2>3 DEF TableType
<1>3. Planification!Headings = {}
  BY <1>1 DEF Planification!Headings
<1>4. Rows = 0
  BY <1>3, FS_EmptySet DEF Rows
<1> QED
  BY <1>1, <1>2, <1>3, <1>4 DEF TableInv, Planification!NewCourse

(* A text that is read changes nothing of what was read before it.         *)
IsHeading(column, text) == column = "code" /\ text \in Codes

TableGrown(column, text) ==
  LET n == Len(table)
  IN  /\ DOMAIN table' = 1..(n + 1)
      /\ \A i \in 1..n : table'[i] = table[i]
      /\ table'[n + 1] = [column |-> column, text |-> text]
      /\ Planification!Headings' = IF IsHeading(column, text)
                                   THEN Planification!Headings \cup {n + 1}
                                   ELSE Planification!Headings
      /\ Rows' = IF IsHeading(column, text) THEN Rows + 1 ELSE Rows
      /\ \A i \in 1..(n + 1) :
           Planification!RowOf(i)' = IF i = n + 1 THEN Rows' ELSE Planification!RowOf(i)
      /\ \A r, s : Planification!CellOf(r, s)' =
                     IF column = s /\ text \in Availabilities /\ r = Rows'
                     THEN Planification!CellOf(r, s) \cup {n + 1}
                     ELSE Planification!CellOf(r, s)

LEMMA TableGrows ==
  ASSUME TableType, NEW column \in Planification!Columns, NEW text \in Planification!Texts,
         table' = Append(table, [column |-> column, text |-> text])
  PROVE  TableGrown(column, text)
<1> PICK n : n = Len(table)
  OBVIOUS
<1>1. n \in Nat /\ DOMAIN table = 1..n /\ Planification!Headings \in SUBSET (1..n)
  BY TablePlaces
<1>2. /\ DOMAIN table' = 1..(n + 1) /\ n + 1 \notin 1..n
      /\ \A i \in 1..n : table'[i] = table[i]
      /\ table'[n + 1] = [column |-> column, text |-> text]
  BY <1>1 DEF TableType
<1>3. 1..(n + 1) = (1..n) \cup {n + 1}
  BY <1>1
<1>4. Planification!Headings' = IF IsHeading(column, text)
                                THEN Planification!Headings \cup {n + 1}
                                ELSE Planification!Headings
  BY <1>1, <1>2, <1>3 DEF Planification!Headings, IsHeading
<1>5. \A i : Planification!RowOf(i)' = UpTo(i, Planification!Headings')
  BY TableCounts DEF Planification!RowOf, Planification!UpTo, UpTo
<1>6. Rows' = Cardinality(Planification!Headings')
  BY DEF Rows
<1>7. /\ Rows' = IF IsHeading(column, text) THEN Rows + 1 ELSE Rows
      /\ \A i \in 1..n : Planification!RowOf(i)' = Planification!RowOf(i)
  <2>1. CASE IsHeading(column, text)
    BY <1>1, <1>4, <1>5, <1>6, <2>1, PlaceAdded, TableCounts DEF Rows
  <2>2. CASE ~IsHeading(column, text)
    BY <1>1, <1>4, <1>5, <1>6, <2>2, TableCounts DEF Rows
  <2> QED
    BY <2>1, <2>2
<1>8. \A i : i = n + 1 => Planification!RowOf(i)' = Rows'
  <2>1. Planification!Headings' \in SUBSET (1..(n + 1))
    BY <1>1, <1>3, <1>4
  <2> QED
    BY <1>1, <1>5, <1>6, <2>1, PlacesFinite
<1>9. ASSUME NEW r, NEW s
      PROVE  Planification!CellOf(r, s)' =
               IF column = s /\ text \in Availabilities /\ r = Rows'
               THEN Planification!CellOf(r, s) \cup {n + 1}
               ELSE Planification!CellOf(r, s)
  BY <1>1, <1>2, <1>3, <1>7, <1>8 DEF Planification!CellOf
<1> QED
  BY <1>2, <1>4, <1>7, <1>8, <1>9 DEF TableGrown

LEMMA TableReads ==
  ASSUME TableInv, NEW column \in Planification!Columns, NEW text \in Planification!Texts,
         Planification!ReadText(column, text)
  PROVE  TableInv'
<1> DEFINE e == [column |-> column, text |-> text]
<1> PICK n : n = Len(table)
  OBVIOUS
<1>1. /\ TableType /\ tableDone = FALSE /\ tableDone' = FALSE
      /\ table' = Append(table, e)
  BY DEF TableInv, TableType, Planification!ReadText
<1>2. /\ n \in Nat /\ Rows \in Nat /\ Planification!Headings \in SUBSET (1..n)
      /\ \A r, s : Planification!CellOf(r, s) \in SUBSET (1..n)
  BY <1>1, TablePlaces
<1>3. /\ \A i \in 1..n : table'[i] = table[i]
      /\ table'[n + 1] = e
      /\ Planification!Headings' = IF IsHeading(column, text)
                                   THEN Planification!Headings \cup {n + 1}
                                   ELSE Planification!Headings
      /\ Rows' = IF IsHeading(column, text) THEN Rows + 1 ELSE Rows
      /\ \A i \in 1..(n + 1) :
           Planification!RowOf(i)' = IF i = n + 1 THEN Rows' ELSE Planification!RowOf(i)
      /\ \A r, s : Planification!CellOf(r, s)' =
                     IF column = s /\ text \in Availabilities /\ r = Rows'
                     THEN Planification!CellOf(r, s) \cup {n + 1}
                     ELSE Planification!CellOf(r, s)
  <2>1. TableGrown(column, text)
    BY <1>1, TableGrows
  <2> QED
    BY <2>1 DEF TableGrown
<1>4. ASSUME NEW cell, NEW S \in SUBSET (1..n), CellOK(cell, S)
      PROVE  CellOK(cell, S)'
  BY <1>3, <1>4 DEF CellOK
<1>5. ASSUME NEW cell \in Seq(Availabilities), NEW S \in SUBSET (1..n), CellOK(cell, S)
      PROVE  CellOK(Append(cell, text), S \cup {n + 1})'
  <2>1. /\ Cardinality(S) \in Nat /\ Len(cell) = Cardinality(S)
        /\ \A i \in S : UpTo(i, S) \in 1..Len(cell)
    BY <1>2, <1>5, PlacesFinite, Numbered DEF CellOK
  <2>2. /\ Cardinality(S \cup {n + 1}) = Cardinality(S) + 1
        /\ UpTo(n + 1, S \cup {n + 1}) = Cardinality(S) + 1
        /\ \A i \in S : UpTo(i, S \cup {n + 1}) = UpTo(i, S)
    BY <1>2, PlaceAdded
  <2>3. /\ Len(Append(cell, text)) = Len(cell) + 1
        /\ Append(cell, text)[Len(cell) + 1] = text
        /\ \A i \in 1..Len(cell) : Append(cell, text)[i] = cell[i]
    OBVIOUS
  <2>4. /\ Append(cell, text)[UpTo(n + 1, S \cup {n + 1})] = table'[n + 1].text
        /\ \A i \in S : Append(cell, text)[UpTo(i, S \cup {n + 1})] = table'[i].text
    <3>1. \A i \in S : cell[UpTo(i, S)] = table[i].text /\ table'[i] = table[i]
      BY <1>3, <1>5 DEF CellOK
    <3>2. table'[n + 1].text = text
      BY <1>3
    <3> QED
      BY <2>1, <2>2, <2>3, <3>1, <3>2
  <2> QED
    BY <2>1, <2>2, <2>3, <2>4 DEF CellOK
<1>6. \A h \in Planification!Headings : Planification!RowOf(h) \in 1..Rows
  BY <1>2, Numbered, TableCounts DEF Rows
<1>7. CASE IsHeading(column, text)
  <2>1. tableCourses' = Planification!Pushed /\ row' = Planification!NewCourse(text)
        /\ text \in Codes
    BY <1>7 DEF Planification!ReadText, IsHeading, Planification!Row
  <2>2. /\ Rows' = Rows + 1
        /\ Planification!Headings' = Planification!Headings \cup {n + 1}
    BY <1>3, <1>7
  <2>3. TableType'
    <3>1. row' \in Planification!Course
      BY <2>1 DEF Planification!NewCourse, Planification!Course, Planification!Cells
    <3>2. tableCourses' \in Seq(Planification!Course)
      BY <1>1, <2>1 DEF TableType, Planification!Pushed
    <3>3. table' \in Seq([column : Planification!Columns, text : Planification!Texts])
      BY <1>1 DEF TableType
    <3> QED
      BY <1>1, <3>1, <3>2, <3>3 DEF TableType
  <2>4. row'.code = text /\ text # None /\ \A s \in Sessions : row'.available[s] = <<>>
    BY <2>1, NoneAssumption DEF Planification!NewCourse
  <2>5. Len(tableCourses') = Rows /\ \A r \in 1..Rows : tableCourses'[r] = RowsRead[r]
    BY <1>1, <1>2, <2>1 DEF TableInv, TableType, Planification!Pushed, RowsRead
  <2>6. /\ \A r \in 1..Rows : RowsRead'[r] = RowsRead[r]
        /\ RowsRead'[Rows + 1] = row'
    BY <1>1, <1>2, <2>2, <2>5 DEF RowsRead
  <2>7. ASSUME NEW h \in Planification!Headings'
        PROVE  RowsRead'[Planification!RowOf(h)'].code = table'[h].text
    <3>1. CASE h \in Planification!Headings
      BY <1>2, <1>3, <1>6, <2>6, <3>1 DEF TableInv
    <3>2. CASE h = n + 1
      BY <1>3, <2>2, <2>4, <2>6, <3>2
    <3> QED
      BY <2>2, <3>1, <3>2
  <2>8. ASSUME NEW r \in 1..Rows', NEW s \in Sessions
        PROVE  CellOK(RowsRead[r].available[s], Planification!CellOf(r, s))'
    <3>1. Planification!CellOf(r, s)' = Planification!CellOf(r, s)
      BY <1>3, <1>7, ColumnsAssumption DEF IsHeading
    <3>2. CASE r \in 1..Rows
      BY <1>2, <1>4, <2>6, <3>1, <3>2 DEF TableInv
    <3>3. CASE r = Rows + 1
      <4>1. Planification!CellOf(r, s) = {}
        <5>1. \A i \in 1..n : Planification!RowOf(i) \in 0..Rows
          BY <1>2, PlacesFinite, TableCounts DEF Rows
        <5> QED
          BY <1>1, <1>2, <3>3, <5>1, TablePlaces DEF Planification!CellOf
      <4>2. CellOK(<<>>, {})'
        BY FS_EmptySet DEF CellOK
      <4> QED
        BY <2>4, <2>6, <3>1, <3>3, <4>1, <4>2
    <3> QED
      BY <1>2, <2>2, <3>2, <3>3
  <2> QED
    BY <1>1, <1>2, <2>2, <2>3, <2>4, <2>5, <2>7, <2>8 DEF TableInv
<1>8. CASE ~IsHeading(column, text)
  <2>1. /\ tableCourses' = tableCourses
        /\ row' = IF column \in Sessions /\ text \in Availabilities
                  THEN [row EXCEPT !.available[column] = Append(@, text)] ELSE row
    BY <1>8 DEF Planification!ReadText, IsHeading
  <2>2. Rows' = Rows /\ Planification!Headings' = Planification!Headings
    BY <1>3, <1>8
  <2>3. /\ row' \in Planification!Course
        /\ row'.code = row.code
        /\ \A s \in Sessions : row.available[s] \in Seq(Availabilities)
        /\ \A s \in Sessions : row'.available[s] =
             IF column = s /\ text \in Availabilities
             THEN Append(row.available[s], text) ELSE row.available[s]
    <3>1. /\ row.code \in Codes \cup {None} /\ row.available \in [Sessions -> Seq(Availabilities)]
          /\ row = [code |-> row.code, available |-> row.available]
      BY <1>1 DEF TableType, Planification!Course, Planification!Cells
    <3>2. CASE column \in Sessions /\ text \in Availabilities
      <4> DEFINE cells == [row.available EXCEPT ![column] = Append(@, text)]
      <4>1. row' = [code |-> row.code, available |-> cells]
        BY <2>1, <3>1, <3>2
      <4>2. cells \in [Sessions -> Seq(Availabilities)]
        BY <3>1, <3>2
      <4>3. \A s \in Sessions : cells[s] = IF column = s THEN Append(row.available[s], text)
                                           ELSE row.available[s]
        BY <3>1
      <4> HIDE DEF cells
      <4> QED
        BY <3>1, <3>2, <4>1, <4>2, <4>3 DEF Planification!Course, Planification!Cells
    <3>3. CASE ~(column \in Sessions /\ text \in Availabilities)
      BY <2>1, <3>1, <3>3 DEF Planification!Course, Planification!Cells
    <3> QED
      BY <3>2, <3>3
  <2>4. TableType'
    <3>1. table' \in Seq([column : Planification!Columns, text : Planification!Texts])
      BY <1>1 DEF TableType
    <3> QED
      BY <1>1, <2>1, <2>3, <3>1 DEF TableType
  <2>5. \A r \in 1..Rows : RowsRead'[r] = IF r = Rows THEN row' ELSE RowsRead[r]
    BY <1>1, <2>1, <2>2 DEF RowsRead
  <2>6. Rows \in 1..Rows => RowsRead[Rows] = row
    BY <1>1 DEF RowsRead
  <2>7. \A h \in Planification!Headings' : RowsRead'[Planification!RowOf(h)'].code = table'[h].text
    <3> SUFFICES ASSUME NEW h \in Planification!Headings
                 PROVE  RowsRead'[Planification!RowOf(h)'].code = table'[h].text
      BY <2>2
    <3>1. /\ table'[h] = table[h] /\ Planification!RowOf(h)' = Planification!RowOf(h)
          /\ Planification!RowOf(h) \in 1..Rows
      BY <1>2, <1>3, <1>6
    <3>2. RowsRead[Planification!RowOf(h)].code = table[h].text
      BY DEF TableInv
    <3> QED
      BY <2>3, <2>5, <2>6, <3>1, <3>2
  <2>8. ASSUME NEW r \in 1..Rows', NEW s \in Sessions
        PROVE  CellOK(RowsRead[r].available[s], Planification!CellOf(r, s))'
    <3>1. r \in 1..Rows /\ CellOK(RowsRead[r].available[s], Planification!CellOf(r, s))
      BY <2>2 DEF TableInv
    <3>2. CASE column = s /\ text \in Availabilities /\ r = Rows
      BY <1>2, <1>3, <1>5, <2>2, <2>3, <2>5, <2>6, <3>1, <3>2
    <3>3. CASE ~(column = s /\ text \in Availabilities /\ r = Rows)
      <4>1. Planification!CellOf(r, s)' = Planification!CellOf(r, s)
        BY <1>3, <2>2, <3>3
      <4>2. RowsRead'[r].available[s] = RowsRead[r].available[s]
        BY <2>3, <2>5, <2>6, <3>1, <3>3
      <4> QED
        BY <1>2, <1>4, <3>1, <4>1, <4>2
    <3> QED
      BY <3>2, <3>3
  <2> QED
    BY <1>1, <2>1, <2>2, <2>3, <2>4, <2>7, <2>8 DEF TableInv
<1> QED
  BY <1>7, <1>8

LEMMA TableEnds ==
  ASSUME TableInv, Planification!DocumentEnds
  PROVE  TableInv'
<1>1. /\ TableType /\ tableDone = FALSE /\ tableDone' = TRUE
      /\ table' = table /\ row' = row /\ tableCourses' = Planification!Pushed
  BY DEF TableInv, TableType, Planification!DocumentEnds
<1>2. Rows \in Nat
  BY <1>1, TablePlaces
<1>3. /\ Rows' = Rows /\ Planification!Headings' = Planification!Headings
      /\ \A i : Planification!RowOf(i)' = Planification!RowOf(i)
      /\ \A r, s : Planification!CellOf(r, s)' = Planification!CellOf(r, s)
      /\ \A cell, S : CellOK(cell, S)' <=> CellOK(cell, S)
  BY <1>1 DEF Rows, Planification!Headings, Planification!RowOf, Planification!CellOf, CellOK
<1>4. TableType'
  BY <1>1 DEF TableType, Planification!Pushed
<1>5. Len(tableCourses') = Rows /\ \A r \in 1..Rows : tableCourses'[r] = RowsRead[r]
  BY <1>1, <1>2 DEF TableInv, TableType, Planification!Pushed, RowsRead
<1>6. \A r \in 1..Rows : RowsRead'[r] = RowsRead[r]
  BY <1>1, <1>3, <1>5 DEF RowsRead
<1>7. \A h \in Planification!Headings : Planification!RowOf(h) \in 1..Rows
  BY <1>1, TablePlaces, Numbered, TableCounts DEF Rows
<1>8. \A h \in Planification!Headings' : RowsRead'[Planification!RowOf(h)'].code = table'[h].text
  BY <1>1, <1>3, <1>6, <1>7 DEF TableInv
<1>9. ASSUME NEW r \in 1..Rows', NEW s \in Sessions
      PROVE  CellOK(RowsRead[r].available[s], Planification!CellOf(r, s))'
  BY <1>3, <1>6 DEF TableInv
<1> QED
  BY <1>1, <1>2, <1>3, <1>4, <1>5, <1>8, <1>9 DEF TableInv

LEMMA TablePreserved == TableInv /\ Planification!Next => TableInv'
BY TableReads, TableEnds DEF Planification!Next

LEMMA TableUntouched == TableInv /\ UNCHANGED tableVars => TableInv'
<1> SUFFICES ASSUME TableInv, UNCHANGED tableVars PROVE TableInv'
  OBVIOUS
<1>1. table' = table /\ row' = row /\ tableCourses' = tableCourses /\ tableDone' = tableDone
  BY DEF tableVars
<1>2. /\ Rows' = Rows /\ Planification!Headings' = Planification!Headings /\ RowsRead' = RowsRead
      /\ \A i : Planification!RowOf(i)' = Planification!RowOf(i)
      /\ \A r, s : Planification!CellOf(r, s)' = Planification!CellOf(r, s)
      /\ \A cell, S : CellOK(cell, S)' <=> CellOK(cell, S)
  BY <1>1 DEF Rows, RowsRead, Planification!Headings, Planification!RowOf, Planification!CellOf,
              CellOK
<1> QED
  BY <1>1, <1>2 DEF TableInv, TableType

LEMMA TablePrinted == TableInv => RowsAsPrinted
<1> SUFFICES ASSUME TableInv, tableDone
             PROVE  /\ Len(tableCourses) = Rows
                    /\ \A h \in Planification!Headings :
                         tableCourses[Planification!RowOf(h)].code = table[h].text
                    /\ \A r \in DOMAIN tableCourses, s \in Sessions :
                         CellOK(tableCourses[r].available[s], Planification!CellOf(r, s))
  BY TableCounts DEF RowsAsPrinted, Planification!RowsAsPrinted, Rows
<1>1. TableType /\ Rows \in Nat
  BY TablePlaces DEF TableInv
<1>2. Len(tableCourses) = Rows /\ DOMAIN tableCourses = 1..Rows
  BY <1>1 DEF TableInv, TableType
<1>3. \A r \in 1..Rows : RowsRead[r] = tableCourses[r]
  BY DEF RowsRead
<1>4. \A h \in Planification!Headings : Planification!RowOf(h) \in 1..Rows
  BY <1>1, TablePlaces, Numbered, TableCounts DEF Rows
<1> QED
  BY <1>2, <1>3, <1>4 DEF TableInv

----------------------------------------------------------------------------
(* The search.  What it found are the points that match best, and the      *)
(* answer is cut from a ranking of their courses.                          *)
Ranking(order) ==
  /\ order \in [1..Cardinality(Search!Found) -> Search!Found]
  /\ \A i, j \in DOMAIN order : i # j => order[i] # order[j]
  /\ \A i, j \in DOMAIN order : i < j => Search!Best(order[i]) >= Search!Best(order[j])

Cut(order) ==
  [i \in 1..Search!Wanted |-> [code |-> order[i], score |-> Search!Best(order[i])]]

SearchInv ==
  /\ score \in [Search!Points -> Scores \cup {None}]
  /\ hits \subseteq Search!Matching
  /\ request \in {"embedding", "searching"} => hits = {}
  /\ hits # {} => Search!IsTop(hits)
  /\ request = "answered" /\ hits # {} => \E order : Ranking(order) /\ answer = Cut(order)

LEMMA SearchSizes == \A S : Search!Cardinality(S) = Cardinality(S)
BY DEF Cardinality, IsFiniteSet, Search!Cardinality, Search!IsFiniteSet

LEMMA SearchInitially == SearchBegun \/ Search!Init => SearchInv
BY DEF SearchBegun, Search!Init, SearchInv

LEMMA SearchPreserved ==
  ASSUME SearchInv, Search!Next
  PROVE  SearchInv'
<1>s. score' = score /\ filter' = filter /\ Search!Matching' = Search!Matching
  BY DEF Search!Next, Search!Embedded, Search!Searched, Search!Answered, Search!Fails,
         Search!Matching
<1>1. CASE Search!Embedded
  BY <1>1, <1>s DEF SearchInv, Search!Embedded, Search!Goes
<1>2. CASE Search!Searched
  <2>1. request' = "found" /\ hits' \in SUBSET Search!Matching /\ Search!IsTop(hits')
    BY <1>2 DEF Search!Searched, Search!Goes
  <2>2. Search!IsTop(hits)'
    BY <1>s, <2>1 DEF Search!IsTop
  <2> QED
    BY <1>s, <2>1, <2>2 DEF SearchInv
<1>3. CASE Search!Answered
  <2>1. request' = "answered" /\ hits' = hits
    BY <1>3 DEF Search!Answered, Search!Goes
  <2>2. Search!IsTop(hits)' <=> Search!IsTop(hits)
    BY <1>s, <2>1 DEF Search!IsTop
  <2>3. \E order : Ranking(order)' /\ (answer = Cut(order))'
    <3>1. PICK order \in [1..Cardinality(Search!Found) -> Search!Found] :
             /\ \A i, j \in DOMAIN order : i # j => order[i] # order[j]
             /\ \A i, j \in DOMAIN order : i < j => Search!Best(order[i]) >= Search!Best(order[j])
             /\ answer' = [i \in 1..Search!Wanted |->
                             [code |-> order[i], score |-> Search!Best(order[i])]]
      BY <1>3, SearchSizes DEF Search!Answered
    <3>2. /\ Search!Found' = Search!Found /\ Search!Wanted' = Search!Wanted
          /\ \A c : Search!Best(c)' = Search!Best(c)
      BY <1>s, <2>1 DEF Search!Found, Search!Wanted, Search!Best, Search!ScoresOf
    <3>3. Ranking(order)'
      BY <3>1, <3>2 DEF Ranking
    <3>4. (answer = Cut(order))'
      BY <3>1, <3>2 DEF Cut
    <3> QED
      BY <3>3, <3>4
  <2> QED
    BY <1>s, <2>1, <2>2, <2>3 DEF SearchInv
<1>4. CASE Search!Fails
  BY <1>4, <1>s DEF SearchInv, Search!Fails, Search!Goes
<1> QED
  BY <1>1, <1>2, <1>3, <1>4 DEF Search!Next

LEMMA SearchUntouched == SearchInv /\ UNCHANGED searchVars => SearchInv'
<1> SUFFICES ASSUME SearchInv, UNCHANGED searchVars PROVE SearchInv'
  OBVIOUS
<1>1. /\ score' = score /\ filter' = filter /\ request' = request /\ hits' = hits
      /\ answer' = answer
  BY DEF searchVars
<1>2. Search!Matching' = Search!Matching
  BY <1>1 DEF Search!Matching
<1>3. Search!IsTop(hits)' <=> Search!IsTop(hits)
  BY <1>1, <1>2 DEF Search!IsTop
<1>4. /\ Search!Found' = Search!Found /\ Search!Wanted' = Search!Wanted
      /\ \A c : Search!Best(c)' = Search!Best(c)
  BY <1>1 DEF Search!Found, Search!Wanted, Search!Best, Search!ScoresOf
<1>5. \A order : (Ranking(order)' <=> Ranking(order)) /\ Cut(order)' = Cut(order)
  BY <1>4 DEF Ranking, Cut
<1> QED
  BY <1>1, <1>2, <1>3, <1>5 DEF SearchInv

(* A course that a set of matching points has a point of: the highest of   *)
(* its scores is the score of one of them.                                 *)
LEMMA HighestIs ==
  ASSUME SearchInv, NEW P \in SUBSET Search!Matching, NEW q \in P
  PROVE  LET h == Search!Highest(Search!ScoresOf(P, q[1]))
         IN  /\ h \in Nat
             /\ \E p \in P : p[1] = q[1] /\ score[p] = h
             /\ \A p \in P : p[1] = q[1] => score[p] <= h
<1> DEFINE Q == {p \in P : p[1] = q[1]}
           scores == Search!ScoresOf(P, q[1])
<1>1. IsFiniteSet(Q)
  <2>1. IsFiniteSet(Codes \X Programs)
    BY FiniteAssumption, FS_Product
  <2> QED
    BY <2>1, FS_Subset DEF Search!Matching, Search!Points
<1>2. \A p \in P : score[p] \in Nat
  BY ScoresAssumption DEF SearchInv, Search!Matching, Search!Points
<1>3. scores = {score[p] : p \in Q}
  BY DEF Search!ScoresOf
<1>4. IsFiniteSet(scores)
  <2> DEFINE f == [p \in Q |-> score[p]]
  <2>1. f \in [Q -> scores] /\ \A s \in scores : \E p \in Q : f[p] = s
    BY <1>3
  <2> HIDE DEF f, scores, Q
  <2> QED
    BY <1>1, <2>1, Fun_IsSurj, FS_Surjection
<1>5. scores \in SUBSET Nat /\ scores # {}
  BY <1>2, <1>3
<1>6. \E x \in scores : \A y \in scores : y <= x
  <2> HIDE DEF scores
  <2> QED
    BY <1>4, <1>5, Greatest
<1>7. /\ Search!Highest(scores) \in scores
      /\ \A y \in scores : y <= Search!Highest(scores)
  BY <1>6 DEF Search!Highest
<1> QED
  BY <1>3, <1>5, <1>7

(* The best of the points found is the best of all: a point left out does  *)
(* not score more than any that was found.                                 *)
LEMMA BestIsHighest ==
  ASSUME SearchInv, hits # {}, NEW q \in hits
  PROVE  Search!Best(q[1]) = Search!Highest(Search!ScoresOf(Search!Matching, q[1]))
<1> DEFINE b == Search!Best(q[1])
           h == Search!Highest(Search!ScoresOf(Search!Matching, q[1]))
<1>1. hits \in SUBSET Search!Matching /\ Search!IsTop(hits)
  BY DEF SearchInv
<1>2. PICK p \in hits : p[1] = q[1] /\ score[p] = b
  BY <1>1, HighestIs DEF Search!Best
<1>3. b \in Nat /\ \A x \in hits : x[1] = q[1] => score[x] <= b
  BY <1>1, HighestIs DEF Search!Best
<1>4. q \in Search!Matching
  BY <1>1
<1>5. PICK z \in Search!Matching : z[1] = q[1] /\ score[z] = h
  BY <1>4, HighestIs
<1>6. h \in Nat /\ \A x \in Search!Matching : x[1] = q[1] => score[x] <= h
  BY <1>4, HighestIs
<1>7. b <= h
  BY <1>1, <1>2, <1>6
<1>8. h <= b
  <2>1. CASE z \in hits
    BY <1>3, <1>5, <2>1
  <2>2. CASE z \notin hits
    BY <1>1, <1>2, <1>5, <2>2 DEF Search!IsTop
  <2> QED
    BY <2>1, <2>2
<1> QED
  BY <1>3, <1>6, <1>7, <1>8

(* Fewer courses than wanted were found: if none has more points than the  *)
(* search asks for by course, it did not find fewer points than there are. *)
LEMMA FewMeansAll ==
  ASSUME SearchInv, hits # {}, \A c \in Codes : Search!Duplicates(c) <= Oversample,
         Cardinality(Search!Found) < Limit
  PROVE  hits = Search!Matching
<1>1. hits \subseteq Search!Matching /\ Search!IsTop(hits)
  BY DEF SearchInv
<1>2. IsFiniteSet(Search!Matching) /\ IsFiniteSet(hits)
  <2>1. IsFiniteSet(Codes \X Programs)
    BY FiniteAssumption, FS_Product
  <2> QED
    BY <1>1, <2>1, FS_Subset DEF Search!Matching, Search!Points
<1> DEFINE f == [p \in hits |-> p[1]]
<1>3. f \in [hits -> Search!Found] /\ \A c \in Search!Found : \E p \in hits : f[p] = c
  BY DEF Search!Found
<1>4. IsFiniteSet(Search!Found) /\ Cardinality(Search!Found) \in Nat
  <2> HIDE DEF f
  <2>1. f \in Surjection(hits, Search!Found)
    BY <1>3, Fun_IsSurj
  <2>2. IsFiniteSet(Search!Found)
    BY <1>2, <2>1, FS_Surjection
  <2> QED
    BY <2>2, FS_CardinalityType
<1>5. ASSUME NEW c \in Search!Found
      PROVE  Cardinality({p \in hits : f[p] = c}) <= Oversample
  <2>1. c \in Codes
    BY <1>1 DEF Search!Found, Search!Matching, Search!Points
  <2>2. {p \in hits : f[p] = c} \in SUBSET {p \in Search!Matching : p[1] = c}
    BY <1>1
  <2>3. IsFiniteSet({p \in Search!Matching : p[1] = c})
    BY <1>2, FS_Subset
  <2>4. Cardinality({p \in Search!Matching : p[1] = c}) <= Oversample
    BY <2>1, SearchSizes DEF Search!Duplicates
  <2> HIDE DEF f
  <2>5. /\ Cardinality({p \in hits : f[p] = c}) <= Cardinality({p \in Search!Matching : p[1] = c})
        /\ IsFiniteSet({p \in hits : f[p] = c})
    BY <2>2, <2>3, FS_Subset
  <2> QED
    BY <2>3, <2>4, <2>5, LimitAssumption, FS_CardinalityType
<1>6. Cardinality(hits) <= Cardinality(Search!Found) * Oversample
  <2> HIDE DEF f
  <2> QED
    BY <1>2, <1>3, <1>4, <1>5, LimitAssumption, Fibres
<1>7. /\ Cardinality(hits) \in Nat /\ Cardinality(hits) > 0
      /\ Cardinality(Search!Matching) \in Nat
  BY <1>2, FS_CardinalityType, FS_EmptySet
<1>8. Cardinality(hits) < Limit * Oversample
  <2> DEFINE n == Cardinality(Search!Found)
             m == Cardinality(hits)
  <2>1. /\ n \in Nat /\ m \in Nat /\ Limit \in Nat /\ Oversample \in Nat
        /\ n < Limit /\ m <= n * Oversample /\ m > 0
    BY <1>4, <1>6, <1>7, LimitAssumption
  <2> HIDE DEF n, m
  <2>2. Oversample > 0
    BY <2>1
  <2>3. n * Oversample < Limit * Oversample
    BY <2>1, <2>2
  <2>4. n * Oversample \in Nat /\ Limit * Oversample \in Nat
    BY <2>1
  <2>5. m < Limit * Oversample
    BY <2>1, <2>3, <2>4
  <2> QED
    BY <2>5 DEF m
<1>9. Cardinality(hits) = Cardinality(Search!Matching)
  BY <1>1, <1>7, <1>8, SearchSizes, LimitAssumption DEF Search!IsTop
<1> QED
  BY <1>1, <1>2, <1>9, FS_Subset

LEMMA SearchFinds == SearchInv => BestCoursesFound
<1> SUFFICES ASSUME SearchInv, hits # {}, request = "answered",
                    \A c \in Codes : Search!Duplicates(c) <= Oversample
             PROVE  LET codes == {answer[i].code : i \in DOMAIN answer}
                        left  == {p[1] : p \in Search!Matching} \ codes
                        high(c) == Search!Highest(Search!ScoresOf(Search!Matching, c))
                    IN  /\ Cardinality(codes) = Len(answer)
                        /\ \A i \in DOMAIN answer : answer[i].score = high(answer[i].code)
                        /\ \A i, j \in DOMAIN answer : i < j => answer[i].score >= answer[j].score
                        /\ left # {} => Len(answer) = Limit
                        /\ \A c \in left, i \in DOMAIN answer : answer[i].score >= high(c)
  BY SearchSizes DEF BestCoursesFound, Search!BestCoursesFound
<1> DEFINE codes == {answer[i].code : i \in DOMAIN answer}
           left  == {p[1] : p \in Search!Matching} \ codes
           high(c) == Search!Highest(Search!ScoresOf(Search!Matching, c))
           n == Cardinality(Search!Found)
           w == Search!Wanted
<1>1. hits \subseteq Search!Matching /\ Search!IsTop(hits)
  BY DEF SearchInv
<1>2. PICK order : Ranking(order) /\ answer = Cut(order)
  BY DEF SearchInv
<1>3. IsFiniteSet(Search!Found) /\ n \in Nat
  <2>1. IsFiniteSet(Codes)
    BY FiniteAssumption
  <2>2. Search!Found \in SUBSET Codes
    BY <1>1 DEF Search!Found, Search!Matching, Search!Points
  <2> QED
    BY <2>1, <2>2, FS_Subset, FS_CardinalityType
<1>4. w \in Nat /\ w <= n /\ w <= Limit /\ (w = n \/ w = Limit)
  BY <1>3, SearchSizes, LimitAssumption DEF Search!Wanted
<1>5. /\ order \in [1..n -> Search!Found]
      /\ \A i, j \in 1..n : i # j => order[i] # order[j]
      /\ \A i, j \in 1..n : i < j => Search!Best(order[i]) >= Search!Best(order[j])
  BY <1>2 DEF Ranking
<1>6. /\ answer = [i \in 1..w |-> [code |-> order[i], score |-> Search!Best(order[i])]]
      /\ DOMAIN answer = 1..w
      /\ \A i \in 1..w : /\ answer[i].code = order[i]
                         /\ answer[i].score = Search!Best(order[i])
                         /\ i \in 1..n
  BY <1>2, <1>3, <1>4 DEF Cut
<1>7. Len(answer) = w
  BY <1>4, <1>6
<1>8. \A c \in Search!Found : \E q \in hits : q[1] = c
  BY DEF Search!Found
<1> HIDE DEF n, w
<1>9. \A c \in Search!Found : Search!Best(c) = high(c) /\ high(c) \in Nat
  <2> SUFFICES ASSUME NEW c \in Search!Found
               PROVE  Search!Best(c) = high(c) /\ high(c) \in Nat
    OBVIOUS
  <2>1. PICK q \in hits : q[1] = c
    BY <1>8
  <2> QED
    BY <1>1, <2>1, BestIsHighest, HighestIs
<1>10. Cardinality(codes) = Len(answer)
  <2> DEFINE f == [i \in 1..w |-> order[i]]
  <2>1. f \in [1..w -> codes] /\ \A c \in codes : \E i \in 1..w : f[i] = c
    BY <1>6
  <2>2. \A i, j \in 1..w : f[i] = f[j] => i = j
    BY <1>5, <1>6
  <2> HIDE DEF f, codes
  <2>3. f \in Bijection(1..w, codes)
    BY <2>1, <2>2, Fun_IsBij
  <2>4. ExistsBijection(1..w, codes)
    BY <2>3 DEF ExistsBijection
  <2> QED
    BY <1>4, <1>7, <2>4, FS_CountingElements
<1>11. \A i \in DOMAIN answer : answer[i].score = high(answer[i].code)
  BY <1>5, <1>6, <1>9
<1>12. \A i, j \in DOMAIN answer : i < j => answer[i].score >= answer[j].score
  BY <1>5, <1>6
<1>13. \A c \in Search!Found : \E k \in 1..n : order[k] = c
  <2>1. order \in Injection(1..n, Search!Found)
    BY <1>5, Fun_IsInj
  <2>2. Cardinality(1..n) = n
    BY <1>3, FS_Interval DEF n
  <2>3. order \in Surjection(1..n, Search!Found)
    BY <1>3, <2>1, <2>2, FS_Injection DEF n
  <2> QED
    BY <2>3 DEF Surjection
<1>14. ASSUME left # {}
       PROVE  Len(answer) = Limit
  <2>1. CASE w = Limit
    BY <1>7, <2>1
  <2>2. CASE w # Limit
    <3>1. w = n /\ n < Limit
      BY <1>3, <1>4, <2>2, LimitAssumption DEF n
    <3>2. hits = Search!Matching
      BY <3>1, FewMeansAll DEF n
    <3>3. Search!Found \subseteq codes
      BY <1>6, <1>13, <3>1
    <3> QED
      BY <1>14, <3>2, <3>3 DEF Search!Found
  <2> QED
    BY <2>1, <2>2
<1>15. ASSUME NEW c \in left, NEW i \in DOMAIN answer
       PROVE  answer[i].score >= high(c)
  <2>1. i \in 1..w /\ i \in 1..n /\ answer[i].score = Search!Best(order[i])
        /\ order[i] \in Search!Found
    BY <1>5, <1>6
  <2>2. CASE c \in Search!Found
    <3>1. PICK k \in 1..n : order[k] = c
      BY <1>13, <2>2
    <3>2. k \notin 1..w
      BY <1>6, <1>15, <3>1
    <3>3. i < k
      BY <1>3, <1>4, <2>1, <3>2 DEF n
    <3>4. Search!Best(order[i]) >= Search!Best(c)
      BY <1>5, <2>1, <3>1, <3>3
    <3> QED
      BY <1>9, <2>1, <2>2, <3>4
  <2>3. CASE c \notin Search!Found
    <3>1. PICK p \in Search!Matching : p[1] = c
      OBVIOUS
    <3>2. PICK z \in Search!Matching : z[1] = c /\ score[z] = high(c)
      BY <3>1, HighestIs
    <3>3. z \notin hits
      BY <2>3, <3>2 DEF Search!Found
    <3>4. PICK q \in hits : q[1] = order[i]
      BY <1>8, <2>1
    <3>5. PICK y \in hits : score[y] = Search!Best(order[i])
      BY <1>1, <3>4, HighestIs DEF Search!Best
    <3> QED
      BY <1>1, <2>1, <3>2, <3>3, <3>5 DEF Search!IsTop
  <2> QED
    BY <2>2, <2>3
<1> HIDE DEF codes, left, high
<1> QED
  BY <1>10, <1>11, <1>12, <1>14, <1>15 DEF codes, left, high

----------------------------------------------------------------------------
(* The model of the embedding worker.  A request that has its load has one *)
(* of its own model, and the load the worker holds has not failed; while   *)
(* all requests ask for the same model no other load is under way or done. *)
HasLoad(r) == waitsFor[r] \in Requests /\ wants[waitsFor[r]] = wants[r]

ModelInv ==
  /\ handler \in [Requests -> {"to come", "loading", "inferring", "answered", "refused"}]
  /\ load \in [Requests -> {"none", "pending", "loaded", "failed"}]
  /\ waitsFor \in [Requests -> Requests \cup {None}]
  /\ extractorState \in Requests \cup {None}
  /\ \A r \in Requests : handler[r] # "to come" => HasLoad(r)
  /\ extractorState # None => load[extractorState] \in {"pending", "loaded"}
  /\ (\A r, s \in Requests : wants[r] = wants[s]) =>
       \A l \in Requests : load[l] \in {"pending", "loaded"} => l = extractorState

LEMMA ModelInitially == ModelBegun \/ Model!Init => ModelInv
BY DEF ModelBegun, Model!Init, ModelInv, HasLoad

LEMMA ModelGets ==
  ASSUME ModelInv, NEW r \in Requests, Model!GetExtractor(r)
  PROVE  ModelInv'
<1>1. CASE Model!Serves(r)
  BY <1>1 DEF ModelInv, HasLoad, Model!GetExtractor, Model!Serves
<1>2. CASE ~Model!Serves(r)
  <2>1. /\ load' = [load EXCEPT ![r] = "pending"] /\ extractorState' = r
        /\ waitsFor' = [waitsFor EXCEPT ![r] = r]
        /\ handler' = [handler EXCEPT ![r] = "loading"] /\ wants' = wants
    BY <1>2 DEF Model!GetExtractor
  <2>2. ASSUME \A q, s \in Requests : wants[q] = wants[s]
        PROVE  \A l \in Requests : load[l] \notin {"pending", "loaded"}
    BY <1>2, <2>2, NoneAssumption DEF ModelInv, Model!Serves
  <2> QED
    BY <2>1, <2>2, NoneAssumption DEF ModelInv, HasLoad
<1> QED
  BY <1>1, <1>2

LEMMA ModelPreserved ==
  ASSUME ModelInv, Model!Next
  PROVE  ModelInv'
<1> PICK r \in Requests : \/ Model!GetExtractor(r) \/ Model!Loaded(r) \/ Model!LoadFails(r)
                          \/ Model!Infers(r) \/ Model!Answers(r)
  BY DEF Model!Next
<1>1. CASE Model!GetExtractor(r)
  BY <1>1, ModelGets
<1>2. CASE Model!Loaded(r)
  BY <1>2 DEF ModelInv, HasLoad, Model!Loaded
<1>3. CASE Model!LoadFails(r)
  BY <1>3 DEF ModelInv, HasLoad, Model!LoadFails, Model!Forgets
<1>4. CASE Model!Infers(r)
  BY <1>4 DEF ModelInv, HasLoad, Model!Infers
<1>5. CASE Model!Answers(r)
  <2>1. /\ handler[r] # "to come" /\ UNCHANGED <<wants, load, extractorState, waitsFor>>
        /\ \E outcome \in {"answered", "refused"} : handler' = [handler EXCEPT ![r] = outcome]
    BY <1>5 DEF Model!Answers
  <2>2. /\ handler' \in [Requests -> {"to come", "loading", "inferring", "answered", "refused"}]
        /\ \A q \in Requests : handler'[q] # "to come" => handler[q] # "to come"
    BY <2>1 DEF ModelInv
  <2> QED
    BY <2>1, <2>2 DEF ModelInv, HasLoad
<1> QED
  BY <1>1, <1>2, <1>3, <1>4, <1>5

LEMMA ModelUntouched == ModelInv /\ UNCHANGED modelVars => ModelInv'
BY DEF ModelInv, HasLoad, modelVars

LEMMA ModelShared == ModelInv => LoadsAreShared
<1> SUFFICES ASSUME ModelInv PROVE LoadsAreShared
  OBVIOUS
<1>1. Model!OwnModelServed
  BY DEF ModelInv, HasLoad, Model!OwnModelServed
<1>2. ASSUME \A r, s \in Requests : wants[r] = wants[s]
      PROVE  Cardinality({l \in Requests : load[l] \in {"pending", "loaded"}}) <= 1
  <2>1. {l \in Requests : load[l] \in {"pending", "loaded"}} \subseteq {extractorState}
    BY <1>2 DEF ModelInv
  <2>2. IsFiniteSet({extractorState}) /\ Cardinality({extractorState}) = 1
    BY FS_Singleton
  <2> QED
    BY <2>1, <2>2, FS_Subset
<1>3. \A S : Model!Cardinality(S) = Cardinality(S)
  BY DEF Cardinality, IsFiniteSet, Model!Cardinality, Model!IsFiniteSet
<1> QED
  BY <1>1, <1>2, <1>3 DEF LoadsAreShared, Model!LoadsAreShared, Model!LoadedOnce

----------------------------------------------------------------------------
(* Cheminements.txt.  The last line before place i of one of some kinds.   *)
LastIn(l, i, kinds) ==
  LET at == {k \in DOMAIN l : k < i /\ l[k].kind \in kinds}
  IN  CHOOSE k \in at : \A m \in at : m <= k

LEMMA LastUnique ==
  ASSUME NEW l, NEW n \in Nat, DOMAIN l = 1..n, NEW i \in 2..(n + 1), NEW kinds,
         NEW x \in 1..(i - 1), l[x].kind \in kinds,
         \A k \in 1..(i - 1) : l[k].kind \in kinds => k <= x
  PROVE  LastIn(l, i, kinds) = x
<1> DEFINE at == {k \in DOMAIN l : k < i /\ l[k].kind \in kinds}
<1>1. at \subseteq Nat /\ x \in at /\ \A m \in at : m <= x
  OBVIOUS
<1>2. LastIn(l, i, kinds) = CHOOSE k \in at : \A m \in at : m <= k
  BY DEF LastIn
<1> HIDE DEF at
<1>3. \A y \in at : (\A m \in at : m <= y) => y = x
  BY <1>1
<1> QED
  BY <1>1, <1>2, <1>3

LEMMA LastIs ==
  ASSUME NEW l, NEW n \in Nat, DOMAIN l = 1..n, NEW i \in 2..(n + 1), NEW kinds,
         l[1].kind \in kinds
  PROVE  /\ LastIn(l, i, kinds) \in 1..(i - 1)
         /\ l[LastIn(l, i, kinds)].kind \in kinds
         /\ \A k \in 1..(i - 1) : l[k].kind \in kinds => k <= LastIn(l, i, kinds)
<1> DEFINE at == {k \in 1..(i - 1) : l[k].kind \in kinds}
<1>1. at \in SUBSET Nat /\ at # {} /\ at \in SUBSET (1..(i - 1))
  <2>1. 1 \in at
    OBVIOUS
  <2> QED
    BY <2>1
<1>2. IsFiniteSet(at)
  BY <1>1, FS_Interval, FS_Subset
<1>3. PICK x \in at : \A y \in at : y <= x
  <2> HIDE DEF at
  <2> QED
    BY <1>1, <1>2, Greatest
<1>4. LastIn(l, i, kinds) = x
  BY <1>3, LastUnique
<1> QED
  BY <1>3, <1>4

LEMMA LastAppended ==
  ASSUME NEW l, NEW m, NEW n \in Nat \ {0}, DOMAIN l = 1..n, DOMAIN m = 1..(n + 1),
         \A i \in 1..n : m[i] = l[i], NEW kinds, l[1].kind \in kinds
  PROVE  /\ \A i \in 2..(n + 1) : LastIn(m, i, kinds) = LastIn(l, i, kinds)
         /\ LastIn(m, n + 2, kinds) = IF m[n + 1].kind \in kinds THEN n + 1
                                      ELSE LastIn(l, n + 1, kinds)
<1>1. ASSUME NEW i \in 2..(n + 1)
      PROVE  LastIn(m, i, kinds) = LastIn(l, i, kinds)
  <2> DEFINE x == LastIn(l, i, kinds)
  <2>1. /\ x \in 1..(i - 1) /\ l[x].kind \in kinds
        /\ \A k \in 1..(i - 1) : l[k].kind \in kinds => k <= x
    BY LastIs
  <2> HIDE DEF x
  <2>2. /\ x \in 1..(i - 1) /\ m[x].kind \in kinds
        /\ \A k \in 1..(i - 1) : m[k].kind \in kinds => k <= x
    BY <2>1
  <2>3. n + 1 \in Nat /\ i \in 2..((n + 1) + 1)
    OBVIOUS
  <2>4. LastIn(m, i, kinds) = x
    BY <2>2, <2>3, LastUnique
  <2> QED
    BY <2>4 DEF x
<1>2. n + 1 \in Nat /\ n + 2 \in 2..((n + 1) + 1)
  OBVIOUS
<1>3. CASE m[n + 1].kind \in kinds
  <2>1. /\ n + 1 \in 1..((n + 2) - 1)
        /\ \A k \in 1..((n + 2) - 1) : m[k].kind \in kinds => k <= n + 1
    OBVIOUS
  <2>2. LastIn(m, n + 2, kinds) = n + 1
    BY <1>2, <1>3, <2>1, LastUnique
  <2> QED
    BY <1>1, <1>3, <2>2
<1>4. CASE m[n + 1].kind \notin kinds
  <2> DEFINE x == LastIn(l, n + 1, kinds)
  <2>1. /\ x \in 1..n /\ l[x].kind \in kinds
        /\ \A k \in 1..n : l[k].kind \in kinds => k <= x
    <3>1. n + 1 \in 2..(n + 1) /\ (n + 1) - 1 = n
      OBVIOUS
    <3> QED
      BY <3>1, LastIs
  <2> HIDE DEF x
  <2>2. /\ x \in 1..((n + 2) - 1) /\ m[x].kind \in kinds
        /\ \A k \in 1..((n + 2) - 1) : m[k].kind \in kinds => k <= x
    BY <1>4, <2>1
  <2>3. LastIn(m, n + 2, kinds) = x
    BY <1>2, <2>2, LastUnique
  <2> QED
    BY <1>1, <1>4, <2>3 DEF x
<1> QED
  BY <1>3, <1>4

SectionKinds == {"file", ".PROGRAMME", "malformed", "skipped",
                 ".HORS-PROGRAMME", "section"}
SkippedKinds == {"skipped", ".HORS-PROGRAMME"}
ProgramKinds == {".PROGRAMME", "file"}

(* Of the line to come: its program, and whether it stands in a section to *)
(* skip.                                                                   *)
NextProgram == LastIn(lines, Len(lines) + 1, ProgramKinds)
NextSection == LastIn(lines, Len(lines) + 1, SectionKinds)
NextSkipped == lines[NextSection].kind \in SkippedKinds
NextNames(line, c) ==
  \/ line.kind = "list" /\ line.is = c
  \/ line.kind = "course" /\ line.is.code = c /\ ~NextSkipped

Opened == Cardinality(Cheminot!Headers)
CourseMaps == UNION {[S -> Cheminot!Course] : S \in SUBSET Codes}

FileType ==
  /\ lines \in Seq(Cheminot!Line) /\ lines # <<>> /\ lines[1].kind = "file"
  /\ opened \in Seq(Cheminot!Program)
  /\ programCourses \in Seq(CourseMaps)
  /\ programs \in Seq(Nat)

LEMMA FileTerms ==
  /\ \A i : Cheminot!ProgramOf(i) = LastIn(lines, i, ProgramKinds)
  /\ \A i : Cheminot!SectionOf(i) = LastIn(lines, i, SectionKinds)
  /\ \A i : Cheminot!Skipped(i) <=> lines[Cheminot!SectionOf(i)].kind \in SkippedKinds
  /\ \A S : Cheminot!Cardinality(S) = Cardinality(S)
  /\ \A h : Cheminot!Number(h) = UpTo(h, Cheminot!Headers)
<1>1. \A S : Cheminot!Cardinality(S) = Cardinality(S)
  BY DEF Cardinality, IsFiniteSet, Cheminot!Cardinality, Cheminot!IsFiniteSet
<1>2. \A i, kinds : Cheminot!LastBefore(i, kinds) = LastIn(lines, i, kinds)
  BY DEF Cheminot!LastBefore, LastIn, Cheminot!Are
<1> QED
  BY <1>1, <1>2 DEF Cheminot!ProgramOf, Cheminot!SectionOf, ProgramKinds, SectionKinds,
     Cheminot!Skipped, Cheminot!Are, SkippedKinds, Cheminot!Number, UpTo

LEMMA FilePlaces ==
  ASSUME FileType
  PROVE  /\ Len(lines) \in Nat \ {0} /\ DOMAIN lines = 1..Len(lines)
         /\ Cheminot!Headers \in SUBSET (2..Len(lines))
         /\ Cheminot!Headers \in SUBSET (1..Len(lines))
         /\ Opened \in Nat
         /\ NextProgram \in 1..Len(lines)
         /\ lines[NextProgram].kind \in ProgramKinds
         /\ \A k \in 1..Len(lines) : lines[k].kind \in ProgramKinds => k <= NextProgram
<1> PICK n : n = Len(lines)
  OBVIOUS
<1>1. n \in Nat \ {0} /\ DOMAIN lines = 1..n
  BY DEF FileType
<1>2. Cheminot!Headers \in SUBSET (2..n) /\ Cheminot!Headers \in SUBSET (1..n)
  <2>1. 1 \notin Cheminot!Headers
    BY DEF FileType, Cheminot!Headers, Cheminot!Are
  <2>2. Cheminot!Headers \in SUBSET (1..n)
    BY <1>1 DEF Cheminot!Headers
  <2> QED
    BY <1>1, <2>1, <2>2
<1>3. n + 1 \in 2..(n + 1) /\ (n + 1) - 1 = n
  BY <1>1
<1>4. lines[1].kind \in ProgramKinds
  BY DEF FileType, ProgramKinds
<1>5. /\ NextProgram \in 1..n
      /\ lines[NextProgram].kind \in ProgramKinds
      /\ \A k \in 1..n : lines[k].kind \in ProgramKinds => k <= NextProgram
  BY <1>1, <1>3, <1>4, LastIs DEF NextProgram
<1> QED
  BY <1>1, <1>2, <1>5, PlacesFinite DEF Opened

(* A line that is read changes nothing of what was read before it.         *)
FileGrown(n, line) ==
  /\ DOMAIN lines' = 1..(n + 1)
  /\ \A i \in 1..n : lines'[i] = lines[i]
  /\ lines'[n + 1] = line
  /\ NextProgram' = IF line.kind \in ProgramKinds THEN n + 1 ELSE NextProgram
  /\ NextSkipped' <=> IF line.kind \in SectionKinds THEN line.kind \in SkippedKinds ELSE NextSkipped
  /\ Cheminot!Headers' = IF line.kind = ".PROGRAMME" THEN Cheminot!Headers \cup {n + 1}
                         ELSE Cheminot!Headers
  /\ Opened' = IF line.kind = ".PROGRAMME" THEN Opened + 1 ELSE Opened
  /\ \A h \in 1..n : Cheminot!Number(h)' = Cheminot!Number(h)
  /\ \A h : h = n + 1 => Cheminot!Number(h)' = Opened'
  /\ \A h \in 1..n : \A c : Cheminot!LinesOf(h, c)' =
       IF h = NextProgram /\ NextNames(line, c) THEN Cheminot!LinesOf(h, c) \cup {n + 1}
       ELSE Cheminot!LinesOf(h, c)
  /\ \A h \in 1..n : Cheminot!Malformed(h)' =
       IF h = NextProgram /\ line.kind = "malformed"
       THEN Cheminot!Malformed(h) \cup {n + 1} ELSE Cheminot!Malformed(h)
  /\ \A h, c : h = n + 1 => Cheminot!LinesOf(h, c)' = {} /\ Cheminot!Malformed(h)' = {}

LEMMA FileGrows ==
  ASSUME FileType, NEW line, lines' = Append(lines, line), NEW n, n = Len(lines)
  PROVE  FileGrown(n, line)
<1>1. /\ n \in Nat \ {0} /\ DOMAIN lines = 1..n
      /\ Cheminot!Headers \in SUBSET (2..n) /\ Cheminot!Headers \in SUBSET (1..n)
      /\ NextProgram \in 1..n
  BY FilePlaces
<1>2. /\ DOMAIN lines' = 1..(n + 1) /\ n + 1 \notin 1..n
      /\ \A i \in 1..n : lines'[i] = lines[i]
      /\ lines'[n + 1] = line
      /\ Len(lines') = n + 1
  BY <1>1 DEF FileType
<1>3. 1..(n + 1) = (1..n) \cup {n + 1}
  BY <1>1
<1>4. ASSUME NEW kinds, "file" \in kinds
      PROVE  /\ \A i \in 2..(n + 1) : LastIn(lines', i, kinds) = LastIn(lines, i, kinds)
             /\ LastIn(lines', n + 2, kinds) = IF line.kind \in kinds THEN n + 1
                                               ELSE LastIn(lines, n + 1, kinds)
  <2>1. lines[1].kind \in kinds
    BY <1>4 DEF FileType
  <2>2. /\ \A i \in 2..(n + 1) : LastIn(lines', i, kinds) = LastIn(lines, i, kinds)
        /\ LastIn(lines', n + 2, kinds) = IF lines'[n + 1].kind \in kinds THEN n + 1
                                          ELSE LastIn(lines, n + 1, kinds)
    BY ONLY <1>1, <1>2, <2>1, LastAppended
  <2> QED
    BY <1>2, <2>2
<1>5. "file" \in ProgramKinds /\ "file" \in SectionKinds
  BY DEF ProgramKinds, SectionKinds
<1>6. /\ \A i : Cheminot!ProgramOf(i)' = LastIn(lines', i, ProgramKinds)
      /\ \A i : Cheminot!SectionOf(i)' = LastIn(lines', i, SectionKinds)
      /\ \A i : Cheminot!Skipped(i)' <=> lines'[Cheminot!SectionOf(i)'].kind \in SkippedKinds
  <2>1. \A i, kinds : Cheminot!LastBefore(i, kinds)' = LastIn(lines', i, kinds)
    BY DEF Cheminot!LastBefore, LastIn, Cheminot!Are
  <2> QED
    BY <2>1 DEF Cheminot!ProgramOf, Cheminot!SectionOf, ProgramKinds, SectionKinds,
       Cheminot!Skipped, Cheminot!Are, SkippedKinds
<1>7. NextProgram' = IF line.kind \in ProgramKinds THEN n + 1 ELSE NextProgram
  <2>1. NextProgram' = LastIn(lines', (n + 1) + 1, ProgramKinds)
    BY <1>2 DEF NextProgram
  <2>2. (n + 1) + 1 = n + 2
    BY <1>1
  <2> QED
    BY <1>4, <1>5, <2>1, <2>2 DEF NextProgram
<1>8. LastIn(lines, n + 1, SectionKinds) \in 1..n
  <2>1. n + 1 \in 2..(n + 1) /\ (n + 1) - 1 = n
    BY <1>1
  <2>2. lines[1].kind \in SectionKinds
    BY DEF FileType, SectionKinds
  <2> QED
    BY <1>1, <2>1, <2>2, LastIs
<1>9. NextSkipped' <=>
        IF line.kind \in SectionKinds THEN line.kind \in SkippedKinds ELSE NextSkipped
  <2>1. NextSection' = LastIn(lines', (n + 1) + 1, SectionKinds)
    BY <1>2 DEF NextSection
  <2>2. (n + 1) + 1 = n + 2
    BY <1>1
  <2>3. NextSection' = IF line.kind \in SectionKinds THEN n + 1 ELSE NextSection
    BY <1>4, <1>5, <2>1, <2>2 DEF NextSection
  <2> QED
    BY <1>2, <1>8, <2>3 DEF NextSkipped, NextSection
<1>10. Cheminot!Headers' = IF line.kind = ".PROGRAMME" THEN Cheminot!Headers \cup {n + 1}
                           ELSE Cheminot!Headers
  BY <1>1, <1>2, <1>3 DEF Cheminot!Headers, Cheminot!Are
<1>11. \A h : Cheminot!Number(h)' = UpTo(h, Cheminot!Headers')
  BY FileTerms DEF Cheminot!Number, UpTo
<1>12. Opened' = Cardinality(Cheminot!Headers')
  BY DEF Opened
<1>13. /\ Opened' = IF line.kind = ".PROGRAMME" THEN Opened + 1 ELSE Opened
       /\ \A h \in 1..n : Cheminot!Number(h)' = Cheminot!Number(h)
  <2>1. CASE line.kind = ".PROGRAMME"
    BY <1>1, <1>10, <1>11, <1>12, <2>1, PlaceAdded, FileTerms DEF Opened
  <2>2. CASE line.kind # ".PROGRAMME"
    BY <1>1, <1>10, <1>11, <1>12, <2>2, FileTerms DEF Opened
  <2> QED
    BY <2>1, <2>2
<1>14. \A h : h = n + 1 => Cheminot!Number(h)' = Opened'
  <2>1. Cheminot!Headers' \in SUBSET (1..(n + 1))
    BY <1>1, <1>3, <1>10
  <2> QED
    BY <1>1, <1>11, <1>12, <2>1, PlacesFinite
<1>15. \A i \in 2..(n + 1) : /\ Cheminot!ProgramOf(i)' = Cheminot!ProgramOf(i)
                             /\ Cheminot!Skipped(i)' <=> Cheminot!Skipped(i)
  <2> SUFFICES ASSUME NEW i \in 2..(n + 1)
               PROVE  /\ Cheminot!ProgramOf(i)' = Cheminot!ProgramOf(i)
                      /\ Cheminot!Skipped(i)' <=> Cheminot!Skipped(i)
    OBVIOUS
  <2>1. /\ Cheminot!ProgramOf(i)' = Cheminot!ProgramOf(i)
        /\ Cheminot!SectionOf(i)' = Cheminot!SectionOf(i)
    BY <1>4, <1>5, <1>6, FileTerms
  <2>2. Cheminot!SectionOf(i) \in 1..n
    <3>1. lines[1].kind \in SectionKinds
      BY DEF FileType, SectionKinds
    <3>2. Cheminot!SectionOf(i) \in 1..(i - 1)
      BY <1>1, <3>1, LastIs, FileTerms
    <3> QED
      BY <1>1, <3>2
  <2> QED
    BY <1>2, <1>6, <2>1, <2>2, FileTerms
<1>16. ASSUME NEW i \in 2..n, NEW c
       PROVE  Cheminot!Names(i, c)' <=> Cheminot!Names(i, c)
  <2>1. i \in 2..(n + 1) /\ i \in 1..n
    BY <1>1
  <2>2. lines'[i] = lines[i] /\ (Cheminot!Skipped(i)' <=> Cheminot!Skipped(i))
    BY <1>2, <1>15, <2>1
  <2> QED
    BY <2>2 DEF Cheminot!Names, Cheminot!Are
<1>17. \A i, c : i = n + 1 => (Cheminot!Names(i, c)' <=> NextNames(line, c))
                              /\ Cheminot!ProgramOf(i) = NextProgram
  <2> SUFFICES ASSUME NEW i, NEW c, i = n + 1
               PROVE  /\ Cheminot!Names(i, c)' <=> NextNames(line, c)
                      /\ Cheminot!ProgramOf(i) = NextProgram
    OBVIOUS
  <2>1. Cheminot!Skipped(i)' <=> NextSkipped
    BY <1>1, <1>15, FileTerms DEF NextSkipped, NextSection
  <2>2. lines'[i] = line
    BY <1>2
  <2> QED
    BY <2>1, <2>2, FileTerms DEF Cheminot!Names, Cheminot!Are, NextNames, NextProgram
<1>18. ASSUME NEW h \in 1..n, NEW c
       PROVE  Cheminot!LinesOf(h, c)' =
                IF h = NextProgram /\ NextNames(line, c) THEN Cheminot!LinesOf(h, c) \cup {n + 1}
                ELSE Cheminot!LinesOf(h, c)
  <2>1. Cheminot!LinesOf(h, c)' =
          {i \in 1..(n + 1) : i > h /\ Cheminot!ProgramOf(i)' = h /\ Cheminot!Names(i, c)'}
    BY <1>2 DEF Cheminot!LinesOf
  <2>2. Cheminot!LinesOf(h, c) =
          {i \in 1..n : i > h /\ Cheminot!ProgramOf(i) = h /\ Cheminot!Names(i, c)}
    BY <1>1 DEF Cheminot!LinesOf
  <2>3. \A i \in 1..n : i > h => i \in 2..n /\ i \in 2..(n + 1)
    OBVIOUS
  <2>4. n + 1 > h /\ n + 1 \in 2..(n + 1)
    BY <1>1
  <2>5. \A i \in 1..n : i > h => /\ Cheminot!ProgramOf(i)' = Cheminot!ProgramOf(i)
                                 /\ Cheminot!Names(i, c)' <=> Cheminot!Names(i, c)
    BY <1>15, <1>16, <2>3
  <2>6. \A i : i = n + 1 => /\ Cheminot!ProgramOf(i)' = NextProgram
                            /\ Cheminot!Names(i, c)' <=> NextNames(line, c)
    BY <1>15, <1>17, <2>4
  <2> QED
    BY <1>3, <2>1, <2>2, <2>4, <2>5, <2>6
<1>19. ASSUME NEW h \in 1..n
       PROVE  Cheminot!Malformed(h)' =
                IF h = NextProgram /\ line.kind = "malformed"
                THEN Cheminot!Malformed(h) \cup {n + 1} ELSE Cheminot!Malformed(h)
  <2>1. Cheminot!Malformed(h)' =
          {i \in 1..(n + 1) : i > h /\ lines'[i].kind = "malformed"
                              /\ Cheminot!ProgramOf(i)' = h}
    BY <1>2 DEF Cheminot!Malformed, Cheminot!Are
  <2>2. Cheminot!Malformed(h) =
          {i \in 1..n : i > h /\ lines[i].kind = "malformed" /\ Cheminot!ProgramOf(i) = h}
    BY <1>1 DEF Cheminot!Malformed, Cheminot!Are
  <2>3. \A i \in 1..n : i > h => /\ Cheminot!ProgramOf(i)' = Cheminot!ProgramOf(i)
                                 /\ lines'[i] = lines[i]
    BY <1>2, <1>15
  <2>4. n + 1 > h /\ n + 1 \in 2..(n + 1)
    BY <1>1
  <2>5. \A i : i = n + 1 => Cheminot!ProgramOf(i)' = NextProgram /\ lines'[i] = line
    BY <1>2, <1>15, <1>17, <2>4
  <2> QED
    BY <1>3, <2>1, <2>2, <2>3, <2>4, <2>5
<1>20. \A h, c : h = n + 1 => Cheminot!LinesOf(h, c)' = {} /\ Cheminot!Malformed(h)' = {}
  <2>1. \A i \in 1..(n + 1) : ~(i > n + 1)
    BY <1>1
  <2> QED
    BY <1>2, <2>1 DEF Cheminot!LinesOf, Cheminot!Malformed
<1> QED
  BY <1>2, <1>7, <1>9, <1>10, <1>13, <1>14, <1>18, <1>19, <1>20 DEF FileGrown

(* What the file says so far of a course, of a program and of the list.    *)
CourseOK(l, found, c, of) ==
  LET full  == {i \in of : l[i].kind = "course"}
      first == CHOOSE i \in of : \A j \in of : i <= j
  IN  /\ c \in DOMAIN found <=> of # {}
      /\ of # {} =>
           found[c] = [details  |-> IF first \in full THEN l[first].is.details ELSE Listed,
                       requires |-> UNION {l[i].is.requires : i \in full}]

CoursesOK ==
  \A h \in Cheminot!Headers, c \in Codes :
    CourseOK(lines, programCourses[Cheminot!Number(h)], c, Cheminot!LinesOf(h, c))

ListedOK ==
  /\ \A h \in Cheminot!Headers :
       Cardinality({i \in DOMAIN programs : programs[i] = Cheminot!Number(h)})
         = Cardinality(Cheminot!Malformed(h)) + (IF h = NextProgram THEN 0 ELSE 1)
  /\ \A i \in DOMAIN programs : programs[i] <= Opened
  /\ \A i, j \in DOMAIN programs : i < j => programs[i] <= programs[j]

FileInv ==
  /\ FileType
  /\ Len(opened) = Opened /\ Len(programCourses) = Opened
  /\ currentProgram = IF lines[NextProgram].kind = ".PROGRAMME" THEN Opened ELSE 0
  /\ skip \in BOOLEAN /\ (skip <=> NextSkipped)
  /\ CoursesOK
  /\ ListedOK

LEMMA HeadersNumbered ==
  ASSUME FileInv
  PROVE  /\ \A h \in Cheminot!Headers : Cheminot!Number(h) \in 1..Opened
         /\ \A h \in Cheminot!Headers : Cheminot!Number(h) = currentProgram <=> h = NextProgram
         /\ currentProgram # 0 => NextProgram \in Cheminot!Headers /\ currentProgram = Opened
         /\ currentProgram = 0 => NextProgram \notin Cheminot!Headers
<1> PICK n : n = Len(lines)
  OBVIOUS
<1>1. /\ n \in Nat \ {0} /\ DOMAIN lines = 1..n
      /\ Cheminot!Headers \in SUBSET (1..n) /\ Opened \in Nat
      /\ NextProgram \in 1..n
      /\ \A k \in 1..n : lines[k].kind \in ProgramKinds => k <= NextProgram
  BY FilePlaces DEF FileInv
<1>2. \A h : h \in Cheminot!Headers <=> h \in 1..n /\ lines[h].kind = ".PROGRAMME"
  BY <1>1 DEF Cheminot!Headers, Cheminot!Are
<1>3. \A h \in Cheminot!Headers : Cheminot!Number(h) \in 1..Opened /\ h <= NextProgram
  BY <1>1, <1>2, Numbered, FileTerms DEF Opened, ProgramKinds
<1>4. ASSUME NextProgram \in Cheminot!Headers
      PROVE  /\ currentProgram = Opened /\ Opened > 0
             /\ \A h \in Cheminot!Headers : Cheminot!Number(h) = currentProgram <=> h = NextProgram
  <2>1. {j \in Cheminot!Headers : j <= NextProgram} = Cheminot!Headers
    BY <1>3
  <2>2. Cheminot!Number(NextProgram) = Opened
    BY <2>1, FileTerms DEF UpTo, Opened
  <2>3. \A h \in Cheminot!Headers : h < NextProgram
        => Cheminot!Number(h) < Cheminot!Number(NextProgram)
    BY <1>1, <1>4, Numbered, FileTerms
  <2>4. currentProgram = Opened
    BY <1>2, <1>4 DEF FileInv
  <2>5. \A h \in Cheminot!Headers : h # NextProgram => h < NextProgram
    BY <1>1, <1>3
  <2> QED
    BY <1>1, <1>3, <1>4, <2>2, <2>3, <2>4, <2>5
<1>5. ASSUME NextProgram \notin Cheminot!Headers
      PROVE  currentProgram = 0
  BY <1>1, <1>2, <1>5 DEF FileInv
<1> QED
  BY <1>1, <1>3, <1>4, <1>5


(* The list of programs.                                                   *)
LEMMA ListStays ==
  ASSUME FileInv, NEW n, n = Len(lines), NEW line, FileGrown(n, line), programs' = programs,
         line.kind \notin ProgramKinds, line.kind # "malformed"
  PROVE  ListedOK'
<1>1. /\ Cheminot!Headers' = Cheminot!Headers /\ Opened' = Opened /\ NextProgram' = NextProgram
      /\ \A h \in 1..n : /\ Cheminot!Number(h)' = Cheminot!Number(h)
                         /\ Cheminot!Malformed(h)' = Cheminot!Malformed(h)
  BY DEF FileGrown, ProgramKinds
<1>2. Cheminot!Headers \in SUBSET (1..n)
  BY FilePlaces DEF FileInv
<1> QED
  BY <1>1, <1>2 DEF FileInv, ListedOK

Listings(list, k) == Cardinality({i \in DOMAIN list : list[i] = k})

LEMMA ListingCounts ==
  ASSUME FileInv, programs' = Cheminot!ListsCurrent
  PROVE  /\ \A k \in 1..Opened :
              Listings(programs', k) = IF k = currentProgram THEN Listings(programs, k) + 1
                ELSE Listings(programs, k)
         /\ \A k : k > Opened => Listings(programs', k) = 0
         /\ \A k \in 1..Opened : Listings(programs, k) \in Nat
         /\ \A i \in DOMAIN programs' : programs'[i] <= Opened
         /\ \A i, j \in DOMAIN programs' : i < j => programs'[i] <= programs'[j]
<1> PICK p : p = Len(programs)
  OBVIOUS
<1>1. /\ p \in Nat /\ DOMAIN programs = 1..p /\ \A i \in 1..p : programs[i] \in Nat
      /\ \A i \in 1..p : programs[i] <= Opened
      /\ \A i, j \in 1..p : i < j => programs[i] <= programs[j]
  <2>1. programs \in Seq(Nat) /\ ListedOK
    BY DEF FileInv, FileType
  <2>2. p \in Nat /\ DOMAIN programs = 1..p /\ \A i \in 1..p : programs[i] \in Nat
    BY <2>1
  <2> QED
    BY <2>1, <2>2 DEF ListedOK
<1>2. Opened \in Nat /\ (currentProgram # 0 => currentProgram = Opened)
  BY FilePlaces, HeadersNumbered DEF FileInv
<1> DEFINE at(k) == {i \in 1..p : programs[i] = k}
<1>3. \A k : Listings(programs, k) = Cardinality(at(k)) /\ at(k) \in SUBSET (1..p)
  BY <1>1 DEF Listings
<1>4. \A k : Listings(programs, k) \in Nat
  <2> HIDE DEF at
  <2> QED
    BY <1>1, <1>3, PlacesFinite
<1>5. \A k : k > Opened => at(k) = {}
  BY <1>1, <1>2
<1>6. CASE currentProgram = 0
  <2>1. programs' = programs
    BY <1>6 DEF Cheminot!ListsCurrent
  <2>2. \A k : Listings(programs', k) = Listings(programs, k)
    BY <2>1 DEF Listings
  <2> QED
    BY <1>1, <1>3, <1>4, <1>5, <1>6, <2>1, <2>2, FS_EmptySet
<1>7. CASE currentProgram # 0
  <2>1. programs' = Append(programs, Opened)
    BY <1>2, <1>7 DEF Cheminot!ListsCurrent
  <2>2. /\ DOMAIN programs' = 1..(p + 1) /\ programs'[p + 1] = Opened
        /\ \A i \in 1..p : programs'[i] = programs[i]
    BY <1>1, <2>1 DEF FileInv, FileType
  <2>3. 1..(p + 1) = (1..p) \cup {p + 1}
    BY <1>1
  <2>4. \A k : {i \in DOMAIN programs' : programs'[i] = k}
                 = IF k = Opened THEN at(k) \cup {p + 1} ELSE at(k)
    BY <2>2, <2>3
  <2>5. \A k : Listings(programs', k) = IF k = Opened THEN Cardinality(at(k) \cup {p + 1})
                              ELSE Cardinality(at(k))
    BY <2>4 DEF Listings
  <2>6. \A k : Cardinality(at(k) \cup {p + 1}) = Cardinality(at(k)) + 1
    <3> HIDE DEF at
    <3> QED
      BY <1>1, <1>3, PlaceAdded
  <2>7. \A k : Listings(programs', k) = IF k = Opened THEN Listings(programs, k) + 1
        ELSE Listings(programs, k)
    <3> HIDE DEF at
    <3> QED
      BY <1>3, <2>5, <2>6
  <2>8. \A k : k > Opened => k # Opened
    BY <1>2
  <2>9. \A k : k > Opened => Listings(programs', k) = 0
    <3> HIDE DEF at
    <3> QED
      BY <1>3, <1>5, <2>7, <2>8, FS_EmptySet
  <2>10. \A i \in DOMAIN programs' : programs'[i] <= Opened
    BY <1>1, <1>2, <2>2, <2>3
  <2>11. \A i, j \in DOMAIN programs' : i < j => programs'[i] <= programs'[j]
    BY <1>1, <1>2, <2>2, <2>3
  <2> QED
    BY <1>2, <1>4, <1>7, <2>7, <2>9, <2>10, <2>11
<1> QED
  BY <1>6, <1>7

LEMMA ListTakesCurrent ==
  ASSUME FileInv, NEW n, n = Len(lines), NEW line, FileGrown(n, line),
         programs' = Cheminot!ListsCurrent,
         line.kind \in ProgramKinds \/ line.kind = "malformed"
  PROVE  ListedOK'
<1>1. /\ n \in Nat \ {0} /\ Opened \in Nat /\ NextProgram \in 1..n /\ n + 1 \notin 1..n
      /\ Cheminot!Headers \in SUBSET (1..n) /\ DOMAIN lines = 1..n
      /\ \A h : Cheminot!Malformed(h) \in SUBSET (1..n)
  <2>1. /\ n \in Nat \ {0} /\ Opened \in Nat /\ NextProgram \in 1..n
        /\ Cheminot!Headers \in SUBSET (1..n) /\ DOMAIN lines = 1..n
    BY FilePlaces DEF FileInv
  <2>2. \A h : Cheminot!Malformed(h) \in SUBSET DOMAIN lines
    BY DEF Cheminot!Malformed
  <2> QED
    BY <2>1, <2>2
<1>2. \A h : Cardinality(Cheminot!Malformed(h)) \in Nat
  BY <1>1, PlacesFinite
<1>3. /\ \A h \in Cheminot!Headers : Cheminot!Number(h) \in 1..Opened
      /\ \A h \in Cheminot!Headers : Cheminot!Number(h) = currentProgram <=> h = NextProgram
  BY HeadersNumbered
<1>4. /\ \A k \in 1..Opened :
           Listings(programs', k) = IF k = currentProgram THEN Listings(programs, k) + 1
             ELSE Listings(programs, k)
      /\ \A k : k > Opened => Listings(programs', k) = 0
      /\ \A i \in DOMAIN programs' : programs'[i] <= Opened
      /\ \A i, j \in DOMAIN programs' : i < j => programs'[i] <= programs'[j]
  BY ListingCounts
<1>5. \A h \in Cheminot!Headers :
        Listings(programs, Cheminot!Number(h))
          = Cardinality(Cheminot!Malformed(h)) + (IF h = NextProgram THEN 0 ELSE 1)
  BY DEF FileInv, ListedOK, Listings
<1>6. ASSUME NEW h \in Cheminot!Headers'
      PROVE  Listings(programs', Cheminot!Number(h)')
               = Cardinality(Cheminot!Malformed(h)') + (IF h = NextProgram' THEN 0 ELSE 1)
  <2>1. CASE h \in Cheminot!Headers
    <3> DEFINE k == Cheminot!Number(h)
    <3>1. Cheminot!Number(h)' = k
      BY <1>1, <2>1 DEF FileGrown
    <3>2. Listings(programs', Cheminot!Number(h)') = IF h = NextProgram
          THEN Listings(programs, k) + 1 ELSE Listings(programs, k)
      BY <1>3, <1>4, <2>1, <3>1
    <3>l. /\ Listings(programs, k) = Cardinality(Cheminot!Malformed(h))
                                      + (IF h = NextProgram THEN 0 ELSE 1)
          /\ Cardinality(Cheminot!Malformed(h)) \in Nat
      BY <1>2, <1>5, <2>1
    <3> HIDE DEF k
    <3>3. CASE line.kind = "malformed"
      <4>1. NextProgram' = NextProgram
        BY <3>3 DEF FileGrown, ProgramKinds
      <4>2. Cheminot!Malformed(h)' = IF h = NextProgram THEN Cheminot!Malformed(h) \cup {n + 1}
                                     ELSE Cheminot!Malformed(h)
        BY <1>1, <2>1, <3>3 DEF FileGrown
      <4>3. Cardinality(Cheminot!Malformed(h) \cup {n + 1}) = Cardinality(Cheminot!Malformed(h)) + 1
        BY <1>1, PlaceAdded
      <4> QED
        BY <3>l, <3>2, <4>1, <4>2, <4>3
    <3>4. CASE line.kind # "malformed"
      <4>1. NextProgram' = n + 1 /\ Cheminot!Malformed(h)' = Cheminot!Malformed(h) /\ h # n + 1
        BY <1>1, <2>1, <3>4 DEF FileGrown
      <4> QED
        BY <1>1, <3>l, <3>2, <4>1
    <3> QED
      BY <3>3, <3>4
  <2>2. CASE h \notin Cheminot!Headers
    <3>1. h = n + 1 /\ line.kind = ".PROGRAMME"
      BY <2>2 DEF FileGrown
    <3>2. /\ NextProgram' = n + 1 /\ Cheminot!Malformed(h)' = {}
          /\ Cheminot!Number(h)' = Opened + 1
      BY <3>1 DEF FileGrown, ProgramKinds
    <3>3. Listings(programs', Cheminot!Number(h)') = 0
      BY <1>1, <1>4, <3>2
    <3> QED
      BY <3>1, <3>2, <3>3, FS_EmptySet
  <2> QED
    BY <2>1, <2>2
<1>7. \A i \in DOMAIN programs' : programs'[i] <= Opened'
  <2>1. Opened' >= Opened /\ Opened' \in Nat
    <3>1. Opened' = IF line.kind = ".PROGRAMME" THEN Opened + 1 ELSE Opened
      BY DEF FileGrown
    <3> QED
      BY <1>1, <3>1
  <2>2. \A i \in DOMAIN programs' : programs'[i] \in Nat
    <3>1. programs \in Seq(Nat)
      BY DEF FileInv, FileType
    <3>2. currentProgram \in Nat
      BY <1>1 DEF FileInv
    <3>3. programs' \in Seq(Nat)
      BY <3>1, <3>2 DEF Cheminot!ListsCurrent
    <3> QED
      BY <3>3
  <2> QED
    BY <1>1, <1>4, <2>1, <2>2
<1> QED
  BY <1>4, <1>6, <1>7 DEF ListedOK, Listings

(* The courses of the programs.                                            *)
LEMMA FirstIs ==
  ASSUME NEW S \in SUBSET Nat, NEW x \in S, \A y \in S : x <= y
  PROVE  (CHOOSE i \in S : \A j \in S : i <= j) = x
<1>1. \A y \in S : (\A z \in S : y <= z) => y = x
  OBVIOUS
<1> QED
  BY <1>1

LEMMA Least ==
  ASSUME NEW n \in Nat, NEW S \in SUBSET (1..n), S # {}
  PROVE  \E x \in S : \A y \in S : x <= y
<1>0. n \in Int /\ \A x \in S : x \in Int
  OBVIOUS
<1> DEFINE T == {n - x : x \in S}
<1>1. T \in SUBSET (0..n) /\ T # {}
  <2>1. \A x \in S : n - x \in 0..n
    OBVIOUS
  <2> QED
    BY <2>1
<1>2. IsFiniteSet(T) /\ T \in SUBSET Nat
  <2> HIDE DEF T
  <2>1. IsFiniteSet(0..n) /\ (0..n) \subseteq Nat
    BY FS_Interval
  <2>2. T \in SUBSET Nat
    BY <1>1, <2>1
  <2> QED
    BY <1>1, <2>1, <2>2, FS_Subset
<1>3. PICK t \in T : \A y \in T : y <= t
  <2> HIDE DEF T
  <2> QED
    BY <1>1, <1>2, Greatest
<1>4. PICK x \in S : t = n - x
  OBVIOUS
<1>5. ASSUME NEW y \in S
      PROVE  x <= y
  <2>1. n - y <= n - x
    BY <1>3, <1>4
  <2>2. n \in Int /\ x \in Int /\ y \in Int
    BY <1>0
  <2> HIDE DEF T
  <2> QED
    BY ONLY <2>1, <2>2
<1> QED
  BY <1>5

LEMMA CourseKept ==
  ASSUME NEW l, NEW m, NEW n \in Nat, \A i \in 1..n : m[i] = l[i],
         NEW found, NEW c, NEW of \in SUBSET (1..n), CourseOK(l, found, c, of)
  PROVE  CourseOK(m, found, c, of)
<1>1. \A i \in 1..n : m[i] = l[i]
  OBVIOUS
<1>2. {i \in of : m[i].kind = "course"} = {i \in of : l[i].kind = "course"}
  BY <1>1
<1>3. UNION {m[i].is.requires : i \in {j \in of : l[j].kind = "course"}}
        = UNION {l[i].is.requires : i \in {j \in of : l[j].kind = "course"}}
  BY <1>1
<1> DEFINE first == CHOOSE i \in of : \A j \in of : i <= j
<1>4. first \in of => m[first] = l[first]
  BY <1>1
<1> HIDE DEF first
<1> QED
  BY <1>2, <1>3, <1>4 DEF CourseOK, first

(* A line that names a course comes after the others that do.              *)
LEMMA CourseTaken ==
  ASSUME NEW l, NEW m, NEW n \in Nat, \A i \in 1..n : m[i] = l[i], NEW line, m[n + 1] = line,
         NEW found, NEW took, NEW c, NEW of \in SUBSET (1..n), CourseOK(l, found, c, of),
         NEW new, new = IF line.kind = "course"
                        THEN [details |-> line.is.details, requires |-> line.is.requires]
                        ELSE [details |-> Listed, requires |-> {}],
         c \in DOMAIN took,
         took[c] = IF c \in DOMAIN found THEN Cheminot!Merged(found[c], new) ELSE new
  PROVE  CourseOK(m, took, c, of \cup {n + 1})
<1>1. /\ \A i \in 1..n : m[i] = l[i]
      /\ m[n + 1] = line
  OBVIOUS
<1> DEFINE now   == of \cup {n + 1}
           full  == {i \in of : l[i].kind = "course"}
           fullN == {i \in now : m[i].kind = "course"}
           first == CHOOSE i \in of : \A j \in of : i <= j
           firstN == CHOOSE i \in now : \A j \in now : i <= j
           needs == UNION {l[i].is.requires : i \in full}
           needsN == UNION {m[i].is.requires : i \in fullN}
<1>2. fullN = IF line.kind = "course" THEN full \cup {n + 1} ELSE full
  BY <1>1
<1>3. needsN = IF line.kind = "course" THEN needs \cup line.is.requires ELSE needs
  <2>1. \A i \in full : i \in 1..n /\ m[i] = l[i]
    BY <1>1
  <2> HIDE DEF full, fullN
  <2>2. CASE line.kind = "course"
    <3>1. \A z : z \in needsN <=> (\E i \in full : z \in l[i].is.requires) \/ z \in line.is.requires
      BY <1>1, <1>2, <2>1, <2>2
    <3>2. \A z : z \in needs <=> \E i \in full : z \in l[i].is.requires
      OBVIOUS
    <3> HIDE DEF needs, needsN
    <3> QED
      BY <2>2, <3>1, <3>2
  <2>3. CASE line.kind # "course"
    <3>1. \A z : z \in needsN <=> \E i \in full : z \in l[i].is.requires
      BY <1>2, <2>1, <2>3
    <3>2. \A z : z \in needs <=> \E i \in full : z \in l[i].is.requires
      OBVIOUS
    <3> HIDE DEF needs, needsN
    <3> QED
      BY <2>3, <3>1, <3>2
  <2> QED
    BY <2>2, <2>3
<1>4. of \in SUBSET Nat /\ now \in SUBSET Nat /\ n + 1 \notin of /\ \A i \in of : i <= n + 1
  OBVIOUS
<1>5. CASE of = {}
  <2>1. now = {n + 1} /\ firstN = n + 1 /\ c \notin DOMAIN found
    BY <1>4, <1>5, FirstIs DEF CourseOK
  <2>2. needs = {}
    BY <1>5
  <2>3. firstN \in fullN <=> line.kind = "course"
    BY <1>1, <1>2, <1>5, <2>1
  <2>4. took[c] = new
    BY <2>1
  <2> HIDE DEF now, full, fullN, firstN, needs, needsN
  <2>5. took[c] = [details |-> IF firstN \in fullN THEN m[firstN].is.details ELSE Listed,
                   requires |-> needsN]
    BY <1>1, <1>3, <2>1, <2>2, <2>3, <2>4
  <2> QED
    BY <2>1, <2>5 DEF CourseOK, now, fullN, firstN, needsN
<1>6. CASE of # {}
  <2>1. PICK x \in of : \A y \in of : x <= y
    BY <1>6, Least
  <2>2. first = x
    BY <1>4, <2>1, FirstIs
  <2>3. firstN = x
    <3>1. x \in now /\ \A y \in now : x <= y
      BY <1>4, <2>1
    <3> HIDE DEF now
    <3> QED
      BY <1>4, <3>1, FirstIs
  <2>4. /\ m[x] = l[x] /\ (x \in fullN <=> x \in full)
    BY <1>1, <1>2, <1>4
  <2>5. /\ c \in DOMAIN found
        /\ found[c] = [details |-> IF first \in full THEN l[first].is.details ELSE Listed,
                       requires |-> needs]
    BY <1>6 DEF CourseOK
  <2> HIDE DEF now, full, fullN, first, firstN, needs, needsN
  <2>6. took[c] = [details |-> found[c].details, requires |-> found[c].requires \cup new.requires]
    BY <2>5 DEF Cheminot!Merged
  <2>7. new.requires = IF line.kind = "course" THEN line.is.requires ELSE {}
    OBVIOUS
  <2>8. took[c] = [details |-> IF firstN \in fullN THEN m[firstN].is.details ELSE Listed,
                   requires |-> needsN]
    <3> DEFINE d == IF firstN \in fullN THEN m[firstN].is.details ELSE Listed
    <3>1. found[c] = [details |-> d, requires |-> needs]
      BY <2>2, <2>3, <2>4, <2>5
    <3>2. needs \cup new.requires = needsN
      BY <1>3, <2>7
    <3> HIDE DEF d
    <3>3. took[c] = [details |-> d, requires |-> needs \cup new.requires]
      BY <2>6, <3>1
    <3> QED
      BY <3>2, <3>3 DEF d
  <2>9. now # {}
    BY DEF now
  <2> QED
    BY <2>8, <2>9 DEF CourseOK, now, fullN, firstN, needsN
<1> QED
  BY <1>5, <1>6

(* No course of a program: the courses are as they were, but for those of  *)
(* a program that begins, of which there are none.                         *)
LEMMA CoursesStay ==
  ASSUME FileInv, NEW n, n = Len(lines), NEW line, FileGrown(n, line),
         NextProgram \in Cheminot!Headers => \A c \in Codes : ~NextNames(line, c),
         \A k \in 1..Opened : programCourses'[k] = programCourses[k],
         line.kind = ".PROGRAMME" => DOMAIN programCourses'[Opened + 1] = {}
  PROVE  CoursesOK'
<1>1. /\ n \in Nat \ {0} /\ DOMAIN lines = 1..n /\ Cheminot!Headers \in SUBSET (1..n)
      /\ \A h \in Cheminot!Headers : Cheminot!Number(h) \in 1..Opened
      /\ \A i \in 1..n : lines'[i] = lines[i]
  BY FilePlaces, HeadersNumbered DEF FileInv, FileGrown
<1>2. SUFFICES ASSUME NEW h \in Cheminot!Headers', NEW c \in Codes
               PROVE  CourseOK(lines', programCourses'[Cheminot!Number(h)'], c,
                               Cheminot!LinesOf(h, c)')
  BY DEF CoursesOK
<1>3. CASE h \in Cheminot!Headers
  <2> DEFINE found == programCourses[Cheminot!Number(h)]
             of == Cheminot!LinesOf(h, c)
  <2>1. Cheminot!LinesOf(h, c)' = of
    BY <1>1, <1>3 DEF FileGrown
  <2>2. programCourses'[Cheminot!Number(h)'] = found
    BY <1>1, <1>3 DEF FileGrown
  <2>3. CourseOK(lines, found, c, of)
    BY <1>3 DEF FileInv, CoursesOK
  <2>4. of \in SUBSET (1..n)
    BY <1>1 DEF Cheminot!LinesOf
  <2> HIDE DEF found, of
  <2> QED
    BY <1>1, <2>1, <2>2, <2>3, <2>4, CourseKept
<1>4. CASE h \notin Cheminot!Headers
  <2>1. h = n + 1 /\ line.kind = ".PROGRAMME"
    BY <1>4 DEF FileGrown
  <2>2. Cheminot!LinesOf(h, c)' = {} /\ Cheminot!Number(h)' = Opened + 1
    BY <2>1 DEF FileGrown
  <2> QED
    BY <2>1, <2>2 DEF CourseOK
<1> QED
  BY <1>3, <1>4

(* A course of the current program.                                        *)
LEMMA CoursesTake ==
  ASSUME FileInv, NEW n, n = Len(lines), NEW line, FileGrown(n, line),
         currentProgram # 0, line.kind # ".PROGRAMME",
         NEW code \in Codes, \A c \in Codes : NextNames(line, c) <=> c = code,
         NEW new, new = IF line.kind = "course"
                        THEN [details |-> line.is.details, requires |-> line.is.requires]
                        ELSE [details |-> Listed, requires |-> {}],
         Cheminot!AddCourse(code, new)
  PROVE  CoursesOK'
<1>1. /\ n \in Nat \ {0} /\ DOMAIN lines = 1..n /\ Cheminot!Headers \in SUBSET (1..n)
      /\ \A h \in Cheminot!Headers : Cheminot!Number(h) \in 1..Opened
      /\ \A h \in Cheminot!Headers : Cheminot!Number(h) = currentProgram <=> h = NextProgram
      /\ \A i \in 1..n : lines'[i] = lines[i]
      /\ lines'[n + 1] = line
  BY FilePlaces, HeadersNumbered DEF FileInv, FileGrown
<1>2. DOMAIN programCourses = 1..Opened
  BY DEF FileInv, FileType
<1>3. programCourses' = [programCourses EXCEPT ![currentProgram] = Cheminot!With(@, code, new)]
  BY DEF Cheminot!AddCourse
<1>4. SUFFICES ASSUME NEW h \in Cheminot!Headers', NEW c \in Codes
               PROVE  CourseOK(lines', programCourses'[Cheminot!Number(h)'], c,
                               Cheminot!LinesOf(h, c)')
  BY DEF CoursesOK
<1>5. h \in Cheminot!Headers /\ Cheminot!Number(h)' = Cheminot!Number(h)
  BY <1>1 DEF FileGrown
<1> DEFINE found == programCourses[Cheminot!Number(h)]
           took  == programCourses'[Cheminot!Number(h)]
           of == Cheminot!LinesOf(h, c)
<1>6. /\ CourseOK(lines, found, c, of)
      /\ of \in SUBSET (1..n)
  BY <1>1, <1>5 DEF FileInv, CoursesOK, Cheminot!LinesOf
<1>7. CASE h = NextProgram /\ c = code
  <2>1. Cheminot!LinesOf(h, c)' = of \cup {n + 1}
    BY <1>1, <1>5, <1>7 DEF FileGrown
  <2>2. took = Cheminot!With(found, code, new)
    BY <1>1, <1>2, <1>3, <1>5, <1>7
  <2> HIDE DEF found, took, of
  <2>3. c \in DOMAIN took
        /\ took[c] = IF c \in DOMAIN found THEN Cheminot!Merged(found[c], new) ELSE new
    BY <1>7, <2>2 DEF Cheminot!With
  <2>4. CourseOK(lines', took, c, of \cup {n + 1})
    BY ONLY <1>1, <1>6, <2>3, CourseTaken,
       new = IF line.kind = "course"
             THEN [details |-> line.is.details, requires |-> line.is.requires]
             ELSE [details |-> Listed, requires |-> {}]
  <2> QED
    BY <1>5, <2>1, <2>4 DEF took
<1>8. CASE ~(h = NextProgram /\ c = code)
  <2>1. Cheminot!LinesOf(h, c)' = of
    BY <1>1, <1>5, <1>8 DEF FileGrown
  <2>2. (c \in DOMAIN took <=> c \in DOMAIN found) /\ (c \in DOMAIN found => took[c] = found[c])
    <3>1. CASE h = NextProgram
      <4>1. took = Cheminot!With(found, code, new) /\ c # code
        BY <1>1, <1>2, <1>3, <1>5, <1>8, <3>1
      <4> HIDE DEF found, took
      <4> QED
        BY <4>1 DEF Cheminot!With
    <3>2. CASE h # NextProgram
      BY <1>1, <1>2, <1>3, <1>5, <3>2
    <3> QED
      BY <3>1, <3>2
  <2> HIDE DEF found, took, of
  <2>3. CourseOK(lines, took, c, of)
    BY <1>6, <2>2 DEF CourseOK
  <2> QED
    BY <1>1, <1>5, <1>6, <2>1, <2>3, CourseKept DEF took
<1> QED
  BY <1>7, <1>8

LEMMA FileInitially == Cheminot!Init => FileInv
<1> SUFFICES ASSUME Cheminot!Init
             PROVE  FileInv
  OBVIOUS
<1>1. /\ lines = <<[kind |-> "file", is |-> None]>> /\ opened = <<>> /\ programCourses = <<>>
      /\ programs = <<>> /\ currentProgram = 0 /\ skip = FALSE
  BY DEF Cheminot!Init
<1>2. FileType
  <2>1. [kind |-> "file", is |-> None] \in Cheminot!Line
    BY DEF Cheminot!Line
  <2>2. lines \in Seq(Cheminot!Line) /\ lines # <<>> /\ lines[1].kind = "file"
    BY <1>1, <2>1
  <2> QED
    BY <1>1, <2>2 DEF FileType
<1>3. Len(lines) = 1 /\ DOMAIN lines = 1..1 /\ lines[1].kind = "file"
  BY <1>1
<1>4. Cheminot!Headers = {} /\ Opened = 0
  <2>1. Cheminot!Headers = {}
    BY <1>3 DEF Cheminot!Headers, Cheminot!Are
  <2> QED
    BY <2>1, FS_EmptySet DEF Opened
<1>5. NextProgram = 1 /\ NextSection = 1
  <2>1. lines[1].kind \in ProgramKinds /\ lines[1].kind \in SectionKinds
    BY <1>3 DEF ProgramKinds, SectionKinds
  <2>2. ASSUME NEW kinds, lines[1].kind \in kinds
        PROVE  LastIn(lines, 2, kinds) = 1
    <3> PICK n \in Nat : n = 1
      OBVIOUS
    <3>1. /\ DOMAIN lines = 1..n /\ n + 1 \in 2..(n + 1) /\ n \in 1..((n + 1) - 1)
          /\ lines[n].kind \in kinds /\ \A k \in 1..((n + 1) - 1) : k <= n
      BY <1>3, <2>2
    <3>2. LastIn(lines, n + 1, kinds) = n
      BY ONLY <3>1, n \in Nat, LastUnique
    <3> QED
      BY <3>2
  <2> QED
    BY <1>3, <2>1, <2>2 DEF NextProgram, NextSection
<1>6. CoursesOK /\ ListedOK
  BY <1>1, <1>4 DEF CoursesOK, ListedOK
<1> QED
  BY <1>1, <1>2, <1>3, <1>4, <1>5, <1>6 DEF FileInv, NextSkipped, SkippedKinds

(* Reading a line: what every handler keeps of the invariant.              *)
LEMMA FileReads ==
  ASSUME FileInv, NEW kind, NEW text, Cheminot!Reads(kind, text),
         [kind |-> kind, is |-> text] \in Cheminot!Line
  PROVE  /\ FileGrown(Len(lines), [kind |-> kind, is |-> text])
         /\ lines' \in Seq(Cheminot!Line) /\ lines' # <<>> /\ lines'[1].kind = "file"
         /\ lines'[NextProgram].kind = lines[NextProgram].kind
         /\ lines'[Len(lines) + 1].kind = kind
<1> DEFINE line == [kind |-> kind, is |-> text]
<1>1. lines' = Append(lines, line) /\ line \in Cheminot!Line /\ line.kind = kind
  BY DEF Cheminot!Reads
<1> HIDE DEF line
<1>2. FileType
  BY DEF FileInv
<1>3. FileGrown(Len(lines), line)
  BY <1>1, <1>2, FileGrows
<1>4. lines' \in Seq(Cheminot!Line) /\ lines' # <<>> /\ lines'[1].kind = "file"
  BY <1>1, <1>2 DEF FileType
<1>5. NextProgram \in 1..Len(lines) /\ \A i \in 1..Len(lines) : lines'[i] = lines[i]
  BY <1>2, <1>3, FilePlaces DEF FileGrown
<1>6. lines'[Len(lines) + 1] = line
  BY <1>3 DEF FileGrown
<1> QED
  BY <1>1, <1>3, <1>4, <1>5, <1>6 DEF line

LEMMA CollectsKeeps ==
  ASSUME FileInv, NEW code \in Codes, NEW choix \in SUBSET Codes, Cheminot!Collects(code, choix)
  PROVE  opened' \in Seq(Cheminot!Program) /\ Len(opened') = Len(opened)
<1>1. opened \in Seq(Cheminot!Program) /\ Len(opened) = Opened
  BY DEF FileInv, FileType
<1>2. CASE currentProgram = 0
  BY <1>1, <1>2 DEF Cheminot!Collects
<1>3. CASE currentProgram # 0
  <2>1. currentProgram \in 1..Len(opened)
    <3>1. currentProgram = Opened /\ Opened \in Nat
      BY <1>3, HeadersNumbered, FilePlaces DEF FileInv
    <3> QED
      BY <1>1, <1>3, <3>1
  <2> DEFINE p == opened[currentProgram]
             q == [p EXCEPT !.choix = @ \cup choix,
                            !.horsProgramme = IF collecting THEN @ \cup {code} ELSE @]
  <2>2. p \in Cheminot!Program
    BY <1>1, <2>1
  <2>3. q \in Cheminot!Program
    <3> HIDE DEF p
    <3> QED
      BY <2>2 DEF Cheminot!Program
  <2>4. opened' = [opened EXCEPT ![currentProgram] = q]
    BY <1>3 DEF Cheminot!Collects
  <2> HIDE DEF q
  <2> QED
    BY <1>1, <2>1, <2>3, <2>4
<1> QED
  BY <1>2, <1>3

LEMMA AddCourseKeeps ==
  ASSUME FileInv, currentProgram # 0, NEW code \in Codes, NEW new \in Cheminot!Course,
         Cheminot!AddCourse(code, new)
  PROVE  programCourses' \in Seq(CourseMaps) /\ Len(programCourses') = Len(programCourses)
<1>1. programCourses \in Seq(CourseMaps) /\ Len(programCourses) = Opened
  BY DEF FileInv, FileType
<1>2. currentProgram \in 1..Len(programCourses)
  <2>1. currentProgram = Opened /\ Opened \in Nat
    BY HeadersNumbered, FilePlaces DEF FileInv
  <2> QED
    BY <1>1, <2>1
<1> DEFINE found == programCourses[currentProgram]
           took  == Cheminot!With(found, code, new)
<1>3. found \in CourseMaps
  BY <1>1, <1>2
<1>4. took \in CourseMaps
  <2> HIDE DEF found
  <2>1. PICK S \in SUBSET Codes : found \in [S -> Cheminot!Course]
    BY <1>3 DEF CourseMaps
  <2>2. \A old \in Cheminot!Course : Cheminot!Merged(old, new) \in Cheminot!Course
    BY DEF Cheminot!Merged, Cheminot!Course
  <2>3. took \in [S \cup {code} -> Cheminot!Course]
    BY <2>1, <2>2 DEF Cheminot!With
  <2>4. S \cup {code} \in SUBSET Codes
    OBVIOUS
  <2> QED
    BY <2>3, <2>4 DEF CourseMaps
<1>5. programCourses' = [programCourses EXCEPT ![currentProgram] = took]
  BY DEF Cheminot!AddCourse
<1> HIDE DEF took
<1> QED
  BY <1>1, <1>2, <1>4, <1>5

(* A line that is no program line keeps the current program, and the rest  *)
(* of the invariant is a matter of the courses and of the list.            *)
LEMMA FileKept ==
  ASSUME FileInv, NEW kind, NEW text, Cheminot!Reads(kind, text),
         [kind |-> kind, is |-> text] \in Cheminot!Line, kind \notin ProgramKinds,
         opened' \in Seq(Cheminot!Program), Len(opened') = Len(opened),
         programCourses' \in Seq(CourseMaps), Len(programCourses') = Len(programCourses),
         programs' \in Seq(Nat), currentProgram' = currentProgram,
         IF kind \in SectionKinds THEN skip' = (kind \in SkippedKinds) ELSE skip' = skip,
         CoursesOK', ListedOK'
  PROVE  FileInv'
<1> DEFINE line == [kind |-> kind, is |-> text]
<1>1. line.kind = kind
  OBVIOUS
<1>2. /\ FileGrown(Len(lines), line)
      /\ lines' \in Seq(Cheminot!Line) /\ lines' # <<>> /\ lines'[1].kind = "file"
      /\ lines'[NextProgram].kind = lines[NextProgram].kind
  BY FileReads
<1> HIDE DEF line
<1>3. /\ NextProgram' = NextProgram /\ Opened' = Opened
      /\ NextSkipped' <=> IF kind \in SectionKinds THEN kind \in SkippedKinds ELSE NextSkipped
  BY <1>1, <1>2 DEF FileGrown, ProgramKinds
<1>4. FileType'
  BY <1>2 DEF FileType
<1>5. lines'[NextProgram'].kind = lines[NextProgram].kind
  BY <1>2, <1>3
<1>6. /\ Len(opened') = Opened' /\ Len(programCourses') = Opened'
      /\ currentProgram' = IF lines'[NextProgram'].kind = ".PROGRAMME" THEN Opened' ELSE 0
  BY <1>3, <1>5 DEF FileInv
<1>7. skip' \in BOOLEAN /\ (skip' <=> NextSkipped')
  <2>1. CASE kind \in SectionKinds
    <3>1. skip' = (kind \in SkippedKinds)
      BY <2>1
    <3>2. NextSkipped' <=> kind \in SkippedKinds
      BY <1>3, <2>1
    <3>3. (kind \in SkippedKinds) \in BOOLEAN
      OBVIOUS
    <3> QED
      BY <3>1, <3>2, <3>3, Zenon
  <2>2. CASE kind \notin SectionKinds
    BY <1>3, <2>2 DEF FileInv
  <2> QED
    BY <2>1, <2>2
<1> QED
  BY <1>4, <1>6, <1>7 DEF FileInv

LEMMA ProgramLineKeeps ==
  ASSUME FileInv, NEW program \in Programs, Cheminot!ProgramLine(program)
  PROVE  FileInv'
<1> DEFINE line == [kind |-> ".PROGRAMME", is |-> program]
<1>1. Cheminot!Reads(".PROGRAMME", program) /\ line \in Cheminot!Line /\ line.kind = ".PROGRAMME"
  BY DEF Cheminot!ProgramLine, Cheminot!Line
<1> PICK n : n = Len(lines)
  OBVIOUS
<1>2. /\ FileGrown(n, line)
      /\ lines' \in Seq(Cheminot!Line) /\ lines' # <<>> /\ lines'[1].kind = "file"
      /\ lines'[n + 1].kind = ".PROGRAMME"
  BY <1>1, FileReads
<1> HIDE DEF line
<1>3. /\ NextProgram' = n + 1 /\ Opened' = Opened + 1 /\ ~NextSkipped'
  BY <1>1, <1>2 DEF FileGrown, ProgramKinds, SectionKinds, SkippedKinds
<1>4. /\ opened \in Seq(Cheminot!Program) /\ programCourses \in Seq(CourseMaps)
      /\ programs \in Seq(Nat) /\ Len(opened) = Opened /\ Len(programCourses) = Opened
      /\ Opened \in Nat /\ currentProgram \in Nat
  BY FilePlaces DEF FileInv, FileType
<1>5. /\ programs' = Cheminot!ListsCurrent
      /\ opened' = Append(opened, [code |-> program, choix |-> {}, horsProgramme |-> {}])
      /\ programCourses' = Append(programCourses, << >>)
      /\ currentProgram' = Len(opened) + 1 /\ skip' = FALSE
  BY DEF Cheminot!ProgramLine
<1>6. opened' \in Seq(Cheminot!Program) /\ Len(opened') = Opened + 1
  <2>1. [code |-> program, choix |-> {}, horsProgramme |-> {}] \in Cheminot!Program
    BY DEF Cheminot!Program
  <2> QED
    BY <1>4, <1>5, <2>1
<1>7. programCourses' \in Seq(CourseMaps) /\ Len(programCourses') = Opened + 1
  <2>1. << >> \in [{} -> Cheminot!Course]
    OBVIOUS
  <2>2. << >> \in CourseMaps
    BY <2>1 DEF CourseMaps
  <2> QED
    BY <1>4, <1>5, <2>2
<1>8. programs' \in Seq(Nat)
  BY <1>4, <1>5 DEF Cheminot!ListsCurrent
<1>9. CoursesOK'
  <2>1. \A k \in 1..Opened : programCourses'[k] = programCourses[k]
    BY <1>4, <1>5
  <2>2. DOMAIN programCourses'[Opened + 1] = {}
    BY <1>4, <1>5
  <2>3. \A c \in Codes : ~NextNames(line, c)
    BY <1>1 DEF NextNames
  <2> QED
    BY <1>2, <2>1, <2>2, <2>3, CoursesStay
<1>10. ListedOK'
  BY <1>1, <1>2, <1>5, ListTakesCurrent DEF ProgramKinds
<1>11. FileType'
  BY <1>2, <1>6, <1>7, <1>8 DEF FileType
<1> QED
  BY <1>2, <1>3, <1>4, <1>5, <1>6, <1>7, <1>9, <1>10, <1>11 DEF FileInv

LEMMA FileEndsKeeps ==
  ASSUME FileInv, Cheminot!FileEnds
  PROVE  FileInv'
<1> DEFINE line == [kind |-> "file", is |-> None]
<1>1. Cheminot!Reads("file", None) /\ line \in Cheminot!Line /\ line.kind = "file"
  BY DEF Cheminot!FileEnds, Cheminot!Line
<1> PICK n : n = Len(lines)
  OBVIOUS
<1>2. /\ FileGrown(n, line)
      /\ lines' \in Seq(Cheminot!Line) /\ lines' # <<>> /\ lines'[1].kind = "file"
      /\ lines'[n + 1].kind = "file"
  BY <1>1, FileReads
<1> HIDE DEF line
<1>3. /\ NextProgram' = n + 1 /\ Opened' = Opened /\ ~NextSkipped'
  BY <1>1, <1>2 DEF FileGrown, ProgramKinds, SectionKinds, SkippedKinds
<1>4. programs \in Seq(Nat) /\ currentProgram \in Nat
  BY FilePlaces DEF FileInv, FileType
<1>5. /\ programs' = Cheminot!ListsCurrent /\ opened' = opened
      /\ programCourses' = programCourses /\ currentProgram' = 0 /\ skip' = FALSE
  BY DEF Cheminot!FileEnds
<1>6. programs' \in Seq(Nat)
  BY <1>4, <1>5 DEF Cheminot!ListsCurrent
<1>7. CoursesOK'
  <2>1. \A c \in Codes : ~NextNames(line, c)
    BY <1>1 DEF NextNames
  <2>2. line.kind # ".PROGRAMME"
    BY <1>1
  <2> QED
    BY <1>2, <1>5, <2>1, <2>2, CoursesStay
<1>8. ListedOK'
  BY <1>1, <1>2, <1>5, ListTakesCurrent DEF ProgramKinds
<1>9. FileType'
  BY <1>2, <1>5, <1>6 DEF FileType, FileInv
<1> QED
  BY <1>2, <1>3, <1>5, <1>7, <1>8, <1>9 DEF FileInv

LEMMA MalformedProgramLineKeeps ==
  ASSUME FileInv, Cheminot!MalformedProgramLine
  PROVE  FileInv'
<1> DEFINE line == [kind |-> "malformed", is |-> None]
<1>1. Cheminot!Reads("malformed", None) /\ line \in Cheminot!Line /\ line.kind = "malformed"
  BY DEF Cheminot!MalformedProgramLine, Cheminot!Line
<1>2. FileGrown(Len(lines), line)
  BY <1>1, FileReads
<1> HIDE DEF line
<1>3. /\ programs' = Cheminot!ListsCurrent /\ opened' = opened
      /\ programCourses' = programCourses /\ currentProgram' = currentProgram /\ skip' = FALSE
  BY DEF Cheminot!MalformedProgramLine
<1>4. /\ programs \in Seq(Nat) /\ currentProgram \in Nat
      /\ opened \in Seq(Cheminot!Program) /\ programCourses \in Seq(CourseMaps)
  BY FilePlaces DEF FileInv, FileType
<1>5. programs' \in Seq(Nat)
  BY <1>3, <1>4 DEF Cheminot!ListsCurrent
<1>6. CoursesOK'
  <2>1. \A c \in Codes : ~NextNames(line, c)
    BY <1>1 DEF NextNames
  <2>2. line.kind # ".PROGRAMME"
    BY <1>1
  <2> QED
    BY <1>2, <1>3, <2>1, <2>2, CoursesStay
<1>7. ListedOK'
  BY <1>1, <1>2, <1>3, ListTakesCurrent
<1>8. /\ "malformed" \notin ProgramKinds
      /\ IF "malformed" \in SectionKinds THEN skip' = ("malformed" \in SkippedKinds)
         ELSE skip' = skip
  <2>1. "malformed" \in SectionKinds /\ ("malformed" \in SkippedKinds) = FALSE
    BY DEF SectionKinds, SkippedKinds
  <2> QED
    BY <1>3, <2>1 DEF ProgramKinds
<1> QED
  BY <1>1, <1>3, <1>4, <1>5, <1>6, <1>7, <1>8, FileKept DEF line

(* A line that names no course, or one outside of any program, and lists   *)
(* no program.                                                             *)
LEMMA LineKeeps ==
  ASSUME FileInv, NEW kind, NEW text, Cheminot!Reads(kind, text),
         [kind |-> kind, is |-> text] \in Cheminot!Line,
         kind \notin ProgramKinds, kind # "malformed",
         opened' \in Seq(Cheminot!Program), Len(opened') = Len(opened),
         programCourses' = programCourses, programs' = programs,
         currentProgram' = currentProgram,
         IF kind \in SectionKinds THEN skip' = (kind \in SkippedKinds) ELSE skip' = skip,
         currentProgram # 0 =>
           kind # "list" /\ (kind = "course" => NextSkipped)
  PROVE  FileInv'
<1> DEFINE line == [kind |-> kind, is |-> text]
<1>1. line.kind = kind
  OBVIOUS
<1>2. FileGrown(Len(lines), line)
  BY FileReads
<1> HIDE DEF line
<1>3. NextProgram \in Cheminot!Headers => \A c \in Codes : ~NextNames(line, c)
  BY <1>1, HeadersNumbered DEF NextNames
<1>4. CoursesOK'
  <2>1. line.kind # ".PROGRAMME"
    BY <1>1 DEF ProgramKinds
  <2> QED
    BY <1>2, <1>3, <2>1, CoursesStay
<1>5. ListedOK'
  BY <1>1, <1>2, ListStays
<1>6. /\ programCourses' \in Seq(CourseMaps) /\ Len(programCourses') = Len(programCourses)
      /\ programs' \in Seq(Nat)
  BY DEF FileInv, FileType
<1> QED
  BY <1>4, <1>5, <1>6, FileKept

(* A line that names a course of the current program.                      *)
LEMMA CourseLineKeeps ==
  ASSUME FileInv, NEW kind \in {"course", "list"}, NEW text, Cheminot!Reads(kind, text),
         [kind |-> kind, is |-> text] \in Cheminot!Line,
         NEW code \in Codes, Cheminot!Collects(code, {}),
         NEW new \in Cheminot!Course, Cheminot!AddCourse(code, new),
         kind = "course" => /\ text.code = code /\ ~NextSkipped
                            /\ new = [details |-> text.details, requires |-> text.requires],
         kind = "list" => text = code /\ new = [details |-> Listed, requires |-> {}],
         currentProgram # 0,
         programs' = programs, currentProgram' = currentProgram, skip' = skip
  PROVE  FileInv'
<1> DEFINE line == [kind |-> kind, is |-> text]
<1>1. line.kind = kind /\ line.is = text
  OBVIOUS
<1>2. FileGrown(Len(lines), line)
  BY FileReads
<1> HIDE DEF line
<1>3. kind \notin ProgramKinds /\ kind \notin SectionKinds /\ kind # "malformed"
      /\ kind # ".PROGRAMME"
  BY DEF ProgramKinds, SectionKinds
<1>4. \A c \in Codes : NextNames(line, c) <=> c = code
  BY <1>1 DEF NextNames
<1>5. new = IF line.kind = "course"
            THEN [details |-> line.is.details, requires |-> line.is.requires]
            ELSE [details |-> Listed, requires |-> {}]
  BY <1>1
<1>6. CoursesOK'
  BY <1>1, <1>2, <1>3, <1>4, <1>5, CoursesTake
<1>7. ListedOK'
  BY <1>1, <1>2, <1>3, ListStays
<1>8. opened' \in Seq(Cheminot!Program) /\ Len(opened') = Len(opened)
  BY CollectsKeeps
<1>9. programCourses' \in Seq(CourseMaps) /\ Len(programCourses') = Len(programCourses)
  BY AddCourseKeeps
<1>10. programs' \in Seq(Nat)
  BY DEF FileInv, FileType
<1> QED
  BY <1>3, <1>6, <1>7, <1>8, <1>9, <1>10, FileKept

LEMMA FilePreserved ==
  ASSUME FileInv, Cheminot!Next
  PROVE  FileInv'
<1>1. /\ opened \in Seq(Cheminot!Program)
      /\ skip \in BOOLEAN /\ (skip <=> NextSkipped)
  BY DEF FileInv, FileType
<1>2. ASSUME NEW program \in Programs, Cheminot!ProgramLine(program)
      PROVE  FileInv'
  BY <1>2, ProgramLineKeeps
<1>3. CASE Cheminot!MalformedProgramLine
  BY <1>3, MalformedProgramLineKeeps
<1>4. ASSUME NEW kind \in {"skipped", ".HORS-PROGRAMME", "section"}, Cheminot!SectionLine(kind)
      PROVE  FileInv'
  <2>1. /\ Cheminot!Reads(kind, None) /\ [kind |-> kind, is |-> None] \in Cheminot!Line
        /\ UNCHANGED <<opened, programCourses, programs, currentProgram>>
        /\ skip' = (kind # "section")
    BY <1>4 DEF Cheminot!SectionLine, Cheminot!Line
  <2>2. /\ kind \notin ProgramKinds /\ kind # "malformed" /\ kind \in SectionKinds
        /\ (kind # "section") = (kind \in SkippedKinds) /\ kind # "list" /\ kind # "course"
    BY DEF ProgramKinds, SectionKinds, SkippedKinds
  <2> QED
    BY <1>1, <2>1, <2>2, LineKeeps
<1>5. CASE Cheminot!BlankLine
  <2>1. /\ Cheminot!Reads("blank", None) /\ [kind |-> "blank", is |-> None] \in Cheminot!Line
        /\ UNCHANGED <<opened, programCourses, programs, currentProgram, skip>>
    BY <1>5 DEF Cheminot!BlankLine, Cheminot!Line
  <2>2. "blank" \notin ProgramKinds /\ "blank" \notin SectionKinds
    BY DEF ProgramKinds, SectionKinds
  <2> QED
    BY <1>1, <2>1, <2>2, LineKeeps
<1>6. ASSUME NEW line \in Cheminot!CourseLine, Cheminot!CourseLineRead(line)
      PROVE  FileInv'
  <2> DEFINE new == [details |-> line.details, requires |-> line.requires]
  <2>1. /\ Cheminot!Reads("course", line) /\ [kind |-> "course", is |-> line] \in Cheminot!Line
        /\ Cheminot!Collects(line.code, {})
        /\ UNCHANGED <<programs, currentProgram, skip>>
    BY <1>6 DEF Cheminot!CourseLineRead, Cheminot!Parsed, Cheminot!Line
  <2>2. line.code \in Codes /\ new \in Cheminot!Course
    BY DEF Cheminot!CourseLine, Cheminot!Course
  <2>3. opened' \in Seq(Cheminot!Program) /\ Len(opened') = Len(opened)
    BY <2>1, <2>2, CollectsKeeps
  <2>4. "course" \notin ProgramKinds /\ "course" \notin SectionKinds
    BY DEF ProgramKinds, SectionKinds
  <2>5. CASE currentProgram # 0 /\ ~skip
    <3>1. Cheminot!AddCourse(line.code, new)
      BY <1>6, <2>5 DEF Cheminot!CourseLineRead, Cheminot!Parsed
    <3> QED
      BY <1>1, <2>1, <2>2, <2>5, <3>1, CourseLineKeeps
  <2>6. CASE ~(currentProgram # 0 /\ ~skip)
    <3>1. programCourses' = programCourses
      BY <1>6, <2>6 DEF Cheminot!CourseLineRead, Cheminot!Parsed
    <3> QED
      BY <1>1, <2>1, <2>3, <2>4, <2>6, <3>1, LineKeeps
  <2> QED
    BY <2>5, <2>6
<1>7. ASSUME NEW code \in Codes,
             Cheminot!ChoiceLine(code) \/ Cheminot!ShortChoiceLine(code) \/ Cheminot!Entry(code)
      PROVE  FileInv'
  <2>1. PICK kind \in {"CHOIX", "short", "entry"}, choix \in SUBSET Codes :
             Cheminot!Reads(kind, code) /\ Cheminot!Collects(code, choix)
    BY <1>7 DEF Cheminot!ChoiceLine, Cheminot!ShortChoiceLine, Cheminot!Entry
  <2>2. UNCHANGED <<programCourses, programs, currentProgram, skip>>
    BY <1>7 DEF Cheminot!ChoiceLine, Cheminot!ShortChoiceLine, Cheminot!Entry
  <2>3. /\ [kind |-> kind, is |-> code] \in Cheminot!Line
        /\ kind \notin ProgramKinds /\ kind \notin SectionKinds
        /\ kind # "malformed" /\ kind # "list" /\ kind # "course"
    BY DEF Cheminot!Line, ProgramKinds, SectionKinds
  <2>4. opened' \in Seq(Cheminot!Program) /\ Len(opened') = Len(opened)
    BY <2>1, CollectsKeeps
  <2> QED
    BY <2>1, <2>2, <2>3, <2>4, LineKeeps
<1>8. ASSUME NEW code \in Codes, Cheminot!CourseList(code)
      PROVE  FileInv'
  <2> DEFINE new == [details |-> Listed, requires |-> {}]
  <2>1. /\ Cheminot!Reads("list", code) /\ [kind |-> "list", is |-> code] \in Cheminot!Line
        /\ Cheminot!Collects(code, {})
        /\ UNCHANGED <<programs, currentProgram, skip>>
    BY <1>8 DEF Cheminot!CourseList, Cheminot!Line
  <2>2. new \in Cheminot!Course
    BY DEF Cheminot!Course
  <2>3. opened' \in Seq(Cheminot!Program) /\ Len(opened') = Len(opened)
    BY <2>1, CollectsKeeps
  <2>4. "list" \notin ProgramKinds /\ "list" \notin SectionKinds
    BY DEF ProgramKinds, SectionKinds
  <2>5. CASE currentProgram # 0
    <3>1. Cheminot!AddCourse(code, new)
      BY <1>8, <2>5 DEF Cheminot!CourseList
    <3> QED
      BY <2>1, <2>2, <2>5, <3>1, CourseLineKeeps
  <2>6. CASE currentProgram = 0
    <3>1. programCourses' = programCourses
      BY <1>8, <2>6 DEF Cheminot!CourseList
    <3> QED
      BY <1>1, <2>1, <2>3, <2>4, <2>6, <3>1, LineKeeps
  <2> QED
    BY <2>5, <2>6
<1>9. CASE Cheminot!FileEnds
  BY <1>9, FileEndsKeeps
<1> QED
  BY <1>2, <1>3, <1>4, <1>5, <1>6, <1>7, <1>8, <1>9 DEF Cheminot!Next

LEMMA FileUntouched ==
  ASSUME FileInv, UNCHANGED cheminotVars
  PROVE  FileInv'
<1>1. /\ lines' = lines /\ opened' = opened /\ programCourses' = programCourses
      /\ programs' = programs /\ currentProgram' = currentProgram /\ skip' = skip
  BY DEF cheminotVars
<1>2. /\ Cheminot!Headers' = Cheminot!Headers /\ NextProgram' = NextProgram
      /\ NextSection' = NextSection
      /\ \A i : Cheminot!ProgramOf(i)' = Cheminot!ProgramOf(i)
      /\ \A i : Cheminot!SectionOf(i)' = Cheminot!SectionOf(i)
  BY <1>1 DEF NextProgram, NextSection, Cheminot!Headers, Cheminot!Are, Cheminot!ProgramOf,
     Cheminot!SectionOf, Cheminot!LastBefore
<1>3. /\ Opened' = Opened /\ (NextSkipped' <=> NextSkipped)
      /\ \A h : Cheminot!Number(h)' = Cheminot!Number(h)
      /\ \A h : Cheminot!Malformed(h)' = Cheminot!Malformed(h)
      /\ \A i : Cheminot!Skipped(i)' <=> Cheminot!Skipped(i)
  BY <1>1, <1>2 DEF Opened, NextSkipped, Cheminot!Number, Cheminot!Malformed, Cheminot!Are,
     Cheminot!Skipped
<1>4. \A i, c : Cheminot!Names(i, c)' <=> Cheminot!Names(i, c)
  BY <1>1, <1>3 DEF Cheminot!Names, Cheminot!Are
<1>5. \A h, c : Cheminot!LinesOf(h, c)' = Cheminot!LinesOf(h, c)
  BY <1>1, <1>2, <1>4 DEF Cheminot!LinesOf
<1>6. CoursesOK'
  BY <1>1, <1>2, <1>3, <1>5 DEF FileInv, CoursesOK
<1>7. ListedOK'
  BY <1>1, <1>2, <1>3 DEF FileInv, ListedOK
<1>8. FileType'
  BY <1>1 DEF FileInv, FileType
<1> QED
  BY <1>1, <1>2, <1>3, <1>6, <1>7, <1>8 DEF FileInv

LEMMA FilePrinted == FileInv => CheminotAsPrinted
<1> SUFFICES ASSUME FileInv
             PROVE  CheminotAsPrinted
  OBVIOUS
<1>1. Cheminot!CoursesOfPrograms
  BY DEF FileInv, CoursesOK, CourseOK, Cheminot!CoursesOfPrograms, Cheminot!Are
<1>2. Cheminot!ProgramsListed
  <2> SUFFICES ASSUME currentProgram = 0
               PROVE  /\ \A h \in Cheminot!Headers :
                           Cheminot!Cardinality({i \in DOMAIN programs :
                                                   programs[i] = Cheminot!Number(h)})
                             = 1 + Cheminot!Cardinality(Cheminot!Malformed(h))
                      /\ \A i, j \in DOMAIN programs : i < j => programs[i] <= programs[j]
    BY DEF Cheminot!ProgramsListed
  <2>1. \A h \in Cheminot!Headers : h # NextProgram
    BY HeadersNumbered
  <2>2. \A h \in Cheminot!Headers :
          Cardinality({i \in DOMAIN programs : programs[i] = Cheminot!Number(h)})
            = Cardinality(Cheminot!Malformed(h)) + 1
    BY <2>1 DEF FileInv, ListedOK
  <2>3. \A h : Cardinality(Cheminot!Malformed(h)) \in Nat
    <3> PICK n : n = Len(lines)
      OBVIOUS
    <3>1. n \in Nat /\ DOMAIN lines = 1..n
      BY FilePlaces DEF FileInv
    <3>2. \A h : Cheminot!Malformed(h) \in SUBSET (1..n)
      BY <3>1 DEF Cheminot!Malformed
    <3> QED
      BY <3>1, <3>2, PlacesFinite
  <2>4. \A i, j \in DOMAIN programs : i < j => programs[i] <= programs[j]
    BY DEF FileInv, ListedOK
  <2> QED
    BY <2>2, <2>3, <2>4, FileTerms
<1> QED
  BY <1>1, <1>2 DEF CheminotAsPrinted, Cheminot!CheminotAsPrinted

----------------------------------------------------------------------------
(* The timetable.  The last text before place i of one of some kinds, 0    *)
(* when there is none.                                                     *)
Latest(l, i, kinds) ==
  LET at == {k \in DOMAIN l : k < i /\ l[k].kind \in kinds}
  IN  IF at = {} THEN 0 ELSE CHOOSE k \in at : \A m \in at : m <= k

LEMMA LatestUnique ==
  ASSUME NEW l, NEW n \in Nat, DOMAIN l = 1..n, NEW i \in 1..(n + 1), NEW kinds,
         NEW x \in 0..(i - 1), x # 0 => l[x].kind \in kinds,
         \A k \in 1..(i - 1) : l[k].kind \in kinds => k <= x
  PROVE  Latest(l, i, kinds) = x
<1> DEFINE at == {k \in DOMAIN l : k < i /\ l[k].kind \in kinds}
<1>1. at \subseteq Nat /\ (x # 0 => x \in at) /\ \A m \in at : m <= x /\ m # 0
  OBVIOUS
<1>2. Latest(l, i, kinds) = IF at = {} THEN 0 ELSE CHOOSE k \in at : \A m \in at : m <= k
  BY DEF Latest
<1> HIDE DEF at
<1>3. CASE x = 0
  <2>1. at = {}
    BY <1>1, <1>3
  <2> QED
    BY <1>2, <1>3, <2>1
<1>4. CASE x # 0
  <2>1. \A y \in at : (\A m \in at : m <= y) => y = x
    BY <1>1, <1>4
  <2> QED
    BY <1>1, <1>2, <1>4, <2>1
<1> QED
  BY <1>3, <1>4

LEMMA LatestIs ==
  ASSUME NEW l, NEW n \in Nat, DOMAIN l = 1..n, NEW i \in 1..(n + 1), NEW kinds
  PROVE  /\ Latest(l, i, kinds) \in 0..(i - 1)
         /\ Latest(l, i, kinds) # 0 => l[Latest(l, i, kinds)].kind \in kinds
         /\ \A k \in 1..(i - 1) : l[k].kind \in kinds => k <= Latest(l, i, kinds)
<1> DEFINE at == {k \in 1..(i - 1) : l[k].kind \in kinds}
<1>1. at \in SUBSET Nat /\ at \in SUBSET (1..(i - 1))
  OBVIOUS
<1>2. IsFiniteSet(at)
  BY <1>1, FS_Interval, FS_Subset
<1>3. CASE at = {}
  <2>1. /\ 0 \in 0..(i - 1)
        /\ \A k \in 1..(i - 1) : l[k].kind \in kinds => k <= 0
    BY <1>3
  <2>2. Latest(l, i, kinds) = 0
    BY <2>1, LatestUnique
  <2> QED
    BY <2>1, <2>2
<1>4. CASE at # {}
  <2>1. PICK x \in at : \A y \in at : y <= x
    <3> HIDE DEF at
    <3> QED
      BY <1>1, <1>2, <1>4, Greatest
  <2>2. /\ x \in 0..(i - 1) /\ l[x].kind \in kinds
        /\ \A k \in 1..(i - 1) : l[k].kind \in kinds => k <= x
    BY <2>1
  <2>3. Latest(l, i, kinds) = x
    BY <2>2, LatestUnique
  <2> QED
    BY <2>2, <2>3
<1> QED
  BY <1>3, <1>4

LEMMA LatestAppended ==
  ASSUME NEW l, NEW m, NEW n \in Nat, DOMAIN l = 1..n, DOMAIN m = 1..(n + 1),
         \A i \in 1..n : m[i] = l[i], NEW kinds
  PROVE  /\ \A i \in 1..(n + 1) : Latest(m, i, kinds) = Latest(l, i, kinds)
         /\ Latest(m, n + 2, kinds) = IF m[n + 1].kind \in kinds THEN n + 1
                                      ELSE Latest(l, n + 1, kinds)
<1>1. ASSUME NEW i \in 1..(n + 1)
      PROVE  Latest(m, i, kinds) = Latest(l, i, kinds)
  <2> DEFINE x == Latest(l, i, kinds)
  <2>1. /\ x \in 0..(i - 1) /\ (x # 0 => l[x].kind \in kinds)
        /\ \A k \in 1..(i - 1) : l[k].kind \in kinds => k <= x
    BY LatestIs
  <2> HIDE DEF x
  <2>2. /\ x \in 0..(i - 1) /\ (x # 0 => m[x].kind \in kinds)
        /\ \A k \in 1..(i - 1) : m[k].kind \in kinds => k <= x
    BY <2>1
  <2>3. n + 1 \in Nat /\ i \in 1..((n + 1) + 1)
    OBVIOUS
  <2>4. Latest(m, i, kinds) = x
    BY <2>2, <2>3, LatestUnique
  <2> QED
    BY <2>4 DEF x
<1>2. n + 1 \in Nat /\ n + 2 \in 1..((n + 1) + 1) /\ (n + 2) - 1 = n + 1
  OBVIOUS
<1> DEFINE x == IF m[n + 1].kind \in kinds THEN n + 1 ELSE Latest(l, n + 1, kinds)
<1>3. /\ x \in 0..((n + 2) - 1) /\ (x # 0 => m[x].kind \in kinds)
      /\ \A k \in 1..((n + 2) - 1) : m[k].kind \in kinds => k <= x
  <2>1. CASE m[n + 1].kind \in kinds
    BY <1>2, <2>1
  <2>2. CASE m[n + 1].kind \notin kinds
    <3>1. n + 1 \in 1..(n + 1) /\ (n + 1) - 1 = n
      OBVIOUS
    <3>2. /\ x \in 0..n /\ (x # 0 => l[x].kind \in kinds)
          /\ \A k \in 1..n : l[k].kind \in kinds => k <= x
      BY <2>2, <3>1, LatestIs
    <3> HIDE DEF x
    <3> QED
      BY <1>2, <2>2, <3>2
  <2> QED
    BY <2>1, <2>2
<1> HIDE DEF x
<1>4. Latest(m, n + 2, kinds) = x
  BY <1>2, <1>3, LatestUnique
<1> QED
  BY <1>1, <1>4 DEF x

RowKinds == {"code", "group", "day", "end"}

(* Of the text to come: the heading and the group it stands under; and     *)
(* whether it goes on with the row of text i.                              *)
NextHeading == Latest(horaire, Len(horaire) + 1, {"code"})
NextGroup   == Latest(horaire, Len(horaire) + 1, {"code", "group"})
GoesOn(i)   == \A k \in DOMAIN horaire : i < k => horaire[k].kind \notin RowKinds

(* A period as stored is one that is printed; a text that counts is one    *)
(* that must be stored; and what must be stored as prerequisites.          *)
Placed(c, gp) ==
  \E i, j \in DOMAIN horaire : Horaire!Under(i, c, gp[1]) /\ Horaire!StandsAt(i, j, gp[2])
Shows(gp, i) ==
  gp[1] = horaire[Horaire!GroupOf(i)].is /\ horaire[i].is \in {gp[2].day, gp[2].detail}
Counts(i) ==
  /\ horaire[i].kind \in {"day", "detail"} /\ ~Horaire!Replaced(i)
  /\ Horaire!HeadingOf(i) # 0 /\ horaire[Horaire!GroupOf(i)].kind = "group"
Requires(i) == horaire[i].kind = "prerequisites"
Owes(i, c) ==
  /\ Requires(i)
  /\ \E h \in DOMAIN horaire :
       Horaire!HeadingOf(i) = h /\ horaire[h].is = c /\ Horaire!IsFirst(h)
Required(c) == {horaire[i].is : i \in {j \in DOMAIN horaire : Owes(j, c)}}
Gathered ==
  {horaire[i].is : i \in {j \in DOMAIN horaire : Requires(j) /\ Horaire!HeadingOf(j) = NextHeading}}

(* The courses listed are those of all headings but the open one.          *)
ListOK(list, open) ==
  /\ DOMAIN list \subseteq Codes
  /\ \A c \in Codes : c \in DOMAIN list <=>
       \E h \in DOMAIN horaire : horaire[h].kind = "code" /\ horaire[h].is = c /\ h # open
  /\ \A c \in DOMAIN list : list[c] \in Horaire!Course
  /\ \A c \in DOMAIN list : \A gp \in list[c].periods : Placed(c, gp)
  /\ \A c \in DOMAIN list : list[c].prerequisites = Required(c)
  /\ \A i, h \in DOMAIN horaire, c \in Codes :
       Counts(i) /\ Horaire!HeadingOf(i) = h /\ h # open /\ Horaire!IsFirst(h) /\ horaire[h].is = c
       => \E gp \in list[c].periods : Shows(gp, i)

(* The course and the group that are read, and the periods of this page.   *)
Held(i) ==
  \E k \in DOMAIN periods :
    \/ horaire[i].kind = "day" /\ periods[k].day = horaire[i].is
    \/ horaire[i].kind = "detail" /\ periods[k].detail = horaire[i].is
       /\ (k = Len(periods) => GoesOn(i))

CourseHeld ==
  /\ course \in Horaire!Course
  /\ course.code = IF NextHeading = 0 THEN None ELSE horaire[NextHeading].is
  /\ course.prerequisites = Gathered
  /\ \A c \in Codes : c = course.code => \A gp \in course.periods : Placed(c, gp)
  /\ \A i \in DOMAIN horaire :
       Counts(i) /\ Horaire!HeadingOf(i) = NextHeading
       => \/ \E gp \in course.periods : Shows(gp, i)
          \/ Horaire!GroupOf(i) = NextGroup /\ Held(i)

PeriodsHeld ==
  /\ periods \in Seq(Horaire!Period)
  /\ \A k \in DOMAIN periods : periods[k] = Horaire!Empty => Len(periods) = 1
  /\ group = IF NextGroup # 0 /\ horaire[NextGroup].kind = "group" THEN horaire[NextGroup].is
             ELSE None
  /\ group = None => periods = <<>>
  /\ \A k \in DOMAIN periods, p \in Horaire!Period :
       p = periods[k] /\ p # Horaire!Empty =>
         \E i, j \in DOMAIN horaire :
           /\ Horaire!HeadingOf(i) = NextHeading /\ Horaire!GroupOf(i) = NextGroup
           /\ Horaire!StandsAt(i, j, p)
           /\ (k = Len(periods) => GoesOn(i))

DocumentInv ==
  /\ horaire \in Seq(Horaire!Text)
  /\ ListOK(horaireCourses, IF horaireDone THEN 0 ELSE NextHeading)
  /\ CourseHeld
  /\ PeriodsHeld
  /\ (horaire # <<>> /\ horaire[Len(horaire)].kind = "end") => periods = <<>>

LEMMA DocumentPlaces ==
  ASSUME horaire \in Seq(Horaire!Text), NEW n, n = Len(horaire)
  PROVE  /\ n \in Nat /\ DOMAIN horaire = 1..n
         /\ \A i \in 1..n : horaire[i] \in Horaire!Text
         /\ \A i \in 1..(n + 1) :
              /\ Horaire!HeadingOf(i) = Latest(horaire, i, {"code"})
              /\ Horaire!GroupOf(i) = Latest(horaire, i, {"code", "group"})
              /\ Horaire!HeadingOf(i) \in 0..(i - 1) /\ Horaire!GroupOf(i) \in 0..(i - 1)
              /\ Horaire!HeadingOf(i) # 0 => horaire[Horaire!HeadingOf(i)].kind = "code"
              /\ Horaire!HeadingOf(i) <= Horaire!GroupOf(i)
              /\ \A k \in 1..(i - 1) : horaire[k].kind = "code" => k <= Horaire!HeadingOf(i)
         /\ \A i : i = n + 1 => /\ NextHeading = Horaire!HeadingOf(i)
                                /\ NextGroup = Horaire!GroupOf(i)
         /\ NextHeading \in 0..n /\ NextGroup \in 0..n /\ NextHeading <= NextGroup
         /\ NextHeading # 0 => horaire[NextHeading].kind = "code"
         /\ NextGroup # 0 => horaire[NextGroup].kind \in {"code", "group"}
         /\ \A k \in 1..n : horaire[k].kind = "code" => k <= NextHeading
<1>1. n \in Nat /\ DOMAIN horaire = 1..n /\ \A i \in 1..n : horaire[i] \in Horaire!Text
  OBVIOUS
<1>2. ASSUME NEW i, NEW kinds
      PROVE  Horaire!LastBefore(i, kinds) = Latest(horaire, i, kinds)
  <2> DEFINE at == {k \in Horaire!Between(0, i) : Horaire!Are(k, kinds)}
             to == {k \in DOMAIN horaire : k < i /\ horaire[k].kind \in kinds}
  <2>1. at = to
    BY <1>1 DEF Horaire!Between, Horaire!Are
  <2>2. /\ Horaire!LastBefore(i, kinds) = IF at = {} THEN 0
           ELSE CHOOSE k \in at : \A m \in at : m <= k
        /\ Latest(horaire, i, kinds) = IF to = {} THEN 0 ELSE CHOOSE k \in to : \A m \in to : m <= k
    BY DEF Horaire!LastBefore, Latest
  <2> HIDE DEF at, to
  <2> QED
    BY <2>1, <2>2
<1>3. ASSUME NEW i \in 1..(n + 1)
      PROVE  /\ Horaire!HeadingOf(i) = Latest(horaire, i, {"code"})
             /\ Horaire!GroupOf(i) = Latest(horaire, i, {"code", "group"})
             /\ Horaire!HeadingOf(i) \in 0..(i - 1) /\ Horaire!GroupOf(i) \in 0..(i - 1)
             /\ Horaire!HeadingOf(i) # 0 => horaire[Horaire!HeadingOf(i)].kind = "code"
             /\ Horaire!GroupOf(i) # 0 => horaire[Horaire!GroupOf(i)].kind \in {"code", "group"}
             /\ Horaire!HeadingOf(i) <= Horaire!GroupOf(i)
             /\ \A k \in 1..(i - 1) : horaire[k].kind = "code" => k <= Horaire!HeadingOf(i)
  <2> DEFINE h == Latest(horaire, i, {"code"})
             g == Latest(horaire, i, {"code", "group"})
  <2>1. Horaire!HeadingOf(i) = h /\ Horaire!GroupOf(i) = g
    BY <1>2 DEF Horaire!HeadingOf, Horaire!GroupOf
  <2>2. /\ h \in 0..(i - 1) /\ (h # 0 => horaire[h].kind \in {"code"})
        /\ \A k \in 1..(i - 1) : horaire[k].kind \in {"code"} => k <= h
    BY <1>1, LatestIs
  <2>3. /\ g \in 0..(i - 1) /\ (g # 0 => horaire[g].kind \in {"code", "group"})
        /\ \A k \in 1..(i - 1) : horaire[k].kind \in {"code", "group"} => k <= g
    BY <1>1, LatestIs
  <2> HIDE DEF h, g
  <2> QED
    BY <2>1, <2>2, <2>3 DEF h, g
<1>4. \A i : i = n + 1 => NextHeading = Horaire!HeadingOf(i) /\ NextGroup = Horaire!GroupOf(i)
  BY <1>1, <1>3 DEF NextHeading, NextGroup
<1>5. \A i : i = n + 1 => i \in 1..(n + 1) /\ i - 1 = n
  BY <1>1
<1>6. /\ NextHeading \in 0..n /\ NextGroup \in 0..n /\ NextHeading <= NextGroup
      /\ NextHeading # 0 => horaire[NextHeading].kind = "code"
      /\ NextGroup # 0 => horaire[NextGroup].kind \in {"code", "group"}
      /\ \A k \in 1..n : horaire[k].kind = "code" => k <= NextHeading
  <2> PICK i : i = n + 1
    OBVIOUS
  <2> QED
    BY <1>3, <1>4, <1>5
<1> QED
  BY <1>1, <1>3, <1>4, <1>6

(* A text that is read changes nothing of what was read before it, except  *)
(* that it may replace a detail of the row it goes on with.                *)
DocumentGrown(n, text) ==
  /\ DOMAIN horaire' = 1..(n + 1)
  /\ \A i \in 1..n : horaire'[i] = horaire[i]
  /\ horaire'[n + 1] = text
  /\ NextHeading' = IF text.kind = "code" THEN n + 1 ELSE NextHeading
  /\ NextGroup' = IF text.kind \in {"code", "group"} THEN n + 1 ELSE NextGroup
  /\ \A i \in 1..n : /\ Horaire!HeadingOf(i)' = Horaire!HeadingOf(i)
                     /\ Horaire!GroupOf(i)' = Horaire!GroupOf(i)
                     /\ Horaire!IsFirst(i)' <=> Horaire!IsFirst(i)
                     /\ Requires(i)' <=> Requires(i)
                     /\ Counts(i)' => Counts(i)
                     /\ GoesOn(i) /\ text.kind \notin RowKinds => GoesOn(i)'
  /\ \A i : i = n + 1 => /\ Horaire!HeadingOf(i)' = NextHeading
                         /\ Horaire!GroupOf(i)' = NextGroup
                         /\ GoesOn(i)'
  /\ \A i \in 1..n : \A gp :
       Horaire!HeadingOf(i) # 0 => (Shows(gp, i)' <=> Shows(gp, i))
  /\ \A c, gp : Placed(c, gp) => Placed(c, gp)'
  /\ \A i, j \in 1..n : \A p : Horaire!StandsAt(i, j, p) => Horaire!StandsAt(i, j, p)'
  /\ \A i \in 1..n : \A j : j = n + 1 /\ GoesOn(i) => Horaire!SameRow(i, j)'
  /\ \A i \in 1..n : (GoesOn(i) /\ horaire[i].kind = "detail" /\ text.kind = "detail")
     => ~Counts(i)'

LEMMA DocumentGrows ==
  ASSUME horaire \in Seq(Horaire!Text), NEW text \in Horaire!Text,
         horaire' = Append(horaire, text), NEW n, n = Len(horaire)
  PROVE  DocumentGrown(n, text) /\ horaire' \in Seq(Horaire!Text) /\ Len(horaire') = n + 1
<1>1. /\ n \in Nat /\ DOMAIN horaire = 1..n
      /\ \A i \in 1..(n + 1) :
           /\ Horaire!HeadingOf(i) = Latest(horaire, i, {"code"})
           /\ Horaire!GroupOf(i) = Latest(horaire, i, {"code", "group"})
           /\ Horaire!HeadingOf(i) \in 0..(i - 1) /\ Horaire!GroupOf(i) \in 0..(i - 1)
           /\ Horaire!HeadingOf(i) <= Horaire!GroupOf(i)
      /\ \A i : i = n + 1 => NextHeading = Horaire!HeadingOf(i) /\ NextGroup = Horaire!GroupOf(i)
  BY DocumentPlaces
<1>2. /\ horaire' \in Seq(Horaire!Text) /\ Len(horaire') = n + 1
      /\ DOMAIN horaire' = 1..(n + 1)
      /\ \A i \in 1..n : horaire'[i] = horaire[i]
      /\ horaire'[n + 1] = text
  BY <1>1
<1>3. 1..(n + 1) = (1..n) \cup {n + 1} /\ n + 1 \notin 1..n
  BY <1>1
<1>4. ASSUME NEW kinds
      PROVE  /\ \A i \in 1..(n + 1) : Latest(horaire', i, kinds) = Latest(horaire, i, kinds)
             /\ Latest(horaire', n + 2, kinds) = IF text.kind \in kinds THEN n + 1
                                                 ELSE Latest(horaire, n + 1, kinds)
  <2>1. n \in Nat /\ DOMAIN horaire = 1..n
    BY ONLY <1>1
  <2>2. DOMAIN horaire' = 1..(n + 1) /\ \A i \in 1..n : horaire'[i] = horaire[i]
    BY ONLY <1>2
  <2>3. \A l, m : DOMAIN l = 1..n /\ DOMAIN m = 1..(n + 1) /\ (\A i \in 1..n : m[i] = l[i])
          => /\ \A i \in 1..(n + 1) : Latest(m, i, kinds) = Latest(l, i, kinds)
             /\ Latest(m, n + 2, kinds) = IF m[n + 1].kind \in kinds THEN n + 1
                                          ELSE Latest(l, n + 1, kinds)
    BY ONLY <2>1, LatestAppended
  <2>4. /\ \A i \in 1..(n + 1) : Latest(horaire', i, kinds) = Latest(horaire, i, kinds)
        /\ Latest(horaire', n + 2, kinds) = IF horaire'[n + 1].kind \in kinds THEN n + 1
                                            ELSE Latest(horaire, n + 1, kinds)
    BY ONLY <2>1, <2>2, <2>3
  <2> QED
    BY <1>2, <2>4
<1>5. ASSUME NEW i, NEW kinds
      PROVE  Horaire!LastBefore(i, kinds)' = Latest(horaire', i, kinds)
  <2> DEFINE at == {k \in Horaire!Between(0, i)' : Horaire!Are(k, kinds)'}
             to == {k \in DOMAIN horaire' : k < i /\ horaire'[k].kind \in kinds}
  <2>1. at = to
    BY <1>1, <1>2 DEF Horaire!Between, Horaire!Are
  <2>2. /\ Horaire!LastBefore(i, kinds)' = IF at = {} THEN 0
           ELSE CHOOSE k \in at : \A m \in at : m <= k
        /\ Latest(horaire', i, kinds) = IF to = {} THEN 0
           ELSE CHOOSE k \in to : \A m \in to : m <= k
    BY DEF Horaire!LastBefore, Latest
  <2> HIDE DEF at, to
  <2> QED
    BY <2>1, <2>2
<1>6. \A i \in 1..(n + 1) : /\ Horaire!HeadingOf(i)' = Horaire!HeadingOf(i)
                            /\ Horaire!GroupOf(i)' = Horaire!GroupOf(i)
  BY <1>1, <1>4, <1>5 DEF Horaire!HeadingOf, Horaire!GroupOf
<1>7. /\ NextHeading' = IF text.kind = "code" THEN n + 1 ELSE NextHeading
      /\ NextGroup' = IF text.kind \in {"code", "group"} THEN n + 1 ELSE NextGroup
  <2>1. Len(horaire') + 1 = n + 2
    BY <1>1, <1>2
  <2>2. /\ NextHeading' = Latest(horaire', n + 2, {"code"})
        /\ NextGroup' = Latest(horaire', n + 2, {"code", "group"})
    BY <2>1 DEF NextHeading, NextGroup
  <2>3. /\ NextHeading = Latest(horaire, n + 1, {"code"})
        /\ NextGroup = Latest(horaire, n + 1, {"code", "group"})
    BY DEF NextHeading, NextGroup
  <2> QED
    BY <1>4, <2>2, <2>3
<1>8. \A i \in 1..n : Horaire!IsFirst(i)' <=> Horaire!IsFirst(i)
  BY <1>1, <1>2 DEF Horaire!IsFirst, Horaire!Between
<1>9. /\ \A i, j \in 1..n : Horaire!SameRow(i, j)' <=> Horaire!SameRow(i, j)
      /\ \A i \in 1..n : \A j : j = n + 1 /\ GoesOn(i) => Horaire!SameRow(i, j)'
  BY <1>1, <1>2 DEF Horaire!SameRow, Horaire!Between, Horaire!Are, GoesOn, RowKinds
<1>10. \A i, j \in 1..n : \A p : Horaire!StandsAt(i, j, p)' <=> Horaire!StandsAt(i, j, p)
  BY <1>2, <1>9 DEF Horaire!StandsAt, Horaire!Are
<1>11. ASSUME NEW i \in 1..n, Horaire!HeadingOf(i) # 0
       PROVE  /\ Horaire!GroupOf(i) \in 1..n /\ Horaire!HeadingOf(i) \in 1..n
              /\ horaire'[Horaire!GroupOf(i)'] = horaire[Horaire!GroupOf(i)]
              /\ horaire'[Horaire!HeadingOf(i)'] = horaire[Horaire!HeadingOf(i)]
  <2>1. i \in 1..(n + 1)
    BY <1>1
  <2>2. Horaire!GroupOf(i) \in 1..n /\ Horaire!HeadingOf(i) \in 1..n
    BY <1>1, <1>11, <2>1
  <2> QED
    BY <1>2, <1>6, <2>1, <2>2
<1>12. \A i \in 1..n : \A c, g : Horaire!Under(i, c, g) => Horaire!Under(i, c, g)'
  <2> SUFFICES ASSUME NEW i \in 1..n, NEW c, NEW g, Horaire!Under(i, c, g)
               PROVE  Horaire!Under(i, c, g)'
    OBVIOUS
  <2>1. Horaire!HeadingOf(i) # 0 /\ i \in 1..(n + 1)
    BY <1>1 DEF Horaire!Under
  <2> QED
    BY <1>6, <1>11, <2>1 DEF Horaire!Under, Horaire!Are
<1>13. \A c, gp : Placed(c, gp) => Placed(c, gp)'
  BY <1>1, <1>2, <1>3, <1>10, <1>12 DEF Placed
<1>14. \A i \in 1..n : \A gp : Horaire!HeadingOf(i) # 0 => (Shows(gp, i)' <=> Shows(gp, i))
  BY <1>2, <1>11 DEF Shows
<1>15. ASSUME NEW i \in 1..n, Counts(i)'
       PROVE  Counts(i)
  <2>1. i \in 1..(n + 1) /\ horaire'[i] = horaire[i]
    BY <1>1, <1>2
  <2>2. Horaire!HeadingOf(i) # 0 /\ horaire[i].kind \in {"day", "detail"}
    BY <1>6, <1>15, <2>1 DEF Counts
  <2>3. horaire[Horaire!GroupOf(i)].kind = "group"
    BY <1>11, <1>15, <2>2 DEF Counts
  <2>4. Horaire!Replaced(i) => Horaire!Replaced(i)'
    BY <1>1, <1>2, <1>3, <1>9 DEF Horaire!Replaced, Horaire!Are
  <2> QED
    BY <1>15, <2>2, <2>3, <2>4 DEF Counts
<1>16. \A i \in 1..n : GoesOn(i) /\ text.kind \notin RowKinds => GoesOn(i)'
  BY <1>1, <1>2, <1>3 DEF GoesOn
<1>17. \A i : i = n + 1 => /\ Horaire!HeadingOf(i)' = NextHeading
                           /\ Horaire!GroupOf(i)' = NextGroup
                           /\ GoesOn(i)'
  <2>1. \A i : i = n + 1 => i \in 1..(n + 1)
    BY <1>1
  <2>2. \A i : i = n + 1 => GoesOn(i)'
    BY <1>1, <1>2 DEF GoesOn
  <2> QED
    BY <1>1, <1>6, <2>1, <2>2
<1>18. \A i \in 1..n :
         (GoesOn(i) /\ horaire[i].kind = "detail" /\ text.kind = "detail") => ~Counts(i)'
  <2> SUFFICES ASSUME NEW i \in 1..n, GoesOn(i), horaire[i].kind = "detail", text.kind = "detail"
               PROVE  Horaire!Replaced(i)'
    BY DEF Counts
  <2>1. PICK j : j = n + 1
    OBVIOUS
  <2>2. j \in DOMAIN horaire' /\ i < j
    BY <1>1, <1>2, <2>1
  <2>3. Horaire!SameRow(i, j)' /\ horaire'[i].kind = "detail" /\ horaire'[j].kind = "detail"
    BY <1>2, <1>9, <2>1
  <2> QED
    BY <2>2, <2>3 DEF Horaire!Replaced, Horaire!Are
<1>19. \A i \in 1..n : Requires(i)' <=> Requires(i)
  BY <1>2 DEF Requires
<1>20. \A i \in 1..n : i \in 1..(n + 1)
  BY <1>1
<1> QED
  BY <1>2, <1>6, <1>7, <1>8, <1>9, <1>10, <1>13, <1>14, <1>15, <1>16, <1>17, <1>18, <1>19, <1>20
  DEF DocumentGrown

LEMMA TextIs ==
  ASSUME NEW t \in Horaire!Text
  PROVE  /\ t.kind = "code" => t = [kind |-> "code", is |-> t.is] /\ t.is \in Codes
         /\ t.kind = "group" => t.is \in Groups
         /\ t.kind = "day" => t.is \in Days
         /\ t.kind = "detail" => t.is \in Times
BY DEF Horaire!Text

LEMMA FirstIsFirst ==
  ASSUME horaire \in Seq(Horaire!Text), NEW h \in DOMAIN horaire, NEW k \in DOMAIN horaire,
         horaire[h].kind = "code", horaire[k].kind = "code", horaire[h].is = horaire[k].is,
         Horaire!IsFirst(h)
  PROVE  h <= k
<1>1. horaire[h] = horaire[k]
  <2>1. horaire[h] \in Horaire!Text /\ horaire[k] \in Horaire!Text
    OBVIOUS
  <2> QED
    BY <2>1, TextIs
<1>2. h \in Nat /\ k \in Nat /\ 0 < k
  OBVIOUS
<1> QED
  BY <1>1, <1>2 DEF Horaire!IsFirst, Horaire!Between

(* A list of courses stays what the document says of them: a text that     *)
(* comes stands under the heading left out.                                *)
LEMMA ListKept ==
  ASSUME horaire \in Seq(Horaire!Text), NEW n, n = Len(horaire), NEW text,
         DocumentGrown(n, text), NEW list, NEW open, ListOK(list, open), NEW next,
         \/ text.kind = "code" /\ open = 0 /\ next = n + 1
         \/ text.kind # "code" /\ open = NextHeading /\ next = open
  PROVE  ListOK(list, next)'
<1>1. /\ n \in Nat /\ DOMAIN horaire = 1..n /\ DOMAIN horaire' = 1..(n + 1)
      /\ \A i \in 1..n : horaire'[i] = horaire[i]
      /\ horaire'[n + 1] = text
      /\ \A i \in 1..n : /\ Horaire!HeadingOf(i)' = Horaire!HeadingOf(i)
                         /\ Horaire!IsFirst(i)' <=> Horaire!IsFirst(i)
                         /\ Requires(i)' <=> Requires(i)
                         /\ Horaire!HeadingOf(i) \in 0..(i - 1)
      /\ \A i : i = n + 1 => Horaire!HeadingOf(i)' = NextHeading
      /\ NextHeading \in 0..n
      /\ NextHeading # 0 => horaire[NextHeading].kind = "code"
      /\ \A k \in 1..n : horaire[k].kind = "code" => k <= NextHeading
  <2>1. n \in Nat /\ \A i \in 1..n : i \in 1..(n + 1)
    BY DocumentPlaces
  <2> QED
    BY <2>1, DocumentPlaces DEF DocumentGrown
<1>2. 1..(n + 1) = (1..n) \cup {n + 1} /\ n + 1 \notin 1..n
  BY <1>1
<1>3. /\ DOMAIN list \subseteq Codes
      /\ \A c \in Codes : c \in DOMAIN list <=>
           \E h \in 1..n : horaire[h].kind = "code" /\ horaire[h].is = c /\ h # open
      /\ \A c \in DOMAIN list : list[c] \in Horaire!Course
      /\ \A c \in DOMAIN list : \A gp \in list[c].periods : Placed(c, gp)
      /\ \A c \in DOMAIN list : list[c].prerequisites = Required(c)
      /\ \A i, h \in 1..n, c \in Codes :
           Counts(i) /\ Horaire!HeadingOf(i) = h /\ h # open /\ Horaire!IsFirst(h)
             /\ horaire[h].is = c
           => \E gp \in list[c].periods : Shows(gp, i)
  BY <1>1 DEF ListOK
<1>4. \A c \in Codes : c \in DOMAIN list <=>
        \E h \in 1..(n + 1) : horaire'[h].kind = "code" /\ horaire'[h].is = c /\ h # next
  <2> SUFFICES ASSUME NEW c \in Codes
               PROVE  c \in DOMAIN list <=>
                        \E h \in 1..(n + 1) :
                          horaire'[h].kind = "code" /\ horaire'[h].is = c /\ h # next
    OBVIOUS
  <2>1. c \in DOMAIN list <=>
          \E h \in 1..n : horaire[h].kind = "code" /\ horaire[h].is = c /\ h # open
    BY <1>3
  <2>2. CASE text.kind = "code" /\ open = 0 /\ next = n + 1
    BY <1>1, <1>2, <2>1, <2>2
  <2>3. CASE text.kind # "code" /\ next = open
    BY <1>1, <1>2, <2>1, <2>3
  <2> QED
    BY <2>2, <2>3
<1>5. ASSUME NEW c \in DOMAIN list
      PROVE  Required(c)' = Required(c)
  <2>1. ASSUME NEW j \in 1..n
        PROVE  Owes(j, c)' <=> Owes(j, c)
    <3>1. /\ Owes(j, c)' <=> /\ Requires(j)'
                             /\ \E h \in 1..(n + 1) : /\ Horaire!HeadingOf(j)' = h
                                                      /\ horaire'[h].is = c /\ Horaire!IsFirst(h)'
          /\ Owes(j, c) <=> /\ Requires(j)
                            /\ \E h \in 1..n : /\ Horaire!HeadingOf(j) = h
                                               /\ horaire[h].is = c /\ Horaire!IsFirst(h)
      BY <1>1 DEF Owes
    <3>2. Horaire!HeadingOf(j)' = Horaire!HeadingOf(j) /\ Horaire!HeadingOf(j) \in 0..(j - 1)
      BY <1>1
    <3> QED
      BY <1>1, <1>2, <3>1, <3>2
  <2>2. \A j : j = n + 1 => ~Owes(j, c)'
    <3> SUFFICES ASSUME NEW j, j = n + 1, Owes(j, c)'
                 PROVE  FALSE
      OBVIOUS
    <3>1. /\ Requires(j)'
          /\ \E h \in 1..(n + 1) : /\ Horaire!HeadingOf(j)' = h
                                   /\ horaire'[h].is = c /\ Horaire!IsFirst(h)'
      BY <1>1 DEF Owes
    <3>2. text.kind = "prerequisites" /\ open = NextHeading
      <4>1. horaire'[j].kind = "prerequisites"
        BY <3>1 DEF Requires
      <4> QED
        BY <1>1, <4>1
    <3>3. PICK h \in 1..n : h = NextHeading /\ horaire[h].is = c /\ Horaire!IsFirst(h)
      BY <1>1, <3>1
    <3>4. PICK k \in 1..n : horaire[k].kind = "code" /\ horaire[k].is = c /\ k # h
      BY <1>3, <3>2, <3>3
    <3>5. k <= h /\ horaire[h].kind = "code"
      BY <1>1, <3>3, <3>4
    <3>6. h <= k
      BY <1>1, <3>3, <3>4, <3>5, FirstIsFirst
    <3> QED
      BY <3>4, <3>5, <3>6
  <2>3. Required(c)' = {horaire'[i].is : i \in {j \in 1..(n + 1) : Owes(j, c)'}}
    BY <1>1 DEF Required
  <2>4. Required(c) = {horaire[i].is : i \in {j \in 1..n : Owes(j, c)}}
    BY <1>1 DEF Required
  <2>5. {j \in 1..(n + 1) : Owes(j, c)'} = {j \in 1..n : Owes(j, c)}
    BY <1>2, <2>1, <2>2
  <2> QED
    BY <1>1, <2>3, <2>4, <2>5
<1>6. ASSUME NEW i \in 1..(n + 1), NEW h \in 1..(n + 1), NEW c \in Codes,
             Counts(i)', Horaire!HeadingOf(i)' = h, h # next, Horaire!IsFirst(h)',
             horaire'[h].is = c
      PROVE  \E gp \in list[c].periods : Shows(gp, i)'
  <2>1. i \in 1..n
    <3> SUFFICES ASSUME i = n + 1
                 PROVE  FALSE
      BY <1>2
    <3>1. h = NextHeading
      BY <1>1, <1>6
    <3>2. text.kind # "code"
      <4>1. horaire'[i].kind \in {"day", "detail"}
        BY <1>6 DEF Counts
      <4> QED
        BY <1>1, <4>1
    <3> QED
      BY <1>6, <3>1, <3>2
  <2>2. h \in 1..n /\ Horaire!HeadingOf(i) = h /\ h # 0
    BY <1>1, <1>6, <2>1
  <2>3. Counts(i) /\ Horaire!IsFirst(h) /\ horaire[h].is = c
    BY <1>1, <1>6, <2>1, <2>2 DEF DocumentGrown
  <2>4. h # open
    BY <1>6, <2>2
  <2>5. PICK gp \in list[c].periods : Shows(gp, i)
    BY <1>3, <2>1, <2>2, <2>3, <2>4
  <2>6. Shows(gp, i)'
    BY <2>1, <2>2, <2>5 DEF DocumentGrown
  <2> QED
    BY <2>5, <2>6
<1>7. \A c \in DOMAIN list : \A gp \in list[c].periods : Placed(c, gp)'
  BY <1>3 DEF DocumentGrown
<1>8. \A c \in DOMAIN list : list[c].prerequisites = Required(c)'
  BY <1>3, <1>5
<1>9. DOMAIN list \subseteq Codes /\ \A c \in DOMAIN list : list[c] \in Horaire!Course
  BY <1>3
<1>10. DOMAIN horaire' = 1..(n + 1)
  BY <1>1
<1> QED
  BY ONLY <1>4, <1>6, <1>7, <1>8, <1>9, <1>10 DEF ListOK

(* A course that is complete: all that stands under the last heading.      *)
Complete(new) ==
  /\ new \in Horaire!Course
  /\ new.code = IF NextHeading = 0 THEN None ELSE horaire[NextHeading].is
  /\ new.prerequisites = Gathered
  /\ \A c \in Codes : c = new.code => \A gp \in new.periods : Placed(c, gp)
  /\ \A i \in DOMAIN horaire :
       Counts(i) /\ Horaire!HeadingOf(i) = NextHeading => \E gp \in new.periods : Shows(gp, i)

LEMMA Completes ==
  ASSUME horaire \in Seq(Horaire!Text), CourseHeld, PeriodsHeld, NEW new, new = Horaire!Finalized
  PROVE  Complete(new)
<1> PICK n : n = Len(horaire)
  OBVIOUS
<1>1. /\ n \in Nat /\ DOMAIN horaire = 1..n /\ \A i \in 1..n : horaire[i] \in Horaire!Text
      /\ NextHeading \in 0..n /\ NextGroup \in 0..n /\ NextHeading <= NextGroup
      /\ \A i \in 1..n : Horaire!GroupOf(i) \in Nat /\ Horaire!HeadingOf(i) <= Horaire!GroupOf(i)
                         /\ Horaire!HeadingOf(i) \in Nat
  <2>1. n \in Nat /\ \A i \in 1..n : i \in 1..(n + 1)
    BY DocumentPlaces
  <2> QED
    BY <2>1, DocumentPlaces
<1>2. \A i \in 1..n : Counts(i) /\ Horaire!GroupOf(i) = NextGroup =>
        NextGroup # 0 /\ group = horaire[NextGroup].is /\ group \in Groups /\ group # None
  <2> SUFFICES ASSUME NEW i \in 1..n, Counts(i), Horaire!GroupOf(i) = NextGroup
               PROVE  NextGroup # 0 /\ group = horaire[NextGroup].is /\ group \in Groups
                 /\ group # None
    OBVIOUS
  <2>1. NextGroup \in 1..n /\ horaire[NextGroup].kind = "group"
    BY <1>1 DEF Counts
  <2>2. horaire[NextGroup].is \in Groups
    BY <1>1, <2>1, TextIs
  <2> QED
    BY <2>1, <2>2, NoneAssumption DEF PeriodsHeld
<1>3. \A i \in 1..n : Counts(i) =>
        horaire[i].is # None /\ (horaire[i].kind = "day" \/ horaire[i].kind = "detail")
  BY <1>1, TextIs, NoneAssumption DEF Counts
<1>4. DOMAIN periods = 1..Len(periods) /\ Len(periods) \in Nat
      /\ \A k \in 1..Len(periods) : periods[k] \in Horaire!Period
  BY DEF PeriodsHeld
<1>5. \A i \in 1..n : Counts(i) /\ Held(i) =>
        \E k \in 1..Len(periods) : /\ periods[k] # Horaire!Empty
                                   /\ horaire[i].is \in {periods[k].day, periods[k].detail}
  BY <1>3, <1>4 DEF Held, Horaire!Empty
<1>6. CASE group = None \/ periods = <<>> \/ Horaire!LastOf(periods) = Horaire!Empty
  <2>1. new = course
    BY <1>6 DEF Horaire!Finalized
  <2>2. \A i \in 1..n : ~(Counts(i) /\ Horaire!GroupOf(i) = NextGroup /\ Held(i))
    <3> SUFFICES ASSUME NEW i \in 1..n, Counts(i), Horaire!GroupOf(i) = NextGroup, Held(i)
                 PROVE  FALSE
      OBVIOUS
    <3>1. PICK k \in 1..Len(periods) : periods[k] # Horaire!Empty
      BY <1>5
    <3>2. periods # <<>> /\ group # None
      BY <1>2, <1>4, <3>1
    <3>3. periods[Len(periods)] = Horaire!Empty /\ Len(periods) \in 1..Len(periods)
      BY <1>4, <1>6, <3>1, <3>2 DEF Horaire!LastOf
    <3>4. Len(periods) = 1
      BY <1>4, <3>3 DEF PeriodsHeld
    <3> QED
      BY <3>1, <3>3, <3>4
  <2> QED
    BY <1>1, <2>1, <2>2 DEF CourseHeld, Complete
<1>7. CASE ~(group = None \/ periods = <<>> \/ Horaire!LastOf(periods) = Horaire!Empty)
  <2> DEFINE added == Horaire!AddedPeriods
  <2>1. new = [course EXCEPT !.groups = @ \cup {group}, !.periods = @ \cup added]
    BY <1>7 DEF Horaire!Finalized, Horaire!FinalizedGroup
  <2>2. /\ \A gp \in added : \E k \in 1..Len(periods) :
              gp = <<group, periods[k]>> /\ periods[k] # Horaire!Empty
        /\ \A k \in 1..Len(periods) :
              periods[k] # Horaire!Empty => <<group, periods[k]>> \in added
    BY <1>4 DEF Horaire!AddedPeriods
  <2>3. NextGroup \in 1..n /\ horaire[NextGroup].kind = "group" /\ group = horaire[NextGroup].is
        /\ group \in Groups
    <3>1. NextGroup \in 1..n /\ horaire[NextGroup].kind = "group" /\ group = horaire[NextGroup].is
      BY <1>1, <1>7 DEF PeriodsHeld
    <3> QED
      BY <1>1, <3>1, TextIs
  <2> HIDE DEF added
  <2>4. added \in SUBSET (Groups \X (Horaire!Period \ {Horaire!Empty}))
    BY <1>4, <2>2, <2>3
  <2>5. /\ new \in Horaire!Course /\ new.code = course.code
        /\ new.prerequisites = course.prerequisites /\ new.periods = course.periods \cup added
    <3> DEFINE gs == course.groups \cup {group}
               ps == course.periods \cup added
    <3>1. course \in Horaire!Course
      BY DEF CourseHeld
    <3>2. gs \in SUBSET Groups
      BY <2>3, <3>1 DEF Horaire!Course
    <3>3. ps \in SUBSET (Groups \X (Horaire!Period \ {Horaire!Empty}))
      <4>1. course.periods \in SUBSET (Groups \X (Horaire!Period \ {Horaire!Empty}))
        BY <3>1 DEF Horaire!Course
      <4> QED
        BY <2>4, <4>1
    <3>4. new = [course EXCEPT !.groups = gs, !.periods = ps]
      BY <2>1
    <3> HIDE DEF gs
    <3>5. new \in Horaire!Course /\ new.periods = ps
          /\ new.code = course.code /\ new.prerequisites = course.prerequisites
      <4> HIDE DEF ps
      <4> QED
        BY <3>1, <3>2, <3>3, <3>4 DEF Horaire!Course
    <3> QED
      BY <3>5
  <2>6. ASSUME NEW c \in Codes, c = course.code, NEW gp \in added
        PROVE  Placed(c, gp)
    <3>1. PICK k \in 1..Len(periods) : gp = <<group, periods[k]>> /\ periods[k] # Horaire!Empty
      BY <2>2
    <3>2. NextHeading # 0 /\ horaire[NextHeading].is = c
      BY <2>6, NoneAssumption DEF CourseHeld
    <3>3. PICK p : p = periods[k]
      OBVIOUS
    <3>4. PICK i, j \in 1..n :
            /\ Horaire!HeadingOf(i) = NextHeading /\ Horaire!GroupOf(i) = NextGroup
            /\ Horaire!StandsAt(i, j, p)
      BY <1>1, <1>4, <3>1, <3>3 DEF PeriodsHeld
    <3>5. Horaire!Under(i, c, group)
      BY <2>3, <3>2, <3>4 DEF Horaire!Under, Horaire!Are
    <3>6. gp[1] = group /\ gp[2] = p
      BY <3>1, <3>3
    <3> QED
      BY <1>1, <3>4, <3>5, <3>6 DEF Placed
  <2>7. ASSUME NEW i \in 1..n, Counts(i), Horaire!HeadingOf(i) = NextHeading
        PROVE  \E gp \in new.periods : Shows(gp, i)
    <3>1. CASE \E gp \in course.periods : Shows(gp, i)
      BY <2>5, <3>1
    <3>2. CASE Horaire!GroupOf(i) = NextGroup /\ Held(i)
      <4>1. PICK k \in 1..Len(periods) : /\ periods[k] # Horaire!Empty
                                         /\ horaire[i].is \in {periods[k].day, periods[k].detail}
        BY <1>5, <2>7, <3>2
      <4>2. PICK gp \in added : gp = <<group, periods[k]>>
        BY <2>2, <4>1
      <4>3. Shows(gp, i)
        BY <2>3, <3>2, <4>1, <4>2 DEF Shows
      <4> QED
        BY <2>5, <4>3
    <3> QED
      BY <1>1, <2>7, <3>1, <3>2 DEF CourseHeld
  <2>8. \A c \in Codes : c = course.code => \A gp \in course.periods : Placed(c, gp)
    BY DEF CourseHeld
  <2> QED
    BY <1>1, <2>5, <2>6, <2>7, <2>8 DEF CourseHeld, Complete
<1> QED
  BY <1>6, <1>7

LEMMA CourseListed ==
  ASSUME horaire \in Seq(Horaire!Text), ListOK(horaireCourses, NextHeading),
         NEW new, Complete(new), NEW list, list = Horaire!AddOrUpdated(new)
  PROVE  ListOK(list, 0)
<1> PICK n, old, open : n = Len(horaire) /\ old = horaireCourses /\ open = NextHeading
  OBVIOUS
<1>1. /\ n \in Nat /\ DOMAIN horaire = 1..n /\ \A i \in 1..n : horaire[i] \in Horaire!Text
      /\ open \in 0..n /\ (open # 0 => horaire[open].kind = "code")
      /\ \A i \in 1..n : Horaire!HeadingOf(i) # 0 => horaire[Horaire!HeadingOf(i)].kind = "code"
      /\ \A k \in 1..n : horaire[k].kind = "code" => k <= open
  <2>1. n \in Nat /\ \A i \in 1..n : i \in 1..(n + 1)
    BY DocumentPlaces
  <2> QED
    BY <2>1, DocumentPlaces
<1>2. /\ DOMAIN old \subseteq Codes
      /\ \A c \in Codes : c \in DOMAIN old <=>
           \E h \in 1..n : horaire[h].kind = "code" /\ horaire[h].is = c /\ h # open
      /\ \A c \in DOMAIN old : old[c] \in Horaire!Course
      /\ \A c \in DOMAIN old : \A gp \in old[c].periods : Placed(c, gp)
      /\ \A c \in DOMAIN old : old[c].prerequisites = Required(c)
      /\ \A i, h \in 1..n, c \in Codes :
           Counts(i) /\ Horaire!HeadingOf(i) = h /\ h # open /\ Horaire!IsFirst(h)
             /\ horaire[h].is = c
           => \E gp \in old[c].periods : Shows(gp, i)
  BY <1>1 DEF ListOK
<1>3. /\ new \in Horaire!Course
      /\ new.code = IF open = 0 THEN None ELSE horaire[open].is
      /\ new.prerequisites = Gathered
      /\ \A c \in Codes : c = new.code => \A gp \in new.periods : Placed(c, gp)
      /\ \A i \in 1..n :
           Counts(i) /\ Horaire!HeadingOf(i) = open => \E gp \in new.periods : Shows(gp, i)
  BY <1>1 DEF Complete
<1>4. CASE open = 0
  <2>1. list = old
    BY <1>3, <1>4 DEF Horaire!AddOrUpdated
  <2>2. open = 0 => ListOK(old, 0)
    BY <1>1, <1>2 DEF ListOK
  <2> QED
    BY <1>4, <2>1, <2>2
<1>5. CASE open # 0
  <2> PICK c0 : c0 = horaire[open].is
    OBVIOUS
  <2>1. open \in 1..n /\ horaire[open].kind = "code" /\ c0 \in Codes /\ c0 # None /\ new.code = c0
    <3>1. open \in 1..n /\ horaire[open].kind = "code" /\ new.code = c0
      BY <1>1, <1>3, <1>5
    <3>2. horaire[open] \in Horaire!Text
      BY <1>1, <3>1
    <3>3. c0 \in Codes
      BY <3>1, <3>2, TextIs
    <3> QED
      BY <3>1, <3>3, NoneAssumption
  <2>2. \A c \in Codes : (c \in DOMAIN old \/ c = c0) <=>
          \E h \in 1..n : horaire[h].kind = "code" /\ horaire[h].is = c /\ h # 0
    BY <1>1, <1>2, <2>1
  <2>3. CASE c0 \notin DOMAIN old
    <3>1. list = [c \in DOMAIN old \cup {c0} |-> IF c = c0 THEN new ELSE old[c]]
      BY <2>1, <2>3 DEF Horaire!AddOrUpdated
    <3>2. /\ DOMAIN list = DOMAIN old \cup {c0} /\ list[c0] = new
          /\ \A c \in DOMAIN old : list[c] = old[c] /\ c # c0
      BY <2>3, <3>1
    <3>3. Required(c0) = new.prerequisites
      <4>1. \A h \in 1..n : horaire[h].kind = "code" /\ horaire[h].is = c0 => h = open
        BY <1>2, <2>1, <2>3
      <4>2. Horaire!IsFirst(open)
        BY <1>1, <2>1, <4>1 DEF Horaire!IsFirst, Horaire!Between
      <4>3. \A j \in 1..n : Owes(j, c0) <=> Requires(j) /\ Horaire!HeadingOf(j) = NextHeading
        BY <1>1, <2>1, <4>1, <4>2 DEF Owes
      <4>4. {j \in DOMAIN horaire : Owes(j, c0)}
              = {j \in DOMAIN horaire : Requires(j) /\ Horaire!HeadingOf(j) = NextHeading}
        BY <1>1, <4>3
      <4> QED
        BY <1>3, <4>4 DEF Required, Gathered
    <3>4. ASSUME NEW i \in 1..n, NEW h \in 1..n, NEW c \in Codes, Counts(i),
                 Horaire!HeadingOf(i) = h, Horaire!IsFirst(h), horaire[h].is = c
          PROVE  \E gp \in list[c].periods : Shows(gp, i)
      <4>1. CASE h = open
        BY <1>3, <2>1, <3>2, <3>4, <4>1
      <4>2. CASE h # open
        <5>1. horaire[h].kind = "code"
          BY <1>1, <3>4
        <5>2. c \in DOMAIN old
          BY <1>2, <3>4, <4>2, <5>1
        <5> QED
          BY <1>2, <3>2, <3>4, <4>2, <5>2
      <4> QED
        BY <4>1, <4>2
    <3>5. DOMAIN list \subseteq Codes /\ \A c \in DOMAIN list : list[c] \in Horaire!Course
      BY <1>2, <1>3, <2>1, <3>2
    <3>6. \A c \in DOMAIN list : \A gp \in list[c].periods : Placed(c, gp)
      BY <1>2, <1>3, <2>1, <3>2
    <3>7. \A c \in DOMAIN list : list[c].prerequisites = Required(c)
      BY <1>2, <3>2, <3>3
    <3> QED
      BY <1>1, <2>2, <3>2, <3>4, <3>5, <3>6, <3>7 DEF ListOK
  <2>4. CASE c0 \in DOMAIN old
    <3> DEFINE was  == old[c0]
               gs   == was.groups \cup new.groups
               more == {gp \in new.periods : gp[1] \in was.groups}
               ps   == was.periods \cup more
               now  == [was EXCEPT !.groups = gs, !.periods = ps]
    <3>1. list = [old EXCEPT ![c0] = now]
      BY <2>1, <2>4 DEF Horaire!AddOrUpdated
    <3>2. was \in Horaire!Course /\ was = old[c0]
      BY <1>2, <2>4
    <3>3. now \in Horaire!Course /\ now.periods = ps /\ now.prerequisites = was.prerequisites
      <4>1. gs \in SUBSET Groups
        BY <1>3, <3>2 DEF Horaire!Course
      <4>2. ps \in SUBSET (Groups \X (Horaire!Period \ {Horaire!Empty}))
        <5>1. /\ was.periods \in SUBSET (Groups \X (Horaire!Period \ {Horaire!Empty}))
              /\ new.periods \in SUBSET (Groups \X (Horaire!Period \ {Horaire!Empty}))
          BY <1>3, <3>2 DEF Horaire!Course
        <5> QED
          BY <5>1
      <4> HIDE DEF was, gs, ps
      <4> QED
        BY <3>2, <4>1, <4>2 DEF Horaire!Course
    <3>4. was.periods \subseteq ps /\ \A gp \in ps : gp \in was.periods \/ gp \in new.periods
      OBVIOUS
    <3> HIDE DEF was, gs, more, ps, now
    <3>5. /\ DOMAIN list = DOMAIN old /\ list[c0] = now
          /\ \A c \in DOMAIN old : c # c0 => list[c] = old[c]
      BY <2>4, <3>1
    <3>6. \A c \in DOMAIN list : \A gp \in list[c].periods : Placed(c, gp)
      <4> SUFFICES ASSUME NEW c \in DOMAIN old, NEW gp \in list[c].periods
                   PROVE  Placed(c, gp)
        BY <3>5
      <4>1. CASE c = c0
        BY <1>2, <1>3, <2>1, <2>4, <3>2, <3>3, <3>4, <3>5, <4>1
      <4>2. CASE c # c0
        BY <1>2, <3>5, <4>2
      <4> QED
        BY <4>1, <4>2
    <3>7. ASSUME NEW i \in 1..n, NEW h \in 1..n, NEW c \in Codes, Counts(i),
                 Horaire!HeadingOf(i) = h, Horaire!IsFirst(h), horaire[h].is = c
          PROVE  \E gp \in list[c].periods : Shows(gp, i)
      <4>1. horaire[h].kind = "code" /\ h <= open
        BY <1>1, <3>7
      <4>2. h # open
        <5> SUFFICES ASSUME h = open
                     PROVE  FALSE
          OBVIOUS
        <5>1. PICK k \in 1..n : horaire[k].kind = "code" /\ horaire[k].is = c0 /\ k # open
          BY <1>2, <2>1, <2>4
        <5>2. horaire[h].is = horaire[k].is /\ h \in DOMAIN horaire /\ k \in DOMAIN horaire
          BY <1>1, <5>1
        <5>3. h <= k
          BY <3>7, <4>1, <5>1, <5>2, FirstIsFirst
        <5>4. k <= open
          BY <1>1, <5>1
        <5> QED
          BY <5>1, <5>3, <5>4
      <4>3. c \in DOMAIN old
        BY <1>2, <3>7, <4>1, <4>2
      <4>4. PICK gp \in old[c].periods : Shows(gp, i)
        BY <1>2, <3>7, <4>2
      <4>5. gp \in list[c].periods
        BY <3>2, <3>3, <3>4, <3>5, <4>3, <4>4
      <4> QED
        BY <4>4, <4>5
    <3>8. DOMAIN list \subseteq Codes /\ \A c \in DOMAIN list : list[c] \in Horaire!Course
      BY <1>2, <3>3, <3>5
    <3>9. \A c \in DOMAIN list : list[c].prerequisites = Required(c)
      BY <1>2, <3>2, <3>3, <3>5
    <3>10. \A c \in Codes : c \in DOMAIN list <=>
             \E h \in 1..n : horaire[h].kind = "code" /\ horaire[h].is = c /\ h # 0
      BY <2>2, <2>4, <3>5
    <3> QED
      BY <1>1, <3>6, <3>7, <3>8, <3>9, <3>10 DEF ListOK
  <2> QED
    BY <2>3, <2>4
<1> QED
  BY <1>4, <1>5

LEMMA DocumentReads ==
  ASSUME horaire \in Seq(Horaire!Text), NEW kind, NEW is, Horaire!Reads(kind, is),
         NEW text \in Horaire!Text, text = [kind |-> kind, is |-> is], NEW n, n = Len(horaire)
  PROVE  /\ ~horaireDone /\ n \in Nat /\ DocumentGrown(n, text) /\ text.kind = kind /\ text.is = is
         /\ horaire' \in Seq(Horaire!Text) /\ horaire' # <<>> /\ Len(horaire') = n + 1
         /\ horaire'[Len(horaire')].kind = kind
<1>1. ~horaireDone /\ horaire' = Append(horaire, text) /\ text.kind = kind /\ text.is = is
  BY DEF Horaire!Reads
<1>2. DocumentGrown(n, text) /\ horaire' \in Seq(Horaire!Text) /\ Len(horaire') = n + 1 /\ n \in Nat
  BY <1>1, DocumentGrows
<1>3. horaire'[n + 1] = text
  BY <1>2 DEF DocumentGrown
<1> QED
  BY <1>1, <1>2, <1>3

LEMMA GatheredGrows ==
  ASSUME horaire \in Seq(Horaire!Text), NEW n, n = Len(horaire), NEW text, DocumentGrown(n, text)
  PROVE  Gathered' = IF text.kind = "code" THEN {}
                     ELSE IF text.kind = "prerequisites" THEN Gathered \cup {text.is} ELSE Gathered
<1> DEFINE of == {j \in 1..n : Requires(j) /\ Horaire!HeadingOf(j) = NextHeading}
           now == {j \in 1..(n + 1) : Requires(j)' /\ Horaire!HeadingOf(j)' = NextHeading'}
<1>1. /\ n \in Nat /\ DOMAIN horaire = 1..n /\ 1..(n + 1) = (1..n) \cup {n + 1} /\ n + 1 \notin 1..n
      /\ \A j \in 1..n : Horaire!HeadingOf(j) # n + 1
      /\ NextHeading # n + 1
  <2> HIDE DEF of, now
  <2>1. n \in Nat /\ DOMAIN horaire = 1..n /\ NextHeading \in 0..n
    BY DocumentPlaces
  <2>2. \A j \in 1..(n + 1) : Horaire!HeadingOf(j) \in 0..(j - 1)
    BY DocumentPlaces
  <2>3. \A j \in 1..n : j \in 1..(n + 1) /\ n + 1 \notin 0..(j - 1) /\ n + 1 \notin 0..n
    BY <2>1
  <2>4. \A j \in 1..n : Horaire!HeadingOf(j) # n + 1
    BY <2>2, <2>3
  <2>5. NextHeading # n + 1 /\ 1..(n + 1) = (1..n) \cup {n + 1} /\ n + 1 \notin 1..n
    BY <2>1
  <2> QED
    BY <2>1, <2>4, <2>5
<1>2. /\ Gathered = {horaire[i].is : i \in of}
      /\ Gathered' = {horaire'[i].is : i \in now}
  BY <1>1 DEF Gathered, DocumentGrown
<1>3. /\ horaire'[n + 1] = text /\ \A i \in 1..n : horaire'[i] = horaire[i]
      /\ \A j \in 1..n : (Requires(j)' <=> Requires(j))
         /\ Horaire!HeadingOf(j)' = Horaire!HeadingOf(j)
      /\ \A j : j = n + 1 => (Requires(j)' <=> text.kind = "prerequisites")
                             /\ Horaire!HeadingOf(j)' = NextHeading
      /\ NextHeading' = IF text.kind = "code" THEN n + 1 ELSE NextHeading
  BY DEF DocumentGrown, Requires
<1>4. CASE text.kind = "code"
  <2>1. now = {}
    BY <1>1, <1>3, <1>4
  <2> QED
    BY <1>2, <1>4, <2>1
<1>5. CASE text.kind = "prerequisites"
  <2>1. now = of \cup {n + 1}
    BY <1>1, <1>3, <1>5
  <2> QED
    BY <1>2, <1>3, <1>5, <2>1
<1>6. CASE text.kind # "code" /\ text.kind # "prerequisites"
  <2>1. now = of
    BY <1>1, <1>3, <1>6
  <2> QED
    BY <1>2, <1>3, <1>6, <2>1
<1> QED
  BY <1>4, <1>5, <1>6

(* The course that is read goes on: what is not stored of it waits on this *)
(* page.                                                                   *)
LEMMA CourseGoesOn ==
  ASSUME horaire \in Seq(Horaire!Text), NEW n, n = Len(horaire), NEW text,
         DocumentGrown(n, text), text.kind # "code",
         NEW new \in Horaire!Course, course' = new,
         new.code = IF NextHeading = 0 THEN None ELSE horaire[NextHeading].is,
         new.prerequisites = Gathered',
         \A c \in Codes : c = new.code => \A gp \in new.periods : Placed(c, gp),
         \A i \in 1..n : Counts(i)' /\ Horaire!HeadingOf(i) = NextHeading =>
           \/ \E gp \in new.periods : Shows(gp, i)
           \/ Horaire!GroupOf(i) = NextGroup' /\ Held(i)',
         \A i : i = n + 1 /\ Counts(i)' => NextGroup' = NextGroup /\ Held(i)'
  PROVE  CourseHeld'
<1>1. /\ n \in Nat /\ 1..(n + 1) = (1..n) \cup {n + 1}
      /\ NextHeading \in 0..n
      /\ \A i \in 1..n : Horaire!HeadingOf(i) \in Nat
  <2>1. n \in Nat /\ \A j \in 1..n : j \in 1..(n + 1)
    BY DocumentPlaces
  <2> QED
    BY <2>1, DocumentPlaces
<1>2. /\ DOMAIN horaire' = 1..(n + 1) /\ NextHeading' = NextHeading
      /\ \A i \in 1..n : horaire'[i] = horaire[i]
  BY DEF DocumentGrown
<1>3. new.code = IF NextHeading' = 0 THEN None ELSE horaire'[NextHeading'].is
  BY <1>1, <1>2
<1>4. \A c \in Codes : c = new.code => \A gp \in new.periods : Placed(c, gp)'
  BY DEF DocumentGrown
<1>5. ASSUME NEW i \in 1..(n + 1), Counts(i)', Horaire!HeadingOf(i)' = NextHeading'
      PROVE  \/ \E gp \in new.periods : Shows(gp, i)'
             \/ Horaire!GroupOf(i)' = NextGroup' /\ Held(i)'
  <2>1. CASE i = n + 1
    <3>1. Horaire!GroupOf(i)' = NextGroup
      BY <2>1 DEF DocumentGrown
    <3> QED
      BY <1>5, <2>1, <3>1
  <2>2. CASE i \in 1..n
    <3>1. /\ Horaire!HeadingOf(i) = NextHeading /\ Horaire!GroupOf(i)' = Horaire!GroupOf(i)
          /\ Counts(i)
      BY <1>2, <1>5, <2>2 DEF DocumentGrown
    <3>2. Horaire!HeadingOf(i) # 0
      BY <3>1 DEF Counts
    <3>3. \A gp : Shows(gp, i)' <=> Shows(gp, i)
      BY <2>2, <3>2 DEF DocumentGrown
    <3>4. \/ \E gp \in new.periods : Shows(gp, i)
          \/ Horaire!GroupOf(i) = NextGroup' /\ Held(i)'
      BY <1>5, <2>2, <3>1
    <3> QED
      BY <3>1, <3>3, <3>4
  <2> QED
    BY <1>1, <2>1, <2>2
<1> QED
  BY <1>2, <1>3, <1>4, <1>5 DEF CourseHeld

(* With no period on the page, the group decides.                          *)
LEMMA PeriodsBegin ==
  ASSUME horaire \in Seq(Horaire!Text), NEW n, n = Len(horaire), NEW text,
         DocumentGrown(n, text), PeriodsHeld, periods' = <<>>,
         group' = IF text.kind = "group" THEN text.is ELSE IF text.kind = "code" THEN None
           ELSE group
  PROVE  PeriodsHeld'
<1>1. n \in Nat /\ NextGroup \in 0..n
  BY DocumentPlaces
<1>2. /\ horaire'[n + 1] = text /\ \A i \in 1..n : horaire'[i] = horaire[i]
      /\ NextGroup' = IF text.kind \in {"code", "group"} THEN n + 1 ELSE NextGroup
  BY DEF DocumentGrown
<1>3. group' = IF NextGroup' # 0 /\ horaire'[NextGroup'].kind = "group" THEN horaire'[NextGroup'].is
               ELSE None
  <2>1. CASE text.kind \in {"code", "group"}
    BY <1>1, <1>2, <2>1
  <2>2. CASE text.kind \notin {"code", "group"}
    BY <1>1, <1>2, <2>2 DEF PeriodsHeld
  <2> QED
    BY <2>1, <2>2
<1>4. periods' \in Seq(Horaire!Period) /\ DOMAIN periods' = {}
  OBVIOUS
<1> QED
  BY <1>3, <1>4 DEF PeriodsHeld

(* Where a text of a period goes: to place m, the last one, before which   *)
(* nothing changes.                                                        *)
FilledAt(filled, m, kind, text) ==
  /\ filled \in Seq(Horaire!Period) /\ Len(filled) = m /\ m \in Nat \ {0}
  /\ \A k \in 1..(m - 1) :
       k \in DOMAIN periods /\ filled[k] = periods[k] /\ periods[k] # Horaire!Empty
  /\ \A k \in DOMAIN periods :
       periods[k] # Horaire!Empty => k < m \/ (kind # "day" /\ k = m /\ m = Len(periods))
  /\ m \in {Len(periods), Len(periods) + 1}
  /\ m = Len(periods) + 1 /\ kind # "day" => m = 1
  /\ kind = "day" => filled[m] = [day |-> text, detail |-> None]
  /\ kind = "detail" =>
       filled[m] = [day |-> IF m = Len(periods) THEN periods[m].day ELSE None, detail |-> text]
  /\ kind = "other" => filled[m] = IF m = Len(periods) THEN periods[m] ELSE Horaire!Empty

LEMMA FilledIs ==
  ASSUME PeriodsHeld, NEW kind \in {"day", "detail", "other"}, NEW text,
         kind = "day" => text \in Days, kind = "detail" => text \in Times,
         NEW filled, filled = Horaire!Filled(kind, text)
  PROVE  \E m : FilledAt(filled, m, kind, text)
<1> PICK q, old : q = Len(periods) /\ old = periods
  OBVIOUS
<1>1. /\ old \in Seq(Horaire!Period) /\ q \in Nat /\ DOMAIN old = 1..q /\ Len(old) = q
      /\ \A k \in 1..q : old[k] \in Horaire!Period
      /\ \A k \in 1..q : old[k] = Horaire!Empty => q = 1
      /\ q = 0 <=> old = <<>>
  BY DEF PeriodsHeld
<1> DEFINE begun == Horaire!Begun(kind)
           new == q = 0 \/ (kind = "day" /\ old[q] # Horaire!Empty)
           m == IF new THEN q + 1 ELSE q
<1>2. /\ Horaire!Empty \in Horaire!Period /\ Horaire!Empty = [day |-> None, detail |-> None]
      /\ \A p \in Horaire!Period : p = [day |-> p.day, detail |-> p.detail]
                                   /\ p.day \in Days \cup {None} /\ p.detail \in Times \cup {None}
  BY DEF Horaire!Empty, Horaire!Period
<1>3. begun = IF new THEN Append(old, Horaire!Empty) ELSE old
  BY <1>1 DEF Horaire!Begun, Horaire!LastOf
<1>4. m \in Nat \ {0} /\ m \in {q, q + 1} /\ (m = q => ~new /\ m \in 1..q) /\ (new <=> m = q + 1)
  BY <1>1
<1>5. /\ begun \in Seq(Horaire!Period) /\ Len(begun) = m
      /\ \A k \in 1..(m - 1) : k \in 1..q /\ begun[k] = old[k]
      /\ begun[m] = IF m = q THEN old[m] ELSE Horaire!Empty
  BY <1>1, <1>2, <1>3, <1>4
<1>6. /\ \A k \in 1..(m - 1) : old[k] # Horaire!Empty
      /\ \A k \in 1..q : old[k] # Horaire!Empty => k < m \/ (kind # "day" /\ k = m /\ m = q)
      /\ m = q + 1 /\ kind # "day" => m = 1
      /\ kind = "day" /\ m = q => old[m] = Horaire!Empty
  BY <1>1, <1>4, <1>5
<1> HIDE DEF begun, new, m
<1>7. begun[m] \in Horaire!Period
  BY <1>4, <1>5
<1>8. /\ kind = "day" => filled = [begun EXCEPT ![m].day = text]
      /\ kind = "detail" => filled = [begun EXCEPT ![m].detail = text]
      /\ kind = "other" => filled = begun
  BY <1>5 DEF Horaire!Filled, begun
<1> DEFINE last == IF kind = "day" THEN [begun[m] EXCEPT !.day = text]
                   ELSE IF kind = "detail" THEN [begun[m] EXCEPT !.detail = text] ELSE begun[m]
<1>9. last \in Horaire!Period
  BY <1>7 DEF Horaire!Period
<1>10. filled = [begun EXCEPT ![m] = last]
  BY <1>4, <1>5, <1>8
<1>11. /\ kind = "day" => last = [day |-> text, detail |-> None]
       /\ kind = "detail" =>
            last = [day |-> IF m = q THEN old[m].day ELSE None, detail |-> text]
       /\ kind = "other" => last = IF m = q THEN old[m] ELSE Horaire!Empty
  <2>1. begun[m] = [day |-> begun[m].day, detail |-> begun[m].detail]
    BY <1>2, <1>7
  <2>2. kind = "day" => begun[m] = Horaire!Empty
    BY <1>5, <1>6
  <2>3. CASE kind = "day"
    BY <1>2, <2>2, <2>3
  <2>4. CASE kind = "detail"
    <3>1. last = [day |-> begun[m].day, detail |-> text]
      BY <2>1, <2>4
    <3>2. begun[m].day = IF m = q THEN old[m].day ELSE None
      BY <1>2, <1>5
    <3> QED
      BY <2>4, <3>1, <3>2
  <2>5. CASE kind = "other"
    BY <1>5, <2>5
  <2> QED
    BY <2>3, <2>4, <2>5
<1> HIDE DEF last
<1>12. /\ filled \in Seq(Horaire!Period) /\ Len(filled) = m /\ filled[m] = last
       /\ \A k \in 1..(m - 1) : filled[k] = begun[k]
  BY <1>4, <1>5, <1>9, <1>10
<1>13. FilledAt(filled, m, kind, text)
  BY <1>1, <1>4, <1>5, <1>6, <1>11, <1>12 DEF FilledAt
<1> QED
  BY <1>13

(* A text of a period, read under a group.                                 *)
LEMMA PeriodsGoOn ==
  ASSUME horaire \in Seq(Horaire!Text), PeriodsHeld, NEW n, n = Len(horaire), NEW text,
         text \in Horaire!Text, DocumentGrown(n, text), text.kind \in {"day", "detail", "other"},
         group # None, group' = group, NEW m, FilledAt(periods', m, text.kind, text.is)
  PROVE  /\ PeriodsHeld'
         /\ \A i \in 1..n : Counts(i)' /\ Held(i) => Held(i)'
         /\ \A i : i = n + 1 /\ Counts(i)' => Held(i)'
<1>1. /\ n \in Nat /\ DOMAIN horaire = 1..n /\ 1..(n + 1) = (1..n) \cup {n + 1}
      /\ n + 1 \notin 1..n /\ NextGroup \in 0..n
  BY DocumentPlaces
<1>2. /\ DOMAIN horaire' = 1..(n + 1) /\ horaire'[n + 1] = text
      /\ \A i \in 1..n : horaire'[i] = horaire[i]
      /\ NextHeading' = NextHeading /\ NextGroup' = NextGroup
      /\ \A i \in 1..n : /\ Horaire!HeadingOf(i)' = Horaire!HeadingOf(i)
                         /\ Horaire!GroupOf(i)' = Horaire!GroupOf(i)
                         /\ Counts(i)' => Counts(i)
                         /\ GoesOn(i) /\ text.kind \notin RowKinds => GoesOn(i)'
      /\ \A i : i = n + 1 => /\ Horaire!HeadingOf(i)' = NextHeading
                             /\ Horaire!GroupOf(i)' = NextGroup
                             /\ GoesOn(i)'
      /\ \A i, j \in 1..n : \A p : Horaire!StandsAt(i, j, p) => Horaire!StandsAt(i, j, p)'
      /\ \A i \in 1..n : \A j : j = n + 1 /\ GoesOn(i) => Horaire!SameRow(i, j)'
      /\ \A i \in 1..n :
           (GoesOn(i) /\ horaire[i].kind = "detail" /\ text.kind = "detail") => ~Counts(i)'
  BY DEF DocumentGrown
<1> PICK q, old, now : q = Len(periods) /\ old = periods /\ now = periods'
  OBVIOUS
<1>3. /\ old \in Seq(Horaire!Period) /\ q \in Nat /\ DOMAIN old = 1..q /\ Len(old) = q
      /\ \A k \in 1..q : old[k] = Horaire!Empty => q = 1
      /\ \A k \in 1..q : old[k] # Horaire!Empty =>
           \E i, j \in 1..n :
             /\ Horaire!HeadingOf(i) = NextHeading /\ Horaire!GroupOf(i) = NextGroup
             /\ Horaire!StandsAt(i, j, old[k])
             /\ (k = q => GoesOn(i))
  BY <1>1 DEF PeriodsHeld
<1>4. /\ now \in Seq(Horaire!Period) /\ Len(now) = m /\ m \in Nat \ {0} /\ DOMAIN now = 1..m
      /\ \A k \in 1..(m - 1) : k \in 1..q /\ now[k] = old[k] /\ old[k] # Horaire!Empty
      /\ \A k \in 1..q :
           old[k] # Horaire!Empty => k < m \/ (text.kind # "day" /\ k = m /\ m = q)
      /\ m \in {q, q + 1}
      /\ m = q + 1 /\ text.kind # "day" => m = 1
      /\ text.kind = "day" => now[m] = [day |-> text.is, detail |-> None]
      /\ text.kind = "detail" =>
           now[m] = [day |-> IF m = q THEN old[m].day ELSE None, detail |-> text.is]
      /\ text.kind = "other" => now[m] = IF m = q THEN old[m] ELSE Horaire!Empty
  BY <1>3 DEF FilledAt
<1>5. /\ text.kind = "day" => text.is # None
      /\ text.kind = "detail" => text.is # None
      /\ Horaire!Empty.day = None /\ Horaire!Empty.detail = None
      /\ \A p \in Horaire!Period : p.day = None /\ p.detail = None => p = Horaire!Empty
  BY TextIs, NoneAssumption DEF Horaire!Empty, Horaire!Period
<1>6. \A k \in 1..m : now[k] = Horaire!Empty => m = 1
  <2> SUFFICES ASSUME NEW k \in 1..m, now[k] = Horaire!Empty, m # 1
               PROVE  FALSE
    OBVIOUS
  <2>1. k = m /\ text.kind = "other"
    BY <1>4, <1>5
  <2>2. m = q /\ old[m] = Horaire!Empty
    BY <1>4, <2>1
  <2> QED
    BY <1>3, <1>4, <2>2
<1>7. \A i, j : i = n + 1 /\ j = n + 1 => Horaire!SameRow(i, j)'
  BY <1>1, <1>2 DEF Horaire!SameRow, Horaire!Between
<1>8. ASSUME NEW k \in 1..m, NEW p, p = now[k], p # Horaire!Empty
      PROVE  \E i, j \in 1..(n + 1) :
               /\ Horaire!HeadingOf(i)' = NextHeading /\ Horaire!GroupOf(i)' = NextGroup
               /\ Horaire!StandsAt(i, j, p)'
               /\ (k = m => GoesOn(i)')
  <2>1. CASE k < m
    <3>1. k \in 1..q /\ p = old[k]
      BY <1>4, <1>8, <2>1
    <3>2. PICK i \in 1..n, j \in 1..n :
            /\ Horaire!HeadingOf(i) = NextHeading /\ Horaire!GroupOf(i) = NextGroup
            /\ Horaire!StandsAt(i, j, p)
      BY <1>3, <1>8, <3>1
    <3>3. Horaire!StandsAt(i, j, p)' /\ i \in 1..(n + 1) /\ j \in 1..(n + 1)
      BY <1>1, <1>2, <3>2
    <3> QED
      BY <1>2, <1>4, <2>1, <3>2, <3>3
  <2>2. CASE k = m /\ text.kind = "other"
    <3>1. m = q /\ p = old[q] /\ q \in 1..q
      BY <1>4, <1>8, <2>2
    <3>2. PICK i \in 1..n, j \in 1..n :
            /\ Horaire!HeadingOf(i) = NextHeading /\ Horaire!GroupOf(i) = NextGroup
            /\ Horaire!StandsAt(i, j, p) /\ GoesOn(i)
      BY <1>3, <1>8, <3>1
    <3>3. Horaire!StandsAt(i, j, p)' /\ i \in 1..(n + 1) /\ j \in 1..(n + 1)
      BY <1>1, <1>2, <3>2
    <3>4. GoesOn(i)'
      BY <1>2, <2>2, <3>2 DEF RowKinds
    <3> QED
      BY <1>2, <3>2, <3>3, <3>4
  <2>3. CASE k = m /\ text.kind = "day"
    <3> PICK i \in 1..(n + 1) : i = n + 1
      BY <1>1
    <3>1. p.day = text.is /\ p.detail = None /\ horaire'[i] = text
      BY <1>2, <1>4, <1>8, <2>3
    <3>2. Horaire!StandsAt(i, i, p)'
      BY <1>7, <2>3, <3>1 DEF Horaire!StandsAt, Horaire!Are
    <3> QED
      BY <1>2, <3>2
  <2>4. CASE k = m /\ text.kind = "detail"
    <3>1. CASE m = q /\ old[m] # Horaire!Empty
      <4>1. m \in 1..q
        BY <1>4, <3>1
      <4>2. PICK i \in 1..n, j \in 1..n :
              /\ Horaire!HeadingOf(i) = NextHeading /\ Horaire!GroupOf(i) = NextGroup
              /\ Horaire!StandsAt(i, j, old[m]) /\ GoesOn(i)
        BY <1>3, <3>1, <4>1
      <4> PICK l \in 1..(n + 1) : l = n + 1
        BY <1>1
      <4>3. p.day = old[m].day /\ p.detail = text.is /\ horaire'[l] = text /\ i <= l
            /\ horaire'[i] = horaire[i]
        BY <1>1, <1>2, <1>4, <1>8, <2>4, <3>1
      <4>4. /\ horaire[i].kind \in {"day", "detail"}
            /\ old[m].day = IF horaire[i].kind \in {"day"} THEN horaire[i].is ELSE None
        BY <4>2 DEF Horaire!StandsAt, Horaire!Are
      <4>5. Horaire!SameRow(i, l)'
        BY <1>2, <4>2
      <4>6. Horaire!StandsAt(i, l, p)'
        BY <2>4, <4>3, <4>4, <4>5 DEF Horaire!StandsAt, Horaire!Are
      <4>7. GoesOn(i)' /\ i \in 1..(n + 1)
        BY <1>1, <1>2, <2>4, <4>2 DEF RowKinds
      <4> QED
        BY <1>2, <4>2, <4>6, <4>7
    <3>2. CASE ~(m = q /\ old[m] # Horaire!Empty)
      <4> PICK i \in 1..(n + 1) : i = n + 1
        BY <1>1
      <4>1. p.day = None /\ p.detail = text.is /\ horaire'[i] = text
        BY <1>2, <1>4, <1>5, <1>8, <2>4, <3>2
      <4>2. Horaire!StandsAt(i, i, p)'
        BY <1>7, <2>4, <4>1 DEF Horaire!StandsAt, Horaire!Are
      <4> QED
        BY <1>2, <4>2
    <3> QED
      BY <3>1, <3>2
  <2> QED
    BY <1>4, <2>1, <2>2, <2>3, <2>4
<1>9. ASSUME NEW i \in 1..n, Counts(i)', Held(i)
      PROVE  Held(i)'
  <2>1. horaire[i].is # None
    <3>1. Counts(i) /\ horaire[i] \in Horaire!Text
      BY <1>1, <1>2, <1>9
    <3> QED
      BY <3>1, TextIs, NoneAssumption DEF Counts
  <2>2. PICK k \in 1..q :
          \/ horaire[i].kind = "day" /\ old[k].day = horaire[i].is
          \/ horaire[i].kind = "detail" /\ old[k].detail = horaire[i].is /\ (k = q => GoesOn(i))
    BY <1>3, <1>9 DEF Held
  <2>3. old[k] # Horaire!Empty
    BY <1>5, <2>1, <2>2
  <2>4. CASE k < m
    <3>1. now[k] = old[k] /\ k \in 1..m /\ k # m
      BY <1>4, <2>2, <2>4
    <3> QED
      BY <1>2, <1>4, <2>2, <3>1 DEF Held
  <2>5. CASE text.kind # "day" /\ k = m /\ m = q
    <3>1. CASE horaire[i].kind = "day"
      <4>1. now[k].day = horaire[i].is /\ k \in 1..m
        BY <1>4, <2>2, <2>5, <3>1
      <4> QED
        BY <1>2, <1>4, <3>1, <4>1 DEF Held
    <3>2. CASE horaire[i].kind = "detail"
      <4>1. GoesOn(i) /\ old[k].detail = horaire[i].is
        BY <2>2, <2>5, <3>2
      <4>2. text.kind = "other"
        BY <1>2, <1>9, <2>5, <3>2, <4>1
      <4>3. now[k].detail = horaire[i].is /\ k \in 1..m
        BY <1>4, <2>5, <4>1, <4>2
      <4>4. GoesOn(i)'
        BY <1>2, <4>1, <4>2 DEF RowKinds
      <4> QED
        BY <1>2, <1>4, <3>2, <4>3, <4>4 DEF Held
    <3> QED
      BY <2>2, <3>1, <3>2
  <2> QED
    BY <1>4, <2>3, <2>4, <2>5
<1>10. ASSUME NEW i, i = n + 1, Counts(i)'
       PROVE  Held(i)'
  <2>1. horaire'[i] = text /\ text.kind \in {"day", "detail"} /\ GoesOn(i)' /\ m \in 1..m
    BY <1>2, <1>4, <1>10 DEF Counts
  <2>2. \/ text.kind = "day" /\ now[m].day = text.is
        \/ text.kind = "detail" /\ now[m].detail = text.is
    BY <1>4, <2>1
  <2> QED
    BY <1>4, <2>1, <2>2 DEF Held
<1>11. group' = IF NextGroup' # 0 /\ horaire'[NextGroup'].kind = "group"
                THEN horaire'[NextGroup'].is ELSE None
  BY <1>1, <1>2 DEF PeriodsHeld
<1>12. \A k \in DOMAIN periods', p \in Horaire!Period :
         p = periods'[k] /\ p # Horaire!Empty =>
           \E i, j \in DOMAIN horaire' :
             /\ Horaire!HeadingOf(i)' = NextHeading' /\ Horaire!GroupOf(i)' = NextGroup'
             /\ Horaire!StandsAt(i, j, p)'
             /\ (k = Len(periods') => GoesOn(i)')
  BY <1>2, <1>4, <1>8
<1>13. PeriodsHeld'
  BY <1>4, <1>6, <1>11, <1>12 DEF PeriodsHeld
<1> QED
  BY <1>9, <1>10, <1>13

LEMMA ListGoesOn ==
  ASSUME DocumentInv, NEW n, n = Len(horaire), NEW text, DocumentGrown(n, text),
         ~horaireDone, horaireDone' = horaireDone,
         \/ text.kind # "code" /\ horaireCourses' = horaireCourses
         \/ text.kind = "code" /\ ListOK(horaireCourses', 0)
  PROVE  ListOK(horaireCourses, IF horaireDone THEN 0 ELSE NextHeading)'
<1> PICK list, open, next : /\ list = horaireCourses' /\ next = NextHeading'
                            /\ open = IF text.kind = "code" THEN 0 ELSE NextHeading
  OBVIOUS
<1>1. ListOK(list, open)
  <2>1. CASE text.kind = "code"
    BY <2>1
  <2>2. CASE text.kind # "code"
    BY <2>2 DEF DocumentInv
  <2> QED
    BY <2>1, <2>2
<1>2. \/ text.kind = "code" /\ open = 0 /\ next = n + 1
      \/ text.kind # "code" /\ open = NextHeading /\ next = open
  BY DEF DocumentGrown
<1>3. horaire \in Seq(Horaire!Text)
  BY DEF DocumentInv
<1>4. ListOK(list, next)'
  BY <1>1, <1>2, <1>3, ListKept
<1>5. next = IF horaireDone' THEN 0 ELSE NextHeading'
  OBVIOUS
<1> QED
  BY <1>4, <1>5 DEF ListOK

LEMMA ReadCodeKeeps ==
  ASSUME DocumentInv, NEW code \in Codes, Horaire!ReadCode(code)
  PROVE  DocumentInv'
<1> PICK n, text : n = Len(horaire) /\ text = [kind |-> "code", is |-> code]
  OBVIOUS
<1>1. horaire \in Seq(Horaire!Text) /\ CourseHeld /\ PeriodsHeld
  BY DEF DocumentInv
<1>2. text \in Horaire!Text /\ Horaire!Reads("code", code)
  BY DEF Horaire!Text, Horaire!ReadCode
<1>3. /\ ~horaireDone /\ n \in Nat /\ DocumentGrown(n, text) /\ text.kind = "code" /\ text.is = code
      /\ horaire' \in Seq(Horaire!Text) /\ horaire' # <<>>
      /\ horaire'[Len(horaire')].kind = "code"
  BY <1>1, <1>2, DocumentReads
<1>4. /\ horaireCourses' = Horaire!AddOrUpdated(Horaire!Finalized)
      /\ course' = Horaire!NewCourse(code) /\ group' = None /\ periods' = <<>>
      /\ horaireDone' = horaireDone
  BY DEF Horaire!ReadCode
<1>5. ListOK(horaireCourses', 0)
  <2> PICK new, list : new = Horaire!Finalized /\ list = horaireCourses'
    OBVIOUS
  <2>1. Complete(new)
    BY <1>1, Completes
  <2>2. list = Horaire!AddOrUpdated(new) /\ ListOK(horaireCourses, NextHeading)
    BY <1>3, <1>4 DEF DocumentInv
  <2> QED
    BY <1>1, <2>1, <2>2, CourseListed
<1>6. ListOK(horaireCourses, IF horaireDone THEN 0 ELSE NextHeading)'
  BY <1>3, <1>4, <1>5, ListGoesOn
<1>7. PeriodsHeld'
  BY <1>1, <1>3, <1>4, PeriodsBegin
<1>8. CourseHeld'
  <2>1. Gathered' = {}
    BY <1>1, <1>3, GatheredGrows
  <2>2. /\ course' = [code |-> code, prerequisites |-> {}, groups |-> {}, periods |-> {}]
        /\ course' \in Horaire!Course
    BY <1>4 DEF Horaire!NewCourse, Horaire!Course
  <2>3. NextHeading' = n + 1 /\ n + 1 # 0 /\ horaire'[n + 1] = text
    BY <1>3 DEF DocumentGrown
  <2>4. \A i \in DOMAIN horaire' : Horaire!HeadingOf(i)' # NextHeading'
    <3>1. DOMAIN horaire' = 1..(n + 1) /\ 1..(n + 1) = (1..n) \cup {n + 1}
      BY <1>3 DEF DocumentGrown
    <3>2. NextHeading \in 0..n /\ \A i \in 1..(n + 1) : Horaire!HeadingOf(i) \in 0..(i - 1)
      BY <1>1, DocumentPlaces
    <3>3. NextHeading # n + 1 /\ \A i \in 1..n : Horaire!HeadingOf(i) # n + 1
      <4>1. \A i \in 1..n : i \in 1..(n + 1) /\ n + 1 \notin 0..(i - 1) /\ n + 1 \notin 0..n
        BY <1>3
      <4> QED
        BY <1>3, <3>2, <4>1
    <3>4. /\ \A i \in 1..n : Horaire!HeadingOf(i)' = Horaire!HeadingOf(i)
          /\ \A i : i = n + 1 => Horaire!HeadingOf(i)' = NextHeading
      BY <1>3 DEF DocumentGrown
    <3> QED
      BY <2>3, <3>1, <3>3, <3>4
  <2> QED
    BY <1>3, <2>1, <2>2, <2>3, <2>4 DEF CourseHeld
<1> QED
  BY <1>3, <1>6, <1>7, <1>8 DEF DocumentInv

LEMMA ReadPrerequisitesKeeps ==
  ASSUME DocumentInv, NEW word \in Words, Horaire!ReadPrerequisites(word)
  PROVE  DocumentInv'
<1> PICK n, text : n = Len(horaire) /\ text = [kind |-> "prerequisites", is |-> word]
  OBVIOUS
<1>1. horaire \in Seq(Horaire!Text) /\ CourseHeld /\ PeriodsHeld
  BY DEF DocumentInv
<1>2. text \in Horaire!Text /\ Horaire!Reads("prerequisites", word)
  BY DEF Horaire!Text, Horaire!ReadPrerequisites
<1>3. /\ ~horaireDone /\ n \in Nat /\ DocumentGrown(n, text)
      /\ text.kind = "prerequisites" /\ text.is = word
      /\ horaire' \in Seq(Horaire!Text) /\ horaire' # <<>>
      /\ horaire'[Len(horaire')].kind = "prerequisites"
  BY <1>1, <1>2, DocumentReads
<1> PICK new : new = course'
  OBVIOUS
<1>4. /\ new = [course EXCEPT !.prerequisites = @ \cup {word}]
      /\ horaireCourses' = horaireCourses /\ group' = group /\ periods' = periods
      /\ horaireDone' = horaireDone
  BY DEF Horaire!ReadPrerequisites
<1>5. ListOK(horaireCourses, IF horaireDone THEN 0 ELSE NextHeading)'
  BY <1>3, <1>4, ListGoesOn
<1>6. /\ DOMAIN horaire = 1..n /\ DOMAIN horaire' = 1..(n + 1)
      /\ NextHeading' = NextHeading /\ NextGroup' = NextGroup
      /\ \A i \in 1..n : /\ i \in 1..(n + 1) /\ horaire'[i] = horaire[i]
                         /\ Horaire!HeadingOf(i)' = Horaire!HeadingOf(i)
                         /\ Horaire!GroupOf(i)' = Horaire!GroupOf(i)
                         /\ GoesOn(i) => GoesOn(i)'
                         /\ Counts(i)' => Counts(i)
      /\ \A i, j \in 1..n : \A p : Horaire!StandsAt(i, j, p) => Horaire!StandsAt(i, j, p)'
      /\ horaire'[n + 1] = text /\ NextGroup \in 0..n
  <2>1. n \in Nat /\ DOMAIN horaire = 1..n /\ NextGroup \in 0..n
    BY <1>1, DocumentPlaces
  <2> QED
    BY <1>3, <2>1 DEF DocumentGrown, RowKinds
<1>7. PeriodsHeld'
  <2>1. group' = IF NextGroup' # 0 /\ horaire'[NextGroup'].kind = "group"
                 THEN horaire'[NextGroup'].is ELSE None
    BY <1>1, <1>3, <1>4, <1>6 DEF PeriodsHeld
  <2>2. \A k \in DOMAIN periods, p \in Horaire!Period :
         p = periods[k] /\ p # Horaire!Empty =>
           \E i, j \in DOMAIN horaire' :
             /\ Horaire!HeadingOf(i)' = NextHeading' /\ Horaire!GroupOf(i)' = NextGroup'
             /\ Horaire!StandsAt(i, j, p)'
             /\ (k = Len(periods) => GoesOn(i)')
    <3> SUFFICES ASSUME NEW k \in DOMAIN periods, NEW p \in Horaire!Period,
                        p = periods[k], p # Horaire!Empty
                 PROVE  \E i, j \in DOMAIN horaire' :
                          /\ Horaire!HeadingOf(i)' = NextHeading'
                          /\ Horaire!GroupOf(i)' = NextGroup'
                          /\ Horaire!StandsAt(i, j, p)'
                          /\ (k = Len(periods) => GoesOn(i)')
      OBVIOUS
    <3>1. PICK i \in 1..n, j \in 1..n :
            /\ Horaire!HeadingOf(i) = NextHeading /\ Horaire!GroupOf(i) = NextGroup
            /\ Horaire!StandsAt(i, j, p) /\ (k = Len(periods) => GoesOn(i))
      BY <1>1, <1>6 DEF PeriodsHeld
    <3> QED
      BY <1>6, <3>1
  <2> QED
    BY <1>1, <1>4, <2>1, <2>2 DEF PeriodsHeld
<1>8. CourseHeld'
  <2>1. course \in Horaire!Course
    BY <1>1 DEF CourseHeld
  <2>2. /\ new \in Horaire!Course /\ new.code = course.code /\ new.periods = course.periods
        /\ new.prerequisites = course.prerequisites \cup {word}
    BY <1>4, <2>1 DEF Horaire!Course
  <2>3. Gathered' = Gathered \cup {word}
    BY <1>1, <1>3, GatheredGrows
  <2>4. \A i \in 1..n : Held(i) => Held(i)'
    BY <1>4, <1>6 DEF Held
  <2>5. ASSUME NEW i \in 1..n, Counts(i)', Horaire!HeadingOf(i) = NextHeading
        PROVE  \/ \E gp \in new.periods : Shows(gp, i)
               \/ Horaire!GroupOf(i) = NextGroup' /\ Held(i)'
    BY <1>1, <1>6, <2>2, <2>4, <2>5 DEF CourseHeld
  <2>6. \A i : i = n + 1 => ~Counts(i)'
    BY <1>3, <1>6 DEF Counts
  <2>7. /\ new.code = IF NextHeading = 0 THEN None ELSE horaire[NextHeading].is
        /\ new.prerequisites = Gathered'
        /\ \A c \in Codes : c = new.code => \A gp \in new.periods : Placed(c, gp)
    BY <1>1, <2>2, <2>3 DEF CourseHeld
  <2>8. text.kind # "code"
    BY <1>3
  <2> QED
    BY <1>1, <1>3, <2>2, <2>5, <2>6, <2>7, <2>8, CourseGoesOn
<1> QED
  BY <1>3, <1>5, <1>7, <1>8 DEF DocumentInv

(* What is held of the group is stored, and the page or the group is new.  *)
LEMMA FinalizedKeeps ==
  ASSUME DocumentInv, NEW kind \in {"group", "end"}, NEW is, Horaire!Reads(kind, is),
         [kind |-> kind, is |-> is] \in Horaire!Text,
         course' = Horaire!Finalized, periods' = <<>>,
         group' = IF kind = "group" THEN is ELSE group,
         horaireCourses' = horaireCourses, horaireDone' = horaireDone
  PROVE  DocumentInv'
<1> PICK n, text, new : /\ n = Len(horaire) /\ text = [kind |-> kind, is |-> is]
                        /\ new = course'
  OBVIOUS
<1>1. horaire \in Seq(Horaire!Text) /\ CourseHeld /\ PeriodsHeld /\ text \in Horaire!Text
  BY DEF DocumentInv
<1>2. /\ ~horaireDone /\ n \in Nat /\ DocumentGrown(n, text) /\ text.kind = kind /\ text.is = is
      /\ horaire' \in Seq(Horaire!Text) /\ horaire' # <<>>
  BY <1>1, DocumentReads
<1>3. ListOK(horaireCourses, IF horaireDone THEN 0 ELSE NextHeading)'
  BY <1>2, ListGoesOn
<1>4. PeriodsHeld'
  BY <1>1, <1>2, PeriodsBegin
<1>5. CourseHeld'
  <2>1. Complete(new)
    BY <1>1, Completes
  <2>2. Gathered' = Gathered /\ text.kind # "code"
    BY <1>1, <1>2, GatheredGrows
  <2>3. \A i : i = n + 1 => ~Counts(i)'
    BY <1>2 DEF Counts, DocumentGrown
  <2>4. \A i \in 1..n : Counts(i)' => Counts(i)
    BY <1>2 DEF DocumentGrown
  <2>5. DOMAIN horaire = 1..n
    BY <1>1
  <2>6. /\ new \in Horaire!Course
        /\ new.code = IF NextHeading = 0 THEN None ELSE horaire[NextHeading].is
        /\ new.prerequisites = Gathered'
        /\ \A c \in Codes : c = new.code => \A gp \in new.periods : Placed(c, gp)
        /\ \A i \in 1..n : Counts(i)' /\ Horaire!HeadingOf(i) = NextHeading =>
             \E gp \in new.periods : Shows(gp, i)
    BY <2>1, <2>2, <2>4, <2>5 DEF Complete
  <2> QED
    BY <1>1, <1>2, <2>2, <2>3, <2>6, CourseGoesOn
<1> QED
  BY <1>2, <1>3, <1>4, <1>5 DEF DocumentInv

LEMMA ReadPeriodTextKeeps ==
  ASSUME DocumentInv, NEW kind \in {"day", "detail", "other"}, NEW is,
         Horaire!ReadPeriodText(kind, is), [kind |-> kind, is |-> is] \in Horaire!Text
  PROVE  DocumentInv'
<1> PICK n, text : n = Len(horaire) /\ text = [kind |-> kind, is |-> is]
  OBVIOUS
<1>1. horaire \in Seq(Horaire!Text) /\ CourseHeld /\ PeriodsHeld /\ text \in Horaire!Text
  BY DEF DocumentInv
<1>2. Horaire!Reads(kind, is)
  BY DEF Horaire!ReadPeriodText
<1>3. /\ ~horaireDone /\ n \in Nat /\ DocumentGrown(n, text) /\ text.kind = kind /\ text.is = is
      /\ horaire' \in Seq(Horaire!Text) /\ horaire' # <<>>
      /\ horaire'[Len(horaire')].kind = kind
  BY <1>1, <1>2, DocumentReads
<1>4. /\ periods' = IF group = None THEN periods ELSE Horaire!Filled(kind, is)
      /\ horaireCourses' = horaireCourses /\ course' = course /\ group' = group
      /\ horaireDone' = horaireDone
  BY DEF Horaire!ReadPeriodText
<1>5. ListOK(horaireCourses, IF horaireDone THEN 0 ELSE NextHeading)'
  BY <1>3, <1>4, ListGoesOn
<1>6. /\ DOMAIN horaire = 1..n
      /\ NextGroup' = NextGroup /\ NextGroup \in 0..n
      /\ \A i \in 1..n : Counts(i)' => Counts(i)
      /\ \A i \in 1..n : horaire'[i] = horaire[i]
      /\ \A i : i = n + 1 => /\ Horaire!GroupOf(i)' = NextGroup
                             /\ Horaire!HeadingOf(i)' = NextHeading
  <2>1. n \in Nat /\ DOMAIN horaire = 1..n /\ NextGroup \in 0..n
    BY <1>1, DocumentPlaces
  <2> QED
    BY <1>3, <2>1 DEF DocumentGrown
<1>7. /\ PeriodsHeld'
      /\ \A i \in 1..n : Counts(i)' /\ Held(i) => Held(i)'
      /\ \A i : i = n + 1 /\ Counts(i)' => Held(i)'
  <2>1. CASE group = None
    <3>1. periods = <<>> /\ periods' = <<>>
      BY <1>1, <1>4, <2>1 DEF PeriodsHeld
    <3>2. PeriodsHeld'
      BY <1>1, <1>3, <1>4, <3>1, PeriodsBegin
    <3>3. \A i : ~Held(i)
      BY <3>1 DEF Held
    <3>4. \A i : i = n + 1 => ~Counts(i)'
      <4> SUFFICES ASSUME NEW i, i = n + 1, Counts(i)'
                   PROVE  FALSE
        OBVIOUS
      <4>1. NextHeading # 0 /\ NextGroup \in 0..n /\ horaire'[NextGroup].kind = "group"
        BY <1>6 DEF Counts
      <4>2. NextGroup \in 1..n
        <5>1. NextHeading \in 0..n /\ NextHeading <= NextGroup
          BY <1>1, DocumentPlaces
        <5> QED
          BY <1>3, <4>1, <5>1
      <4>3. horaire[NextGroup].kind = "group" /\ horaire[NextGroup] \in Horaire!Text
        BY <1>1, <1>6, <4>1, <4>2
      <4>4. group \in Groups
        BY <1>1, <4>2, <4>3, TextIs DEF PeriodsHeld
      <4> QED
        BY <2>1, <4>4, NoneAssumption
    <3> QED
      BY <3>2, <3>3, <3>4
  <2>2. CASE group # None
    <3> PICK filled : filled = periods'
      OBVIOUS
    <3>1. filled = Horaire!Filled(kind, is)
      BY <1>4, <2>2
    <3>2. (kind = "day" => is \in Days) /\ (kind = "detail" => is \in Times)
      BY <1>1, <1>3, TextIs
    <3>3. PICK m : FilledAt(filled, m, kind, is)
      BY <1>1, <3>1, <3>2, FilledIs
    <3>4. FilledAt(periods', m, text.kind, text.is)
      BY <1>3, <3>3
    <3> QED
      BY <1>1, <1>3, <1>4, <2>2, <3>4, PeriodsGoOn
  <2> QED
    BY <2>1, <2>2
<1>8. CourseHeld'
  <2> PICK new : new = course
    OBVIOUS
  <2>1. Gathered' = Gathered /\ text.kind # "code"
    BY <1>1, <1>3, GatheredGrows
  <2>2. /\ new \in Horaire!Course /\ course' = new
        /\ new.code = IF NextHeading = 0 THEN None ELSE horaire[NextHeading].is
        /\ new.prerequisites = Gathered'
        /\ \A c \in Codes : c = new.code => \A gp \in new.periods : Placed(c, gp)
    BY <1>1, <1>4, <2>1 DEF CourseHeld
  <2>3. ASSUME NEW i \in 1..n, Counts(i)', Horaire!HeadingOf(i) = NextHeading
        PROVE  \/ \E gp \in new.periods : Shows(gp, i)
               \/ Horaire!GroupOf(i) = NextGroup' /\ Held(i)'
    BY <1>1, <1>6, <1>7, <2>3 DEF CourseHeld
  <2> QED
    BY <1>1, <1>3, <1>6, <1>7, <2>1, <2>2, <2>3, CourseGoesOn
<1> QED
  BY <1>3, <1>5, <1>7, <1>8 DEF DocumentInv

(* What the document says of itself is a matter of the document alone.     *)
LEMMA DocumentSame ==
  ASSUME horaire' = horaire
  PROVE  /\ NextHeading' = NextHeading /\ NextGroup' = NextGroup /\ Gathered' = Gathered
         /\ \A i : /\ Horaire!HeadingOf(i)' = Horaire!HeadingOf(i)
                   /\ Horaire!GroupOf(i)' = Horaire!GroupOf(i)
                   /\ Horaire!IsFirst(i)' <=> Horaire!IsFirst(i)
                   /\ Counts(i)' <=> Counts(i)
                   /\ GoesOn(i)' <=> GoesOn(i)
         /\ \A i, j, p : Horaire!StandsAt(i, j, p)' <=> Horaire!StandsAt(i, j, p)
         /\ \A gp, i : Shows(gp, i)' <=> Shows(gp, i)
         /\ \A c, gp : Placed(c, gp)' <=> Placed(c, gp)
         /\ \A list, open : ListOK(list, open)' <=> ListOK(list, open)
<1>1. /\ NextHeading' = NextHeading /\ NextGroup' = NextGroup
      /\ \A i : /\ Horaire!HeadingOf(i)' = Horaire!HeadingOf(i)
                /\ Horaire!GroupOf(i)' = Horaire!GroupOf(i)
                /\ GoesOn(i)' <=> GoesOn(i)
                /\ Requires(i)' <=> Requires(i)
                /\ Horaire!IsFirst(i)' <=> Horaire!IsFirst(i)
  BY DEF NextHeading, NextGroup, Horaire!HeadingOf, Horaire!GroupOf, Horaire!LastBefore, GoesOn,
     Requires, Horaire!IsFirst, Horaire!Between, Horaire!Are
<1>2. \A i, j : Horaire!SameRow(i, j)' <=> Horaire!SameRow(i, j)
  BY DEF Horaire!SameRow, Horaire!Between, Horaire!Are
<1>3. \A i, j, p : Horaire!StandsAt(i, j, p)' <=> Horaire!StandsAt(i, j, p)
  BY <1>2 DEF Horaire!StandsAt, Horaire!Are
<1>4. \A i : Horaire!Replaced(i)' <=> Horaire!Replaced(i)
  BY <1>2 DEF Horaire!Replaced, Horaire!Are
<1>5. \A i, c, g : Horaire!Under(i, c, g)' <=> Horaire!Under(i, c, g)
  BY <1>1 DEF Horaire!Under, Horaire!Are
<1>6. /\ \A gp, i : Shows(gp, i)' <=> Shows(gp, i)
      /\ \A c, gp : Placed(c, gp)' <=> Placed(c, gp)
      /\ \A i : Counts(i)' <=> Counts(i)
      /\ \A i, c : Owes(i, c)' <=> Owes(i, c)
      /\ Gathered' = Gathered
  BY <1>1, <1>3, <1>4, <1>5 DEF Shows, Placed, Counts, Owes, Gathered
<1>7. \A c : Required(c)' = Required(c)
  BY <1>6 DEF Required
<1>8. \A list, open : ListOK(list, open)' <=> ListOK(list, open)
  <2> SUFFICES ASSUME NEW list, NEW open
               PROVE  ListOK(list, open)' <=> ListOK(list, open)
    OBVIOUS
  <2>1. (\A c \in DOMAIN list : \A gp \in list[c].periods : Placed(c, gp)')
          <=> (\A c \in DOMAIN list : \A gp \in list[c].periods : Placed(c, gp))
    BY <1>6
  <2>2. (\A c \in DOMAIN list : list[c].prerequisites = Required(c)')
          <=> (\A c \in DOMAIN list : list[c].prerequisites = Required(c))
    BY <1>7
  <2>3. (\A i, h \in DOMAIN horaire, c \in Codes :
           /\ Counts(i)' /\ Horaire!HeadingOf(i)' = h /\ h # open /\ Horaire!IsFirst(h)'
           /\ horaire[h].is = c
           => \E gp \in list[c].periods : Shows(gp, i)')
          <=> (\A i, h \in DOMAIN horaire, c \in Codes :
           /\ Counts(i) /\ Horaire!HeadingOf(i) = h /\ h # open /\ Horaire!IsFirst(h)
           /\ horaire[h].is = c
           => \E gp \in list[c].periods : Shows(gp, i))
    BY <1>1, <1>6
  <2> QED
    BY <2>1, <2>2, <2>3 DEF ListOK
<1> QED
  BY <1>1, <1>3, <1>6, <1>8

LEMMA DocumentEndsKeeps ==
  ASSUME DocumentInv, Horaire!DocumentEnds
  PROVE  DocumentInv'
<1> PICK n, new, list : n = Len(horaire) /\ new = course /\ list = horaireCourses'
  OBVIOUS
<1>1. /\ horaire \in Seq(Horaire!Text) /\ CourseHeld /\ PeriodsHeld
      /\ (horaire # <<>> /\ horaire[Len(horaire)].kind = "end") => periods = <<>>
  BY DEF DocumentInv
<1>2. /\ ~horaireDone /\ horaire # <<>> /\ horaire[Len(horaire)].kind = "end"
      /\ horaireDone' = TRUE /\ list = Horaire!AddOrUpdated(new)
      /\ horaire' = horaire /\ course' = course /\ group' = group /\ periods' = periods
  BY DEF Horaire!DocumentEnds, Horaire!LastOf
<1>3. periods = <<>>
  BY <1>1, <1>2
<1>4. Complete(new)
  <2>1. \A i : ~Held(i)
    BY <1>3 DEF Held
  <2> QED
    BY <1>1, <2>1 DEF CourseHeld, Complete
<1>5. ListOK(horaireCourses, NextHeading)
  BY <1>2 DEF DocumentInv
<1>6. ListOK(list, 0)
  BY <1>1, <1>2, <1>4, <1>5, CourseListed
<1>7. ListOK(horaireCourses, IF horaireDone THEN 0 ELSE NextHeading)'
  <2>1. ListOK(list, 0)'
    BY <1>2, <1>6, DocumentSame
  <2> QED
    BY <1>2, <2>1 DEF ListOK
<1>8. CourseHeld'
  BY <1>1, <1>2, <1>3, DocumentSame DEF CourseHeld, Held
<1>9. PeriodsHeld'
  BY <1>1, <1>2, <1>3, DocumentSame DEF PeriodsHeld
<1> QED
  BY <1>1, <1>2, <1>3, <1>7, <1>8, <1>9 DEF DocumentInv

LEMMA DocumentPreserved ==
  ASSUME DocumentInv, Horaire!Next
  PROVE  DocumentInv'
<1>1. ASSUME NEW code \in Codes, Horaire!ReadCode(code)
      PROVE  DocumentInv'
  BY <1>1, ReadCodeKeeps
<1>2. ASSUME NEW word \in Words, Horaire!ReadPrerequisites(word)
      PROVE  DocumentInv'
  BY <1>2, ReadPrerequisitesKeeps
<1>3. ASSUME NEW number \in Groups, Horaire!ReadGroup(number)
      PROVE  DocumentInv'
  <2>1. /\ Horaire!Reads("group", number) /\ [kind |-> "group", is |-> number] \in Horaire!Text
        /\ course' = Horaire!Finalized /\ group' = number /\ periods' = <<>>
        /\ horaireCourses' = horaireCourses /\ horaireDone' = horaireDone
    BY <1>3 DEF Horaire!ReadGroup, Horaire!Text
  <2> QED
    BY <2>1, FinalizedKeeps
<1>4. ASSUME NEW day \in Days, Horaire!ReadPeriodText("day", day)
      PROVE  DocumentInv'
  <2>1. [kind |-> "day", is |-> day] \in Horaire!Text
    BY DEF Horaire!Text
  <2> QED
    BY <1>4, <2>1, ReadPeriodTextKeeps
<1>5. ASSUME NEW detail \in Times, Horaire!ReadPeriodText("detail", detail)
      PROVE  DocumentInv'
  <2>1. [kind |-> "detail", is |-> detail] \in Horaire!Text
    BY DEF Horaire!Text
  <2> QED
    BY <1>5, <2>1, ReadPeriodTextKeeps
<1>6. CASE Horaire!ReadPeriodText("other", None)
  <2>1. [kind |-> "other", is |-> None] \in Horaire!Text
    BY DEF Horaire!Text
  <2> QED
    BY <1>6, <2>1, ReadPeriodTextKeeps
<1>7. CASE Horaire!PageEnds
  <2>1. /\ Horaire!Reads("end", None) /\ [kind |-> "end", is |-> None] \in Horaire!Text
        /\ course' = Horaire!Finalized /\ group' = group /\ periods' = <<>>
        /\ horaireCourses' = horaireCourses /\ horaireDone' = horaireDone
    BY <1>7 DEF Horaire!PageEnds, Horaire!Text
  <2> QED
    BY <2>1, FinalizedKeeps
<1>8. CASE Horaire!DocumentEnds
  BY <1>8, DocumentEndsKeeps
<1> QED
  BY <1>1, <1>2, <1>3, <1>4, <1>5, <1>6, <1>7, <1>8 DEF Horaire!Next

LEMMA DocumentInitially == Horaire!Init => DocumentInv
<1> SUFFICES ASSUME Horaire!Init
             PROVE  DocumentInv
  OBVIOUS
<1>1. /\ horaire = <<>> /\ horaireCourses = << >> /\ course = Horaire!NewCourse(None)
      /\ group = None /\ periods = <<>> /\ horaireDone = FALSE
  BY DEF Horaire!Init
<1>2. /\ horaire \in Seq(Horaire!Text) /\ DOMAIN horaire = {} /\ Len(horaire) = 0
      /\ DOMAIN horaireCourses = {} /\ periods \in Seq(Horaire!Period) /\ DOMAIN periods = {}
  BY <1>1
<1>3. NextHeading = 0 /\ NextGroup = 0
  BY <1>2, DocumentPlaces
<1>4. ListOK(horaireCourses, NextHeading)
  BY <1>2 DEF ListOK
<1>5. Gathered = {}
  BY <1>2 DEF Gathered
<1>6. /\ course = [code |-> None, prerequisites |-> {}, groups |-> {}, periods |-> {}]
      /\ course \in Horaire!Course
  BY <1>1 DEF Horaire!NewCourse, Horaire!Course
<1>7. CourseHeld
  BY <1>2, <1>3, <1>5, <1>6 DEF CourseHeld
<1>8. PeriodsHeld
  BY <1>1, <1>2, <1>3 DEF PeriodsHeld
<1> QED
  BY <1>1, <1>2, <1>4, <1>7, <1>8 DEF DocumentInv

LEMMA DocumentUntouched ==
  ASSUME DocumentInv, UNCHANGED horaireVars
  PROVE  DocumentInv'
<1>1. /\ horaire' = horaire /\ horaireCourses' = horaireCourses /\ course' = course
      /\ group' = group /\ periods' = periods /\ horaireDone' = horaireDone
  BY DEF horaireVars
<1> PICK list, open : /\ list = horaireCourses
                      /\ open = IF horaireDone THEN 0 ELSE NextHeading
  OBVIOUS
<1>2. ListOK(list, open)' /\ NextHeading' = NextHeading
  BY <1>1, DocumentSame DEF DocumentInv
<1>3. ListOK(horaireCourses, IF horaireDone THEN 0 ELSE NextHeading)'
  <2>1. list = horaireCourses' /\ open = IF horaireDone' THEN 0 ELSE NextHeading'
    BY <1>1, <1>2
  <2> QED
    BY <1>2, <2>1 DEF ListOK
<1>4. \A i : Held(i)' <=> Held(i)
  BY <1>1, DocumentSame DEF Held
<1>5. CourseHeld'
  BY <1>1, <1>4, DocumentSame DEF DocumentInv, CourseHeld
<1>6. PeriodsHeld'
  BY <1>1, DocumentSame DEF DocumentInv, PeriodsHeld
<1> QED
  BY <1>1, <1>3, <1>5, <1>6 DEF DocumentInv

(* What the parser makes of a document is what the document says.          *)
LEMMA DocumentPrinted == DocumentInv => HoraireAsPrinted
<1> SUFFICES ASSUME DocumentInv, horaireDone
             PROVE  /\ Horaire!PeriodsOfOneRow /\ Horaire!NoPeriodLost
                    /\ Horaire!PrerequisitesAsPrinted
  BY DEF HoraireAsPrinted, Horaire!HoraireAsPrinted
<1>1. horaire \in Seq(Horaire!Text) /\ ListOK(horaireCourses, 0)
  BY DEF DocumentInv
<1> PICK n, list : n = Len(horaire) /\ list = horaireCourses
  OBVIOUS
<1>2. /\ n \in Nat /\ DOMAIN horaire = 1..n
      /\ \A i \in 1..n : Horaire!HeadingOf(i) \in 0..(i - 1)
  <2>1. n \in Nat /\ \A i \in 1..n : i \in 1..(n + 1)
    BY <1>1, DocumentPlaces
  <2> QED
    BY <1>1, <2>1, DocumentPlaces
<1>3. Horaire!PeriodsOfOneRow
  BY <1>1 DEF ListOK, Placed, Horaire!PeriodsOfOneRow
<1>4. ASSUME NEW i \in 1..n, NEW c \in Codes, NEW g \in Groups,
             Horaire!Are(i, {"day", "detail"}), Horaire!Under(i, c, g),
             Horaire!IsFirst(Horaire!HeadingOf(i)), ~Horaire!Replaced(i)
      PROVE  \E gp \in list[c].periods :
               gp[1] = g /\ horaire[i].is \in {gp[2].day, gp[2].detail}
  <2> PICK h : h = Horaire!HeadingOf(i)
    OBVIOUS
  <2>1. /\ h \in 1..n /\ Horaire!IsFirst(h) /\ horaire[h].is = c
        /\ Counts(i) /\ horaire[Horaire!GroupOf(i)].is = g
    BY <1>2, <1>4 DEF Horaire!Under, Horaire!Are, Counts
  <2>2. PICK gp \in list[c].periods : Shows(gp, i)
    BY <1>1, <1>2, <2>1 DEF ListOK
  <2> QED
    BY <2>1, <2>2 DEF Shows
<1>5. Horaire!NoPeriodLost
  BY <1>2, <1>4 DEF Horaire!NoPeriodLost
<1>6. ASSUME NEW c \in DOMAIN list
      PROVE  list[c].prerequisites =
               {horaire[i].is : i \in {j \in DOMAIN horaire :
                   /\ Horaire!Are(j, {"prerequisites"}) /\ Horaire!HeadingOf(j) # 0
                   /\ horaire[Horaire!HeadingOf(j)].is = c
                   /\ Horaire!IsFirst(Horaire!HeadingOf(j))}}
  <2>1. \A j \in 1..n : Owes(j, c) <=>
          /\ Horaire!Are(j, {"prerequisites"}) /\ Horaire!HeadingOf(j) # 0
          /\ horaire[Horaire!HeadingOf(j)].is = c
          /\ Horaire!IsFirst(Horaire!HeadingOf(j))
    BY <1>2 DEF Owes, Requires, Horaire!Are
  <2>2. {j \in DOMAIN horaire : Owes(j, c)} =
          {j \in DOMAIN horaire :
             /\ Horaire!Are(j, {"prerequisites"}) /\ Horaire!HeadingOf(j) # 0
             /\ horaire[Horaire!HeadingOf(j)].is = c
             /\ Horaire!IsFirst(Horaire!HeadingOf(j))}
    BY <1>2, <2>1
  <2>3. list[c].prerequisites = Required(c)
    BY <1>1, <1>6 DEF ListOK
  <2> QED
    BY <2>2, <2>3 DEF Required
<1>7. Horaire!PrerequisitesAsPrinted
  BY <1>6 DEF Horaire!PrerequisitesAsPrinted
<1> QED
  BY <1>3, <1>5, <1>7

----------------------------------------------------------------------------
(* What the parser of the timetables makes of a document is what the       *)
(* document says: no period is put together from two rows or stored under  *)
(* another course or group than its own, none of a course's first listing  *)
(* is lost to a page that ends or to a second listing, and the             *)
(* prerequisites are the course's own (HoraireCoursService).               *)
THEOREM TimetableReadAsPrinted == Spec => []HoraireAsPrinted
<1>1. Init => DocumentInv
  BY DocumentInitially DEF Init, Begun
<1>2. DocumentInv /\ [Next]_vars => DocumentInv'
  <2> SUFFICES ASSUME DocumentInv, [Next]_vars
               PROVE  DocumentInv'
    OBVIOUS
  <2>1. Horaire!Next \/ UNCHANGED horaireVars
    BY DEF Next, vars
  <2> QED
    BY <2>1, DocumentPreserved, DocumentUntouched
<1>3. DocumentInv => HoraireAsPrinted
  BY DocumentPrinted
<1> QED
  BY <1>1, <1>2, <1>3, PTL DEF Spec

(* Each course of the planification has the availabilities of its own row, *)
(* as the page prints them, and no row is lost or split                    *)
(* (PlanificationCoursService).                                            *)
THEOREM PlanificationReadAsPrinted == Spec => []RowsAsPrinted
<1>1. Init => TableInv
  BY TableInitially DEF Init, Begun
<1>2. TableInv /\ [Next]_vars => TableInv'
  <2> SUFFICES ASSUME TableInv, [Next]_vars
               PROVE  TableInv'
    OBVIOUS
  <2>1. Planification!Next \/ UNCHANGED tableVars
    BY DEF Next, vars
  <2> QED
    BY <2>1, TablePreserved, TableUntouched
<1>3. TableInv => RowsAsPrinted
  BY TablePrinted
<1> QED
  BY <1>1, <1>2, <1>3, PTL DEF Spec

(* What CheminotSync finds under a program is what the file says of it,    *)
(* and once a file is read every program of it is listed, in order, once   *)
(* and once more for every program line without a number.                  *)
THEOREM CheminementsReadAsPrinted == Spec => []CheminotAsPrinted
<1>1. Init => FileInv
  BY FileInitially DEF Init, Begun
<1>2. FileInv /\ [Next]_vars => FileInv'
  <2> SUFFICES ASSUME FileInv, [Next]_vars
               PROVE  FileInv'
    OBVIOUS
  <2>1. Cheminot!Next \/ UNCHANGED cheminotVars
    BY DEF Next, vars
  <2> QED
    BY <2>1, FilePreserved, FileUntouched
<1>3. FileInv => CheminotAsPrinted
  BY FilePrinted
<1> QED
  BY <1>1, <1>2, <1>3, PTL DEF Spec

(* What a search returns is the courses that match best, each once, with   *)
(* the best of its scores and in their order, although the collection has  *)
(* a point for every program of a course and the search asks for so many   *)
(* points only: as long as no course has more of them than the search asks *)
(* for by course (CourseRetrieverService).                                 *)
THEOREM SearchFindsTheBest == Spec => []BestCoursesFound
<1>1. Init => SearchInv
  BY SearchInitially DEF Init
<1>2. SearchInv /\ [Next]_vars => SearchInv'
  <2> SUFFICES ASSUME SearchInv, [Next]_vars
               PROVE  SearchInv'
    OBVIOUS
  <2>1. Search!Next \/ UNCHANGED searchVars
    BY DEF Next, vars
  <2> QED
    BY <2>1, SearchPreserved, SearchUntouched
<1>3. SearchInv => BestCoursesFound
  BY SearchFinds
<1> QED
  BY <1>1, <1>2, <1>3, PTL DEF Spec

(* A request of the embedding worker waits for a load of the model it asks *)
(* for, never for one of another; a load that failed is not kept; and while*)
(* one model only is asked for, it is in memory once (bge-m3.worker.ts,    *)
(* getExtractor).                                                          *)
THEOREM LoadsOfModelsShared == Spec => []LoadsAreShared
<1>1. Init => ModelInv
  BY ModelInitially DEF Init
<1>2. ModelInv /\ [Next]_vars => ModelInv'
  <2> SUFFICES ASSUME ModelInv, [Next]_vars
               PROVE  ModelInv'
    OBVIOUS
  <2>1. Model!Next \/ UNCHANGED modelVars
    BY DEF Next, vars
  <2> QED
    BY <2>1, ModelPreserved, ModelUntouched
<1>3. ModelInv => LoadsAreShared
  BY ModelShared
<1> QED
  BY <1>1, <1>2, <1>3, PTL DEF Spec
==============================================================================
