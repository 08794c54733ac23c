---------------------------- MODULE TablesProofs ----------------------------
(***************************************************************************)
(* The four jobs of the catalogue, side by side.  Each step of the         *)
(* composition is a step of one job and leaves the variables of the others *)
(* alone.  For each job: what holds of a run between its steps, and what   *)
(* the steps of the others may do to that.  At the end of the module: that *)
(* overlapping runs cannot all refuse each other, and that every run ends. *)
(***************************************************************************)
EXTENDS MCTables, FiniteSetTheorems, TLAPS

(* The jobs that write the column description.  Whoever writes, a row stays*)
(* in the table, a text is never replaced by nothing, and a page's text is *)
(* replaced by a backfill alone, which counts it as lost.  What a run has  *)
(* done for a course therefore lasts until the run ends.                   *)
(*                                                                         *)
(* A course shows the text of a page, or lost it to a backfill. *)
Shown(c) == description[c] \in Pages \/ c \in lost

(* processCourses(): what the API listed is in the table once its turn has *)
(* come, and described, or about to be.                                    *)
DescribedOK(r, c) ==
  /\ read[r][c] \in Descriptions!FromApi \cup {"no row"}
  /\ c \in descriptionLeft[r] => read[r][c] # "no row"
  /\ read[r][c] # "no row" /\ c \notin descriptionLeft[r] => description[c] # "no row"
  /\ read[r][c] # "no row" /\ c \notin descriptionLeft[r] /\ read[r][c] # "blank"
       => description[c] # "blank"
         \/ (descriptionPc[r] = "backfilling" /\ c \in descriptionCurrent[r])

BackfillOK(r, c) ==
  descriptionPc[r] = "backfilling" /\ c \in descriptionCurrent[r] =>
    /\ read[r][c] = "truncated"
    /\ description[c] \in Pages => r \in overtaken

UpsertOK(r) ==
  descriptionPc[r] \in Descriptions!Upserting \cup {"upserted"} =>
    /\ \A c \in Courses : DescribedOK(r, c) /\ BackfillOK(r, c)
    /\ descriptionPc[r] = "upserted" => descriptionLeft[r] = {}

(* The sync: a page that was there when it began, and a course it is done  *)
(* with, still shows; what it is about to write are pages.                 *)
ShownOK(r, c) ==
  /\ read[r][c] \in Pages => Shown(c)
  /\ read[r][c] # "no row" /\ c \notin descriptionLeft[r] /\ c \notin failed[r]
       => Shown(c) \/ (descriptionPc[r] = "writing" /\ c \in descriptionCurrent[r])

ShowsOK(r) ==
  /\ descriptionPc[r] \in Descriptions!Syncing \cup {"synced"} => \A c \in Courses : ShownOK(r, c)
  /\ descriptionPc[r] = "writing"
     => \A c \in Courses : c \in descriptionCurrent[r] <=> texts[r][c] # "no row"
  /\ descriptionPc[r] = "synced" => descriptionLeft[r] = {}

DescriptionRunOK(r) == UpsertOK(r) /\ ShowsOK(r)

(* The inductive invariant. *)
DescriptionsInv ==
  /\ Descriptions!TypeOK
  /\ \A r \in Runs : DescriptionRunOK(r)

----------------------------------------------------------------------------
LEMMA TypeNoDescriptions == Descriptions!NoRows \in Descriptions!Column
  /\ Descriptions!NoRows \in [Courses -> Pages \cup {"no row"}]
BY DEF Descriptions!NoRows, Descriptions!Column, Descriptions!Descriptions

LEMMA DescriptionTypesBegin == Descriptions!Init => Descriptions!TypeOK
<1> SUFFICES ASSUME Descriptions!Init PROVE Descriptions!TypeOK
  OBVIOUS
<1>1. read \in [Runs -> Descriptions!Column]
      /\ texts \in [Runs -> [Courses -> Pages \cup {"no row"}]]
  BY TypeNoDescriptions DEF Descriptions!Init
<1> QED
  BY <1>1 DEF Descriptions!Init, Descriptions!TypeOK, Descriptions!Phase

(* Writing a column of texts into the table leaves it a table. *)
LEMMA TypeDescriptionsWritten ==
  ASSUME Descriptions!TypeOK, NEW column \in Descriptions!Column, Descriptions!Write(column)
  PROVE  description' \in Descriptions!Column
BY DEF Descriptions!TypeOK, Descriptions!Write, Descriptions!Column

(* What FetchPages() makes of a batch, the pages that answered and what    *)
(* they show.                                                              *)
Changed(r, answered, shown) == {c \in answered : shown[c] # read[r][c]}
PagesFetched(r, batch, answered, shown) ==
  /\ descriptionLeft' = [descriptionLeft EXCEPT ![r] = @ \ batch]
  /\ failed' = [failed EXCEPT ![r] = @ \cup (batch \ answered)]
  /\ descriptionCurrent' = [descriptionCurrent EXCEPT ![r] = Changed(r, answered, shown)]
  /\ texts' = [texts EXCEPT ![r] =
                 [c \in Courses |-> IF c \in Changed(r, answered, shown) THEN shown[c]
                   ELSE "no row"]]
  /\ descriptionPc' = [descriptionPc EXCEPT ![r] = IF Changed(r, answered, shown) = {}
     THEN "asking" ELSE "writing"]

LEMMA DescriptionTypesStep == Descriptions!TypeOK /\ [Descriptions!Next]_(Descriptions!vars)
  => Descriptions!TypeOK'
<1> SUFFICES ASSUME Descriptions!TypeOK, [Descriptions!Next]_(Descriptions!vars)
             PROVE Descriptions!TypeOK'
  OBVIOUS
<1> USE
DEF Descriptions!TypeOK, Descriptions!memory, Descriptions!history, Descriptions!Goes,
    Descriptions!Phase, Descriptions!Upserting, Descriptions!Syncing
<1>1. ASSUME NEW r \in Runs, NEW list \in [Courses -> Descriptions!FromApi \cup {"no row"}],
             Descriptions!FetchCourses(r, list)
      PROVE Descriptions!TypeOK'
  <2>1. list \in Descriptions!Column /\ Descriptions!InTable(list) \subseteq Courses
    BY DEF Descriptions!Column, Descriptions!Descriptions, Descriptions!InTable
  <2> QED
    BY <1>1, <2>1 DEF Descriptions!FetchCourses
<1>2. ASSUME NEW r \in Runs, NEW c \in Courses, Descriptions!UpsertCourse(r, c)
      PROVE Descriptions!TypeOK'
  <2>1. Descriptions!Upserted(r, c) \in Descriptions!Descriptions \cup {"no row"}
    BY ZenonT(60) DEF Descriptions!Upserted, Descriptions!Column
  <2>2. description' \in Descriptions!Column
    BY <1>2, <2>1 DEF Descriptions!UpsertCourse, Descriptions!Column
  <2>3. descriptionPc' \in [Runs -> Descriptions!Phase]
        /\ descriptionCurrent' \in [Runs -> SUBSET Courses]
    <3>1. CASE Descriptions!ToBackfill(r, c)
      <4>1. descriptionPc' = [descriptionPc EXCEPT ![r] = "backfilling"]
            /\ descriptionCurrent' = [descriptionCurrent EXCEPT ![r] = {c}]
        BY <1>2, <3>1 DEF Descriptions!UpsertCourse
      <4>2. descriptionPc' \in [Runs -> Descriptions!Phase]
        BY <4>1
      <4>3. descriptionCurrent' \in [Runs -> SUBSET Courses]
        BY <4>1
      <4> QED
        BY <4>2, <4>3
    <3>2. CASE ~Descriptions!ToBackfill(r, c)
      BY <1>2, <3>2 DEF Descriptions!UpsertCourse
    <3> QED
      BY <3>1, <3>2
  <2>4. descriptionLeft' \in [Runs -> SUBSET Courses]
        /\ UNCHANGED <<read, texts, pass, failed, Descriptions!history>>
    BY <1>2 DEF Descriptions!UpsertCourse
  <2> QED
    BY <2>2, <2>3, <2>4
<1>3. ASSUME NEW r \in Runs, Descriptions!Backfill(r) PROVE Descriptions!TypeOK'
  <2>1. Descriptions!Only(descriptionCurrent[r], read[r]) \in Descriptions!Column
    BY ZenonT(60) DEF Descriptions!Only, Descriptions!Column
  <2>2. description' \in Descriptions!Column
    BY <1>3, <2>1, TypeDescriptionsWritten DEF Descriptions!Backfill
  <2>3. descriptionPc' \in [Runs -> Descriptions!Phase]
        /\ descriptionCurrent' \in [Runs -> SUBSET Courses]
    BY <1>3 DEF Descriptions!Backfill
  <2>4. overtaken' \subseteq Runs /\ lost' \subseteq Courses
    BY <1>3 DEF Descriptions!Backfill
  <2>5. UNCHANGED <<read, descriptionLeft, texts, pass, failed>>
    BY <1>3 DEF Descriptions!Backfill
  <2> QED
    BY <2>2, <2>3, <2>4, <2>5
<1>4. ASSUME NEW r \in Runs, Descriptions!UpsertsDone(r) PROVE Descriptions!TypeOK'
  BY <1>4 DEF Descriptions!UpsertsDone
<1>5. ASSUME NEW r \in Runs, NEW withPage \in SUBSET Courses,
             Descriptions!ReadCourses(r, withPage) PROVE Descriptions!TypeOK'
  <2>1. Descriptions!Only(withPage, description) \in Descriptions!Column
    BY DEF Descriptions!Only, Descriptions!Column
  <2> QED
    BY <1>5, <2>1 DEF Descriptions!ReadCourses
<1>6. ASSUME NEW r \in Runs, Descriptions!FetchPages(r) PROVE Descriptions!TypeOK'
  <2>1. PICK batch \in Descriptions!Batches(r) : \E answered \in SUBSET batch : \E shown \in [answered -> Pages] :
          PagesFetched(r, batch, answered, shown)
    BY <1>6 DEF Descriptions!FetchPages, Descriptions!Fetched, PagesFetched, Changed
  <2>2. PICK answered \in SUBSET batch : \E shown \in [answered -> Pages] :
          PagesFetched(r, batch, answered, shown)
    BY <2>1
  <2>3. PICK shown \in [answered -> Pages] : PagesFetched(r, batch, answered, shown)
    BY <2>2
  <2>4. batch \subseteq Courses
    BY DEF Descriptions!Batches
  <2>5. descriptionLeft' \in [Runs -> SUBSET Courses] /\ failed' \in [Runs -> SUBSET Courses]
    BY <2>3, <2>4 DEF PagesFetched, Changed
  <2>6. descriptionPc' \in [Runs -> Descriptions!Phase]
        /\ descriptionCurrent' \in [Runs -> SUBSET Courses]
    BY <1>6, <2>3, <2>4 DEF PagesFetched, Changed
  <2>7. texts' \in [Runs -> [Courses -> Pages \cup {"no row"}]]
    BY <2>3, <2>4 DEF PagesFetched, Changed
  <2>8. UNCHANGED <<description, read, pass, Descriptions!history>>
    BY <1>6 DEF Descriptions!FetchPages
  <2> QED
    BY <2>5, <2>6, <2>7, <2>8
<1>7. ASSUME NEW r \in Runs, Descriptions!WriteDescriptions(r) PROVE Descriptions!TypeOK'
  <2>1. texts[r] \in [Courses -> Pages \cup {"no row"}]
    OBVIOUS
  <2>2. description' \in Descriptions!Column
    <3>1. texts[r] \in Descriptions!Column
      BY <2>1 DEF Descriptions!Column, Descriptions!Descriptions
    <3> QED
      BY <1>7, <3>1, TypeDescriptionsWritten DEF Descriptions!WriteDescriptions
  <2>3. descriptionPc' \in [Runs -> Descriptions!Phase]
        /\ descriptionCurrent' \in [Runs -> SUBSET Courses]
    BY <1>7 DEF Descriptions!WriteDescriptions
  <2>4. overtaken' \subseteq Runs /\ lost' \subseteq Courses
    BY <1>7 DEF Descriptions!WriteDescriptions
  <2>5. texts' \in [Runs -> [Courses -> Pages \cup {"no row"}]]
    BY <1>7, TypeNoDescriptions DEF Descriptions!WriteDescriptions
  <2>6. UNCHANGED <<read, descriptionLeft, pass, failed>>
    BY <1>7 DEF Descriptions!WriteDescriptions
  <2> QED
    BY <2>2, <2>3, <2>4, <2>5, <2>6
<1>8. ASSUME NEW r \in Runs, Descriptions!RetryFailed(r) PROVE Descriptions!TypeOK'
  BY <1>8 DEF Descriptions!RetryFailed
<1>9. ASSUME NEW r \in Runs, Descriptions!SyncDone(r) PROVE Descriptions!TypeOK'
  BY <1>9 DEF Descriptions!SyncDone
<1>10. ASSUME NEW r \in Runs, Descriptions!Stops(r) PROVE Descriptions!TypeOK'
  BY <1>10, TypeNoDescriptions DEF Descriptions!Stops
<1>11. CASE UNCHANGED Descriptions!vars
  BY <1>11 DEF Descriptions!vars
<1> QED
  BY <1>1, <1>2, <1>3, <1>4, <1>5, <1>6, <1>7, <1>8, <1>9, <1>10, <1>11
  DEF Descriptions!Next, Descriptions!Start, Descriptions!Step

----------------------------------------------------------------------------
LEMMA DescriptionsBegin == Descriptions!Init => DescriptionsInv
<1> SUFFICES ASSUME Descriptions!Init PROVE DescriptionsInv
  OBVIOUS
<1>1. Descriptions!TypeOK
  BY DescriptionTypesBegin
<1>2. ASSUME NEW r \in Runs PROVE DescriptionRunOK(r)
  BY
  DEF Descriptions!Init, DescriptionRunOK, UpsertOK, ShowsOK, Descriptions!Upserting,
      Descriptions!Syncing
<1> QED
  BY <1>1, <1>2 DEF DescriptionsInv

(* What no step takes from a course, whoever makes it ... *)
KeepsDescription(c) ==
  /\ description[c] # "no row" => description'[c] # "no row"
  /\ description[c] \notin {"blank", "no row"} => description'[c] # "blank"
  /\ Shown(c) => Shown(c)'

(* ... and that a run which is to fill a row in is told of a page there. *)
ToldOfPage(s) ==
  /\ s \in overtaken => s \in overtaken'
  /\ \A c \in Courses :
       descriptionPc[s] = "backfilling" /\ c \in descriptionCurrent[s]
         /\ description'[c] \in Pages =>
         description[c] \in Pages \/ s \in overtaken'

(* A step of another run leaves a run's memory alone. *)
SameDescriptionRun(s) ==
  /\ descriptionPc'[s] = descriptionPc[s]
  /\ read'[s] = read[s]
  /\ descriptionLeft'[s] = descriptionLeft[s]
  /\ descriptionCurrent'[s] = descriptionCurrent[s]
  /\ texts'[s] = texts[s]
  /\ failed'[s] = failed[s]

LEMMA OtherDescriptionRunsKeep ==
  ASSUME NEW s \in Runs, DescriptionRunOK(s), SameDescriptionRun(s), ToldOfPage(s),
         \A c \in Courses : KeepsDescription(c)
  PROVE  DescriptionRunOK(s)'
<1>1. UpsertOK(s)'
  <2>1. ASSUME NEW c \in Courses, DescribedOK(s, c), BackfillOK(s, c)
        PROVE  DescribedOK(s, c)' /\ BackfillOK(s, c)'
    BY <2>1 DEF DescribedOK, BackfillOK, SameDescriptionRun, ToldOfPage, KeepsDescription
  <2> QED
    BY <2>1 DEF DescriptionRunOK, UpsertOK, SameDescriptionRun
<1>2. ShowsOK(s)'
  <2>1. ASSUME NEW c \in Courses, ShownOK(s, c) PROVE ShownOK(s, c)'
    BY <2>1 DEF ShownOK, SameDescriptionRun, KeepsDescription
  <2> QED
    BY <2>1 DEF DescriptionRunOK, ShowsOK, SameDescriptionRun
<1> QED
  BY <1>1, <1>2 DEF DescriptionRunOK

(* A step that writes nothing to the table takes nothing from a course. *)
LEMMA NoDescriptionWritten ==
  ASSUME UNCHANGED <<description, lost>>
  PROVE  \A c \in Courses : KeepsDescription(c)
BY DEF KeepsDescription, Shown

LEMMA DescriptionsStep ==
  ASSUME DescriptionsInv, [Descriptions!Next]_(Descriptions!vars)
  PROVE  DescriptionsInv'
<1> USE PagesAssumption
<1>t. Descriptions!TypeOK /\ Descriptions!TypeOK'
  BY DescriptionTypesStep DEF DescriptionsInv
<1>i. \A s \in Runs : DescriptionRunOK(s)
  BY DEF DescriptionsInv
<1>o. ASSUME NEW r \in Runs, \A c \in Courses : KeepsDescription(c),
             \A s \in Runs \ {r} : SameDescriptionRun(s) /\ ToldOfPage(s), DescriptionRunOK(r)'
      PROVE  DescriptionsInv'
  <2>1. ASSUME NEW s \in Runs PROVE DescriptionRunOK(s)'
    <3>1. CASE s = r
      BY <3>1, <1>o
    <3>2. CASE s # r
      BY <3>2, <1>o, <1>i, OtherDescriptionRunsKeep
    <3> QED
      BY <3>1, <3>2
  <2> QED
    BY <2>1, <1>t DEF DescriptionsInv
<1>1. ASSUME NEW r \in Runs, NEW list \in [Courses -> Descriptions!FromApi \cup {"no row"}],
             Descriptions!FetchCourses(r, list)
      PROVE DescriptionsInv'
  <2>1. /\ descriptionPc'[r] = "upserting" /\ read'[r] = list
           /\ descriptionLeft'[r] = Descriptions!InTable(list)
        /\ UNCHANGED <<description, descriptionCurrent, texts, pass, failed, Descriptions!history>>
    BY <1>1, <1>t DEF Descriptions!FetchCourses, Descriptions!Goes, Descriptions!TypeOK
  <2>2. \A s \in Runs \ {r} : SameDescriptionRun(s) /\ ToldOfPage(s)
    BY <1>1, <1>t
    DEF Descriptions!FetchCourses, Descriptions!Goes, Descriptions!TypeOK, SameDescriptionRun,
        ToldOfPage, Descriptions!history
  <2>3. \A c \in Courses : KeepsDescription(c)
    BY <2>1, NoDescriptionWritten DEF Descriptions!history
  <2>4. ASSUME NEW c \in Courses PROVE DescribedOK(r, c)' /\ BackfillOK(r, c)'
    BY <2>1 DEF DescribedOK, BackfillOK, Descriptions!InTable
  <2>5. DescriptionRunOK(r)'
    BY <2>1, <2>4 DEF DescriptionRunOK, UpsertOK, ShowsOK, Descriptions!Syncing
  <2> QED
    BY <2>2, <2>3, <2>5, <1>o
<1>2. ASSUME NEW r \in Runs, NEW d \in Courses, Descriptions!UpsertCourse(r, d)
      PROVE DescriptionsInv'
  <2>1. /\ descriptionPc[r] = "upserting" /\ d \in descriptionLeft[r]
           /\ descriptionLeft'[r] = descriptionLeft[r] \ {d}
        /\ UNCHANGED <<read, texts, pass, failed, overtaken, lost>>
    BY <1>2, <1>t DEF Descriptions!UpsertCourse, Descriptions!TypeOK, Descriptions!history
  <2>2. \A c \in Courses : description'[c] = IF c = d THEN Descriptions!Upserted(r, d)
        ELSE description[c]
    BY <1>2, <1>t DEF Descriptions!UpsertCourse, Descriptions!TypeOK, Descriptions!Column
  <2>3. \/ Descriptions!ToBackfill(r, d) /\ descriptionPc'[r] = "backfilling"
           /\ descriptionCurrent'[r] = {d}
        \/ ~Descriptions!ToBackfill(r, d) /\ descriptionPc'[r] = "upserting"
           /\ descriptionCurrent'[r] = descriptionCurrent[r]
    BY <1>2, <1>t DEF Descriptions!UpsertCourse, Descriptions!TypeOK
  <2>4. \A c \in Courses : DescribedOK(r, c)
    BY <2>1, <1>i DEF DescriptionRunOK, UpsertOK, Descriptions!Upserting
  <2>5. read[r][d] \in Descriptions!FromApi
    BY <2>1, <2>4 DEF DescribedOK
  <2>6. Descriptions!Upserted(r, d) = IF description[d] = "no row" THEN read[r][d]
        ELSE description[d]
    BY DEF Descriptions!Upserted
  <2>7. \A c \in Courses : KeepsDescription(c)
    BY <2>1, <2>2, <2>5, <2>6 DEF KeepsDescription, Shown, Descriptions!FromApi
  <2>8. \A s \in Runs \ {r} : SameDescriptionRun(s)
    BY <1>2, <1>t DEF Descriptions!UpsertCourse, Descriptions!TypeOK, SameDescriptionRun
  <2>9. \A s \in Runs \ {r} : ToldOfPage(s)
    BY <2>1, <2>2, <2>5, <2>6 DEF ToldOfPage, Descriptions!FromApi
  <2>10. Descriptions!ToBackfill(r, d) <=> (Descriptions!Upserted(r, d) = "blank"
         /\ read[r][d] # "blank")
    BY DEF Descriptions!ToBackfill
  <2>11. ASSUME NEW c \in Courses PROVE DescribedOK(r, c)' /\ BackfillOK(r, c)'
    <3>1. DescribedOK(r, c)
      BY <2>4
    <3>2. CASE c = d
      <4>1. description'[d] # "no row"
        BY <2>2, <2>5, <2>6 DEF Descriptions!FromApi
      <4>2. CASE Descriptions!ToBackfill(r, d)
        <5>1. description'[d] = "blank" /\ read[r][d] = "truncated"
          BY <4>2, <2>2, <2>5, <2>10 DEF Descriptions!FromApi
        <5> QED
          BY <3>2, <4>1, <4>2, <5>1, <2>1, <2>3, <2>5 DEF DescribedOK, BackfillOK
      <4>3. CASE ~Descriptions!ToBackfill(r, d)
        <5>1. description'[d] = "blank" => read[r][d] = "blank"
          BY <4>3, <2>2, <2>10
        <5> QED
          BY <3>2, <4>1, <4>3, <5>1, <2>1, <2>3, <2>5 DEF DescribedOK, BackfillOK
      <4> QED
        BY <4>2, <4>3
    <3>3. CASE c # d
      BY <3>1, <3>3, <2>1, <2>2, <2>3 DEF DescribedOK, BackfillOK
    <3> QED
      BY <3>2, <3>3
  <2>12. DescriptionRunOK(r)'
    BY <2>3, <2>11 DEF DescriptionRunOK, UpsertOK, ShowsOK, Descriptions!Syncing
  <2> QED
    BY <2>7, <2>8, <2>9, <2>12, <1>o
<1>3. ASSUME NEW r \in Runs, Descriptions!Backfill(r) PROVE DescriptionsInv'
  <2>1. /\ descriptionPc[r] = "backfilling" /\ descriptionPc'[r] = "upserting"
           /\ descriptionCurrent'[r] = {}
        /\ overtaken' = overtaken \ {r}
        /\ lost' = lost \cup {c \in descriptionCurrent[r] : description[c] \in Pages}
        /\ UNCHANGED <<read, descriptionLeft, texts, pass, failed>>
    BY <1>3, <1>t DEF Descriptions!Backfill, Descriptions!Goes, Descriptions!TypeOK
  <2>2. \A c \in Courses : DescribedOK(r, c) /\ BackfillOK(r, c)
    BY <2>1, <1>i DEF DescriptionRunOK, UpsertOK, Descriptions!Upserting
  <2>3. ASSUME NEW c \in Courses
        PROVE  description'[c] = IF c \in descriptionCurrent[r] THEN "truncated" ELSE description[c]
    <3>1. c \in descriptionCurrent[r] => read[r][c] = "truncated"
      BY <2>1, <2>2 DEF BackfillOK
    <3>2. description'[c] = IF Descriptions!Only(descriptionCurrent[r], read[r])[c] = "no row"
                            THEN description[c]
                              ELSE Descriptions!Only(descriptionCurrent[r], read[r])[c]
      BY <1>3 DEF Descriptions!Backfill, Descriptions!Write
    <3>3. Descriptions!Only(descriptionCurrent[r], read[r])[c] =
          IF c \in descriptionCurrent[r] THEN read[r][c] ELSE "no row"
      BY DEF Descriptions!Only
    <3> QED
      BY <3>1, <3>2, <3>3
  <2>4. \A c \in Courses : KeepsDescription(c)
    BY <2>1, <2>3 DEF KeepsDescription, Shown
  <2>5. \A s \in Runs \ {r} : SameDescriptionRun(s)
    BY <1>3, <1>t
    DEF Descriptions!Backfill, Descriptions!Goes, Descriptions!TypeOK, SameDescriptionRun
  <2>6. \A s \in Runs \ {r} : ToldOfPage(s)
    BY <2>1, <2>3 DEF ToldOfPage
  <2>7. ASSUME NEW c \in Courses PROVE DescribedOK(r, c)' /\ BackfillOK(r, c)'
    BY <2>1, <2>2, <2>3 DEF DescribedOK, BackfillOK
  <2>8. DescriptionRunOK(r)'
    BY <2>1, <2>7 DEF DescriptionRunOK, UpsertOK, ShowsOK, Descriptions!Syncing
  <2> QED
    BY <2>4, <2>5, <2>6, <2>8, <1>o
<1>4. ASSUME NEW r \in Runs, Descriptions!UpsertsDone(r) PROVE DescriptionsInv'
  <2>1. /\ descriptionPc[r] = "upserting" /\ descriptionPc'[r] = "upserted"
           /\ descriptionLeft[r] = {}
        /\ UNCHANGED <<description, Descriptions!memory, Descriptions!history>>
    BY <1>4, <1>t DEF Descriptions!UpsertsDone, Descriptions!Goes, Descriptions!TypeOK
  <2>2. \A s \in Runs \ {r} : SameDescriptionRun(s) /\ ToldOfPage(s)
    BY <1>4, <1>t
    DEF Descriptions!UpsertsDone, Descriptions!Goes, Descriptions!TypeOK, SameDescriptionRun,
        ToldOfPage, Descriptions!memory, Descriptions!history
  <2>3. \A c \in Courses : KeepsDescription(c)
    BY <2>1, NoDescriptionWritten DEF Descriptions!history
  <2>4. \A c \in Courses : DescribedOK(r, c)
    BY <2>1, <1>i DEF DescriptionRunOK, UpsertOK, Descriptions!Upserting
  <2>5. ASSUME NEW c \in Courses PROVE DescribedOK(r, c)' /\ BackfillOK(r, c)'
    BY <2>1, <2>4 DEF DescribedOK, BackfillOK, Descriptions!memory
  <2>6. DescriptionRunOK(r)'
    BY <2>1, <2>5 DEF DescriptionRunOK, UpsertOK, ShowsOK, Descriptions!Syncing, Descriptions!memory
  <2> QED
    BY <2>2, <2>3, <2>6, <1>o
<1>5. ASSUME NEW r \in Runs, NEW withPage \in SUBSET Courses,
             Descriptions!ReadCourses(r, withPage) PROVE DescriptionsInv'
  <2>1. /\ descriptionPc[r] = "idle" /\ descriptionPc'[r] = "asking"
           /\ descriptionLeft'[r] = withPage
        /\ read'[r] = Descriptions!Only(withPage, description)
        /\ UNCHANGED <<description, descriptionCurrent, texts, pass, failed, Descriptions!history>>
    BY <1>5, <1>t DEF Descriptions!ReadCourses, Descriptions!Goes, Descriptions!TypeOK
  <2>2. \A s \in Runs \ {r} : SameDescriptionRun(s) /\ ToldOfPage(s)
    BY <1>5, <1>t
    DEF Descriptions!ReadCourses, Descriptions!Goes, Descriptions!TypeOK, SameDescriptionRun,
        ToldOfPage, Descriptions!history
  <2>3. \A c \in Courses : KeepsDescription(c)
    BY <2>1, NoDescriptionWritten DEF Descriptions!history
  <2>4. ASSUME NEW c \in Courses PROVE ShownOK(r, c)'
    <3>1. read'[r][c] = IF c \in withPage THEN description[c] ELSE "no row"
      BY <2>1 DEF Descriptions!Only
    <3> QED
      BY <2>1, <3>1 DEF ShownOK, Shown
  <2>5. DescriptionRunOK(r)'
    BY <2>1, <2>4 DEF DescriptionRunOK, UpsertOK, ShowsOK, Descriptions!Upserting
  <2> QED
    BY <2>2, <2>3, <2>5, <1>o
<1>6. ASSUME NEW r \in Runs, Descriptions!FetchPages(r) PROVE DescriptionsInv'
  <2>1. PICK batch \in Descriptions!Batches(r) : \E answered \in SUBSET batch : \E shown \in [answered -> Pages] :
          PagesFetched(r, batch, answered, shown)
    BY <1>6 DEF Descriptions!FetchPages, Descriptions!Fetched, PagesFetched, Changed
  <2>2. PICK answered \in SUBSET batch : \E shown \in [answered -> Pages] :
          PagesFetched(r, batch, answered, shown)
    BY <2>1
  <2>3. PICK shown \in [answered -> Pages] : PagesFetched(r, batch, answered, shown)
    BY <2>2
  <2>4. descriptionPc[r] = "asking" /\ UNCHANGED <<description, read, pass, Descriptions!history>>
    BY <1>6 DEF Descriptions!FetchPages
  <2> DEFINE changed == Changed(r, answered, shown)
  <2>5. /\ descriptionLeft'[r] = descriptionLeft[r] \ batch
        /\ failed'[r] = failed[r] \cup (batch \ answered)
        /\ descriptionCurrent'[r] = changed
        /\ texts'[r] = [c \in Courses |-> IF c \in changed THEN shown[c] ELSE "no row"]
        /\ descriptionPc'[r] = IF changed = {} THEN "asking" ELSE "writing"
    BY <2>3, <1>t DEF PagesFetched, Descriptions!TypeOK
  <2>6. \A s \in Runs \ {r} : SameDescriptionRun(s) /\ ToldOfPage(s)
    BY <2>3, <2>4, <1>t
    DEF PagesFetched, Descriptions!TypeOK, SameDescriptionRun, ToldOfPage, Descriptions!history
  <2>7. \A c \in Courses : KeepsDescription(c)
    BY <2>4, NoDescriptionWritten DEF Descriptions!history
  <2>8. \A c \in changed : c \in answered /\ shown[c] \in Pages /\ shown[c] # read[r][c]
    BY DEF Changed
  <2>9. \A c \in answered : c \notin changed => read[r][c] \in Pages
    BY DEF Changed
  <2> HIDE DEF changed
  <2>10. ASSUME NEW c \in Courses PROVE ShownOK(r, c)'
    <3>1. ShownOK(r, c)
      BY <2>4, <1>i DEF DescriptionRunOK, ShowsOK, Descriptions!Syncing
    <3>2. Shown(c)' <=> Shown(c)
      BY <2>4 DEF Shown, Descriptions!history
    <3> QED
      BY <3>1, <3>2, <2>4, <2>5, <2>9 DEF ShownOK
  <2>11. ASSUME NEW c \in Courses PROVE c \in descriptionCurrent'[r] <=> texts'[r][c] # "no row"
    BY <2>5, <2>8
  <2>12. ShowsOK(r)'
    BY <2>5, <2>10, <2>11 DEF ShowsOK
  <2>13. UpsertOK(r)'
    BY <2>5 DEF UpsertOK, Descriptions!Upserting
  <2> QED
    BY <2>6, <2>7, <2>12, <2>13, <1>o DEF DescriptionRunOK
<1>7. ASSUME NEW r \in Runs, Descriptions!WriteDescriptions(r) PROVE DescriptionsInv'
  <2>1. /\ descriptionPc[r] = "writing" /\ descriptionPc'[r] = "asking"
        /\ overtaken' = overtaken \cup
             {s \in Runs : descriptionPc[s] = "backfilling"
               /\ descriptionCurrent[s] \cap descriptionCurrent[r] # {}}
        /\ lost' = lost \ descriptionCurrent[r]
        /\ UNCHANGED <<read, descriptionLeft, pass, failed>>
    BY <1>7, <1>t DEF Descriptions!WriteDescriptions, Descriptions!Goes, Descriptions!TypeOK
  <2>2. ASSUME NEW c \in Courses
        PROVE  /\ c \in descriptionCurrent[r] => description'[c] \in Pages
               /\ c \notin descriptionCurrent[r] => description'[c] = description[c]
    <3>1. texts[r][c] \in Pages \cup {"no row"}
          /\ (c \in descriptionCurrent[r] <=> texts[r][c] # "no row")
      <4>1. texts[r] \in [Courses -> Pages \cup {"no row"}]
        BY <1>t DEF Descriptions!TypeOK
      <4>2. c \in descriptionCurrent[r] <=> texts[r][c] # "no row"
        BY <2>1, <1>i DEF DescriptionRunOK, ShowsOK
      <4> QED
        BY <4>1, <4>2
    <3>2. description'[c] = IF texts[r][c] = "no row" THEN description[c] ELSE texts[r][c]
      BY <1>7 DEF Descriptions!WriteDescriptions, Descriptions!Write
    <3> QED
      BY <3>1, <3>2
  <2>3. \A c \in Courses : KeepsDescription(c)
    BY <2>1, <2>2 DEF KeepsDescription, Shown
  <2>4. \A s \in Runs \ {r} : SameDescriptionRun(s)
    BY <1>7, <1>t
    DEF Descriptions!WriteDescriptions, Descriptions!Goes, Descriptions!TypeOK, SameDescriptionRun
  <2>5. \A s \in Runs \ {r} : ToldOfPage(s)
    BY <2>1, <2>2 DEF ToldOfPage
  <2>6. ASSUME NEW c \in Courses PROVE ShownOK(r, c)'
    <3>1. ShownOK(r, c) /\ KeepsDescription(c)
      BY <2>1, <2>3, <1>i DEF DescriptionRunOK, ShowsOK, Descriptions!Syncing
    <3>2. c \in descriptionCurrent[r] => Shown(c)'
      BY <2>2 DEF Shown
    <3> QED
      BY <3>1, <3>2, <2>1 DEF ShownOK, KeepsDescription
  <2>7. DescriptionRunOK(r)'
    BY <2>1, <2>6 DEF DescriptionRunOK, UpsertOK, ShowsOK, Descriptions!Upserting
  <2> QED
    BY <2>3, <2>4, <2>5, <2>7, <1>o
<1>8. ASSUME NEW r \in Runs, Descriptions!RetryFailed(r) PROVE DescriptionsInv'
  <2>1. /\ descriptionPc[r] = "asking" /\ descriptionPc'[r] = "asking" /\ descriptionLeft[r] = {}
        /\ descriptionLeft'[r] = failed[r] /\ failed'[r] = {}
        /\ UNCHANGED <<description, descriptionPc, read, descriptionCurrent, texts,
           Descriptions!history>>
    BY <1>8, <1>t DEF Descriptions!RetryFailed, Descriptions!TypeOK
  <2>2. \A s \in Runs \ {r} : SameDescriptionRun(s) /\ ToldOfPage(s)
    BY <1>8, <1>t
    DEF Descriptions!RetryFailed, Descriptions!TypeOK, SameDescriptionRun, ToldOfPage,
        Descriptions!history
  <2>3. \A c \in Courses : KeepsDescription(c)
    BY <2>1, NoDescriptionWritten DEF Descriptions!history
  <2>4. ASSUME NEW c \in Courses PROVE ShownOK(r, c)'
    <3>1. ShownOK(r, c) /\ (Shown(c)' <=> Shown(c))
      BY <2>1, <1>i DEF DescriptionRunOK, ShowsOK, Descriptions!Syncing, Shown, Descriptions!history
    <3> QED
      BY <3>1, <2>1 DEF ShownOK
  <2>5. DescriptionRunOK(r)'
    BY <2>1, <2>4 DEF DescriptionRunOK, UpsertOK, ShowsOK, Descriptions!Upserting
  <2> QED
    BY <2>2, <2>3, <2>5, <1>o
<1>9. ASSUME NEW r \in Runs, Descriptions!SyncDone(r) PROVE DescriptionsInv'
  <2>1. /\ descriptionPc[r] = "asking" /\ descriptionPc'[r] = "synced" /\ descriptionLeft[r] = {}
        /\ UNCHANGED <<description, Descriptions!memory, Descriptions!history>>
    BY <1>9, <1>t DEF Descriptions!SyncDone, Descriptions!Goes, Descriptions!TypeOK
  <2>2. \A s \in Runs \ {r} : SameDescriptionRun(s) /\ ToldOfPage(s)
    BY <1>9, <1>t
    DEF Descriptions!SyncDone, Descriptions!Goes, Descriptions!TypeOK, SameDescriptionRun,
        ToldOfPage, Descriptions!memory, Descriptions!history
  <2>3. \A c \in Courses : KeepsDescription(c)
    BY <2>1, NoDescriptionWritten DEF Descriptions!history
  <2>4. ASSUME NEW c \in Courses PROVE ShownOK(r, c)'
    <3>1. ShownOK(r, c) /\ (Shown(c)' <=> Shown(c))
      BY <2>1, <1>i DEF DescriptionRunOK, ShowsOK, Descriptions!Syncing, Shown, Descriptions!history
    <3> QED
      BY <3>1, <2>1 DEF ShownOK, Descriptions!memory
  <2>5. DescriptionRunOK(r)'
    BY <2>1, <2>4
    DEF DescriptionRunOK, UpsertOK, ShowsOK, Descriptions!Upserting, Descriptions!memory
  <2> QED
    BY <2>2, <2>3, <2>5, <1>o
<1>10. ASSUME NEW r \in Runs, Descriptions!Stops(r) PROVE DescriptionsInv'
  <2>1. descriptionPc'[r] = "stopped" /\ overtaken' = overtaken \ {r}
        /\ UNCHANGED <<description, lost>>
    BY <1>10, <1>t DEF Descriptions!Stops, Descriptions!TypeOK
  <2>2. \A s \in Runs \ {r} : SameDescriptionRun(s)
    BY <1>10, <1>t DEF Descriptions!Stops, Descriptions!TypeOK, SameDescriptionRun
  <2>3. \A s \in Runs \ {r} : ToldOfPage(s)
    BY <2>1 DEF ToldOfPage
  <2>4. \A c \in Courses : KeepsDescription(c)
    BY <2>1, NoDescriptionWritten
  <2>5. DescriptionRunOK(r)'
    BY <2>1 DEF DescriptionRunOK, UpsertOK, ShowsOK, Descriptions!Upserting, Descriptions!Syncing
  <2> QED
    BY <2>2, <2>3, <2>4, <2>5, <1>o
<1>11. CASE UNCHANGED Descriptions!vars
  <2>1. ASSUME NEW s \in Runs PROVE SameDescriptionRun(s) /\ ToldOfPage(s)
    BY <1>11
    DEF Descriptions!vars, Descriptions!memory, Descriptions!history, SameDescriptionRun, ToldOfPage
  <2>2. \A c \in Courses : KeepsDescription(c)
    BY <1>11, NoDescriptionWritten DEF Descriptions!vars, Descriptions!history
  <2> QED
    BY <2>1, <2>2, <1>i, <1>t, OtherDescriptionRunsKeep DEF DescriptionsInv
<1> QED
  BY <1>1, <1>2, <1>3, <1>4, <1>5, <1>6, <1>7, <1>8, <1>9, <1>10, <1>11
  DEF Descriptions!Next, Descriptions!Start, Descriptions!Step

LEMMA DescriptionsPart == [Next]_vars => [Descriptions!Next]_(Descriptions!vars)
<1>1. CASE UNCHANGED descriptionVars
  BY <1>1 DEF descriptionVars, Descriptions!vars, Descriptions!memory, Descriptions!history
<1> QED
  BY <1>1 DEF Next, vars

LEMMA DescriptionsInvariance == Spec => []DescriptionsInv
<1>1. Init => DescriptionsInv
  BY DescriptionsBegin DEF Init, DescriptionsIdle
<1>2. DescriptionsInv /\ [Next]_vars => DescriptionsInv'
  BY DescriptionsStep, DescriptionsPart
<1> QED
  BY <1>1, <1>2, PTL DEF Spec

----------------------------------------------------------------------------
(* Of all the steps, only a backfill by a run that a sync has overtaken    *)
(* takes the text of a page away.                                          *)
LEMMA LostStep ==
  ASSUME DescriptionsInv, [Descriptions!Next]_(Descriptions!vars), NEW c \in Courses,
         description[c] \in Pages, description'[c] \notin Pages
  PROVE  \E r \in overtaken : descriptionPc[r] = "backfilling" /\ c \in descriptionCurrent[r]
<1> USE PagesAssumption
<1>t. Descriptions!TypeOK
  BY DEF DescriptionsInv
<1>1. ASSUME NEW r \in Runs, NEW d \in Courses, Descriptions!UpsertCourse(r, d) PROVE FALSE
  BY <1>1, <1>t
  DEF Descriptions!UpsertCourse, Descriptions!Upserted, Descriptions!TypeOK, Descriptions!Column
<1>2. ASSUME NEW r \in Runs, Descriptions!Backfill(r)
      PROVE  r \in overtaken /\ descriptionPc[r] = "backfilling" /\ c \in descriptionCurrent[r]
  <2>1. descriptionPc[r] = "backfilling"
    BY <1>2 DEF Descriptions!Backfill, Descriptions!Goes
  <2>2. description'[c] = IF Descriptions!Only(descriptionCurrent[r], read[r])[c] = "no row"
                          THEN description[c]
                            ELSE Descriptions!Only(descriptionCurrent[r], read[r])[c]
    BY <1>2 DEF Descriptions!Backfill, Descriptions!Write
  <2>3. c \in descriptionCurrent[r]
    BY <2>2 DEF Descriptions!Only
  <2>4. BackfillOK(r, c)
    BY <2>1 DEF DescriptionsInv, DescriptionRunOK, UpsertOK, Descriptions!Upserting
  <2> QED
    BY <2>1, <2>3, <2>4 DEF BackfillOK
<1>3. ASSUME NEW r \in Runs, Descriptions!WriteDescriptions(r) PROVE FALSE
  <2>1. description'[c] = IF texts[r][c] = "no row" THEN description[c] ELSE texts[r][c]
    BY <1>3 DEF Descriptions!WriteDescriptions, Descriptions!Write
  <2>2. texts[r][c] \in Pages \cup {"no row"}
    BY ZenonT(60), <1>t DEF Descriptions!TypeOK
  <2> QED
    BY <2>1, <2>2
<1>4. ASSUME NEW r \in Runs,
             Descriptions!Start(r) \/ Descriptions!UpsertsDone(r) \/ Descriptions!FetchPages(r)
               \/ Descriptions!RetryFailed(r)
                             \/ Descriptions!SyncDone(r) \/ Descriptions!Stops(r)
      PROVE  FALSE
  BY <1>4
  DEF Descriptions!Start, Descriptions!FetchCourses, Descriptions!ReadCourses,
      Descriptions!UpsertsDone, Descriptions!FetchPages, Descriptions!RetryFailed,
      Descriptions!SyncDone, Descriptions!Stops
<1>5. CASE UNCHANGED Descriptions!vars
  BY <1>5 DEF Descriptions!vars
<1> QED
  BY <1>1, <1>2, <1>3, <1>4, <1>5 DEF Descriptions!Next, Descriptions!Step

(* A page's text is lost in the race of a backfill with a sync only.       *)
THEOREM LostOnlyInRace == Spec => PageLostOnlyInRace
<1>1. DescriptionsInv /\ [Next]_vars =>
        [\A c \in Courses : description[c] \in Pages /\ description'[c] \notin Pages =>
           \E r \in overtaken :
             descriptionPc[r] = "backfilling" /\ c \in descriptionCurrent[r]]_(Descriptions!vars)
  BY DescriptionsPart, LostStep
<1> QED
  BY <1>1, DescriptionsInvariance, PTL
  DEF Spec, PageLostOnlyInRace, Descriptions!PageLostOnlyInRace

(* Completed, processCourses() has every course listed in the table, blank *)
(* only where the API has nothing either.                                  *)
THEOREM Described == Spec => []ListedAreDescribed
<1>1. DescriptionsInv => ListedAreDescribed
  <2> SUFFICES ASSUME DescriptionsInv, NEW r \in Runs, descriptionPc[r] = "upserted",
                      NEW c \in Descriptions!InTable(read[r])
               PROVE  /\ description[c] # "no row"
                      /\ read[r][c] # "blank" => description[c] # "blank"
    BY DEF ListedAreDescribed, Descriptions!ListedAreDescribed
  <2>1. c \in Courses /\ read[r][c] # "no row"
    BY DEF Descriptions!InTable
  <2>2. DescribedOK(r, c) /\ descriptionLeft[r] = {}
    BY <2>1 DEF DescriptionsInv, DescriptionRunOK, UpsertOK
  <2> QED
    BY <2>1, <2>2 DEF DescribedOK
<1> QED
  BY <1>1, DescriptionsInvariance, PTL

(* Completed, a sync leaves the text of a page in every course it took on, *)
(* but where both sources failed or a backfill overwrote it.               *)
THEOREM Synced == Spec => []SyncedShowPages
<1>1. DescriptionsInv => SyncedShowPages
  <2> SUFFICES ASSUME DescriptionsInv, NEW r \in Runs, descriptionPc[r] = "synced",
                      NEW c \in Descriptions!InTable(read[r]) \ (failed[r] \cup lost)
               PROVE  description[c] \in Pages
    BY DEF SyncedShowPages, Descriptions!SyncedShowPages
  <2>1. c \in Courses /\ read[r][c] # "no row"
    BY DEF Descriptions!InTable
  <2>2. ShownOK(r, c) /\ descriptionLeft[r] = {}
    BY <2>1 DEF DescriptionsInv, DescriptionRunOK, ShowsOK
  <2> QED
    BY <2>1, <2>2 DEF ShownOK, Shown
<1> QED
  BY <1>1, DescriptionsInvariance, PTL

----------------------------------------------------------------------------
(* The sources of the other jobs change a bounded number of times. *)
LEMMA OneMoreChange ==
  ASSUME NEW n \in 0..MaxChanges, n < MaxChanges PROVE n + 1 \in 0..MaxChanges
BY ChangesAssumption

----------------------------------------------------------------------------
(* The job that applies Cheminot's file.  What a run is about to write has *)
(* its program and its course.                                             *)
KeysOK(r) ==
  /\ known[r] \subseteq programRows
  /\ \A p \in cheminotLeft[r] : p[1] \in known[r]
  /\ cheminotCurrent[r] \subseteq programRows \X courseRows

(* A run that nothing has disturbed works on the programs and the file     *)
(* there are, and a row is either as the run read it or as the file says,  *)
(* whoever wrote it.                                                       *)
Applying == {"matching", "updating", "creating", "matched"}

SourcesOK(r) ==
  r \notin cheminotDisturbed =>
    /\ cheminotPc[r] \in Applying \cup {"parsing"} =>
         /\ known[r] = programRows
         /\ \A p \in Cheminot!Pairs : details[p] = snapshot[r][p] \/ details[p] = file[p]
    /\ cheminotPc[r] \in Applying => parsed[r] = file

(* One pair is written at a time, and those behind the loop are done.      *)
LoopOK(r) ==
  /\ cheminotPc[r] \in {"idle", "parsing", "matching", "matched"} => cheminotCurrent[r] = {}
  /\ \A p, q \in cheminotCurrent[r] : p = q
  /\ cheminotPc[r] = "matched" => cheminotLeft[r] = {}
  /\ cheminotPc[r] \in Applying /\ r \notin cheminotDisturbed =>
       \A p \in Cheminot!InTable(file) \ (cheminotLeft[r] \cup cheminotCurrent[r]) :
         p[1] \in known[r] /\ p[2] \in courseRows => details[p] = file[p]

CheminotRunOK(r) == KeysOK(r) /\ SourcesOK(r) /\ LoopOK(r)

CheminotInv == Cheminot!TypeOK /\ \A r \in Runs : CheminotRunOK(r)

LEMMA CheminotInit == Cheminot!Init => CheminotInv
<1> SUFFICES ASSUME Cheminot!Init PROVE CheminotInv
  OBVIOUS
<1>1. Cheminot!TypeOK
  <2>1. fileChanges \in 0..MaxChanges
    BY ChangesAssumption DEF Cheminot!Init
  <2>2. Cheminot!NoRows \in Cheminot!Column
    BY DEF Cheminot!NoRows, Cheminot!Column
  <2> QED
    BY <2>1, <2>2 DEF Cheminot!Init, Cheminot!TypeOK, Cheminot!Phase, Cheminot!Working
<1>2. ASSUME NEW r \in Runs PROVE CheminotRunOK(r)
  BY DEF Cheminot!Init, CheminotRunOK, KeysOK, SourcesOK, LoopOK, Applying
<1> QED
  BY <1>1, <1>2 DEF CheminotInv

(* A run that takes no step itself: a write of another leaves each row as  *)
(* it was or as the file says, or disturbs it.                             *)
LEMMA CheminotBystander ==
  ASSUME CheminotInv, NEW s \in Runs,
         UNCHANGED <<programRows, courseRows, file>>,
         cheminotPc'[s] = cheminotPc[s], known'[s] = known[s], snapshot'[s] = snapshot[s],
         parsed'[s] = parsed[s], cheminotLeft'[s] = cheminotLeft[s],
         cheminotCurrent'[s] = cheminotCurrent[s], cheminotDisturbed \subseteq cheminotDisturbed',
         cheminotPc[s] # "idle" /\ s \notin cheminotDisturbed' =>
           \A p \in Cheminot!Pairs : details'[p] = details[p] \/ details'[p] = file[p]
  PROVE  CheminotRunOK(s)'
<1> USE DEF CheminotInv, CheminotRunOK, Applying, Cheminot!InTable
<1>1. KeysOK(s)'
  BY DEF KeysOK
<1>2. SourcesOK(s)'
  BY DEF SourcesOK
<1>3. LoopOK(s)'
  BY ZenonT(60) DEF LoopOK
<1> QED
  BY <1>1, <1>2, <1>3

LEMMA CheminotStep == CheminotInv /\ Cheminot!Next => CheminotInv'
<1> SUFFICES ASSUME CheminotInv, Cheminot!Next PROVE CheminotInv'
  OBVIOUS
<1> USE DEF CheminotInv, Cheminot!Goes
<1>t. Cheminot!TypeOK
  OBVIOUS
<1>1. CASE Cheminot!SourcesChange
  <2>1. Cheminot!TypeOK'
    <3> USE DEF Cheminot!TypeOK, Cheminot!Column
    <3>1. fileChanges' \in 0..MaxChanges
      <4>1. fileChanges \in 0..MaxChanges /\ fileChanges < MaxChanges
            /\ fileChanges' = fileChanges + 1
        BY <1>1 DEF Cheminot!SourcesChange
      <4> QED
        BY <4>1, OneMoreChange
    <3>d. cheminotDisturbed' \subseteq Runs
      BY <1>1 DEF Cheminot!SourcesChange
    <3>2. /\ programRows' \subseteq Programs /\ courseRows' \subseteq Courses
          /\ file' \in [Cheminot!Pairs -> Details \cup {"no row"}]
          /\ programRows \subseteq programRows' /\ courseRows \subseteq courseRows'
      BY <1>1 DEF Cheminot!SourcesChange
    <3> QED
      BY <1>1, <3>1, <3>2, <3>d DEF Cheminot!SourcesChange, Cheminot!memory, Cheminot!InTable
  <2>2. ASSUME NEW r \in Runs PROVE CheminotRunOK(r)'
    <3>1. programRows \subseteq programRows' /\ courseRows \subseteq courseRows'
      BY <1>1 DEF Cheminot!SourcesChange
    <3>2. r \notin cheminotDisturbed' => cheminotPc[r] = "idle"
      BY <1>1 DEF Cheminot!SourcesChange
    <3>3. CheminotRunOK(r)
      OBVIOUS
    <3>4. UNCHANGED <<details, cheminotPc, known, snapshot, parsed, cheminotLeft, cheminotCurrent>>
      BY <1>1 DEF Cheminot!SourcesChange, Cheminot!memory
    <3> QED
      BY <3>1, <3>2, <3>3, <3>4 DEF CheminotRunOK, KeysOK, SourcesOK, LoopOK, Applying
  <2> QED
    BY <2>1, <2>2
<1>2. ASSUME NEW r \in Runs, Cheminot!ReadPrograms(r) \/ Cheminot!Step(r) \/ Cheminot!Stops(r)
      PROVE  CheminotInv'
  <2> USE DEF Cheminot!TypeOK, Cheminot!Column, Cheminot!Phase, Cheminot!Working, Cheminot!sources,
              Cheminot!InTable
  <2>o. ASSUME NEW s \in Runs \ {r},
               UNCHANGED <<programRows, courseRows, file, fileChanges>>,
               cheminotDisturbed \subseteq cheminotDisturbed',
               cheminotPc[s] # "idle" /\ s \notin cheminotDisturbed' =>
                 \A p \in Cheminot!Pairs : details'[p] = details[p] \/ details'[p] = file[p],
               cheminotPc'[s] = cheminotPc[s], known'[s] = known[s], snapshot'[s] = snapshot[s],
               parsed'[s] = parsed[s], cheminotLeft'[s] = cheminotLeft[s],
               cheminotCurrent'[s] = cheminotCurrent[s]
        PROVE  CheminotRunOK(s)'
    <3> HIDE DEF CheminotInv
    <3> QED
      BY <2>o, CheminotBystander
  <2>r. CheminotRunOK(r)
    OBVIOUS
  <2>1. CASE Cheminot!ReadPrograms(r)
    <3>1. Cheminot!TypeOK'
      BY <2>1 DEF Cheminot!ReadPrograms
    <3>2. CheminotRunOK(r)'
      <4>1. KeysOK(r)'
        BY <2>1, <2>r DEF Cheminot!ReadPrograms, CheminotRunOK, KeysOK
      <4>2. SourcesOK(r)'
        BY <2>1, <2>r DEF Cheminot!ReadPrograms, SourcesOK, Applying
      <4>3. LoopOK(r)'
        BY ZenonT(60), <2>1, <2>r DEF Cheminot!ReadPrograms, CheminotRunOK, LoopOK, Applying
      <4> QED
        BY <4>1, <4>2, <4>3 DEF CheminotRunOK
    <3>3. ASSUME NEW s \in Runs \ {r} PROVE CheminotRunOK(s)'
      BY <2>1, <2>o DEF Cheminot!ReadPrograms
    <3> QED
      BY <3>1, <3>2, <3>3
  <2>2. CASE Cheminot!ParseFile(r)
    <3>1. Cheminot!TypeOK'
      BY <2>2 DEF Cheminot!ParseFile
    <3>2. CheminotRunOK(r)'
      BY <2>2, <2>r DEF Cheminot!ParseFile, CheminotRunOK, KeysOK, SourcesOK, LoopOK, Applying
    <3>3. ASSUME NEW s \in Runs \ {r} PROVE CheminotRunOK(s)'
      BY <2>2, <2>o DEF Cheminot!ParseFile
    <3> QED
      BY <3>1, <3>2, <3>3
  <2>3. ASSUME NEW p \in Cheminot!Pairs, Cheminot!MatchCourse(r, p) PROVE CheminotInv'
    <3> DEFINE writes == p[2] \in courseRows /\ (Cheminot!ToCreate(r, p) \/ Cheminot!ToUpdate(r, p))
    <3>1. Cheminot!TypeOK'
      <4>1. cheminotPc' \in [Runs -> Cheminot!Phase]
            /\ cheminotCurrent' \in [Runs -> SUBSET Cheminot!Pairs]
        <5>1. CASE writes
          <6>1. cheminotPc' \in {[cheminotPc EXCEPT ![r] = "creating"], [cheminotPc EXCEPT ![r] = "updating"]}
            BY <2>3, <5>1 DEF Cheminot!MatchCourse
          <6>2. cheminotCurrent' = [cheminotCurrent EXCEPT ![r] = {p}]
                /\ {p} \in SUBSET Cheminot!Pairs
            BY <2>3, <5>1 DEF Cheminot!MatchCourse
          <6> QED
            BY <6>1, <6>2
        <5>2. CASE ~writes
          BY <2>3, <5>2 DEF Cheminot!MatchCourse
        <5> QED
          BY <5>1, <5>2
      <4> QED
        BY <2>3, <4>1 DEF Cheminot!MatchCourse
    <3>2. CheminotRunOK(r)'
      <4>1. KeysOK(r)'
        <5>1. p \in cheminotLeft[r] /\ cheminotCurrent[r] = {} /\ known[r] \subseteq programRows
              /\ p[1] \in known[r]
          BY <2>3, <2>r DEF Cheminot!MatchCourse, CheminotRunOK, KeysOK, LoopOK
        <5>2. cheminotCurrent'[r] \subseteq programRows \X courseRows
          <6>1. CASE p[2] \in courseRows
            <7>1. p \in programRows \X courseRows
              BY <5>1, <6>1 DEF Cheminot!Pairs
            <7> QED
              <8>1. cheminotCurrent' \in {cheminotCurrent, [cheminotCurrent EXCEPT ![r] = {p}]}
                BY <2>3 DEF Cheminot!MatchCourse
              <8>2. cheminotCurrent'[r] = cheminotCurrent[r] \/ cheminotCurrent'[r] = {p}
                BY <8>1
              <8> QED
                BY <8>2, <5>1, <7>1
          <6>2. CASE p[2] \notin courseRows
            BY <2>3, <5>1, <6>2 DEF Cheminot!MatchCourse
          <6> QED
            BY <6>1, <6>2
        <5> QED
          BY <2>3, <2>r, <5>1, <5>2 DEF Cheminot!MatchCourse, CheminotRunOK, KeysOK
      <4>2. SourcesOK(r)'
        BY <2>3, <2>r DEF Cheminot!MatchCourse, CheminotRunOK, SourcesOK, Applying
      <4>3. LoopOK(r)'
        <5>1. CASE writes
          <6>1. cheminotPc'[r] \in {"updating", "creating"} /\ cheminotCurrent'[r] = {p}
            BY <2>3, <5>1 DEF Cheminot!MatchCourse
          <6>2. /\ cheminotPc[r] \in Applying /\ cheminotCurrent[r] = {}
                /\ cheminotLeft'[r] = cheminotLeft[r] \ {p}
                /\ UNCHANGED <<cheminotDisturbed, file, known, courseRows, details>>
            BY <2>3, <2>r DEF Cheminot!MatchCourse, CheminotRunOK, LoopOK, Applying
          <6> QED
            BY <6>1, <6>2, <2>r DEF CheminotRunOK, LoopOK
        <5>2. CASE ~writes
          <6>1. r \notin cheminotDisturbed /\ p[2] \in courseRows => details[p] = file[p]
            BY <2>3, <2>r, <5>2
            DEF Cheminot!MatchCourse, CheminotRunOK, SourcesOK, Applying, Cheminot!ToCreate,
                Cheminot!ToUpdate, Cheminot!HasChanged
          <6> QED
            BY ZenonT(60), <2>3, <2>r, <5>2, <6>1
            DEF Cheminot!MatchCourse, CheminotRunOK, LoopOK, Applying
        <5> QED
          BY <5>1, <5>2
      <4> QED
        BY <4>1, <4>2, <4>3 DEF CheminotRunOK
    <3>3. ASSUME NEW s \in Runs \ {r} PROVE CheminotRunOK(s)'
      BY <2>3, <2>o DEF Cheminot!MatchCourse
    <3> QED
      BY <3>1, <3>2, <3>3
  <2>4. ASSUME NEW p \in Cheminot!Pairs,
               Cheminot!UpdateProgramCourse(r, p) \/ Cheminot!CreateProgramCourse(r, p)
        PROVE  CheminotInv'
    <3>w. /\ p \in cheminotCurrent[r] /\ cheminotPc[r] \in {"updating", "creating"}
          /\ cheminotPc' = [cheminotPc EXCEPT ![r] = "matching"]
          /\ Cheminot!Writes(r, p)
      BY <2>4 DEF Cheminot!UpdateProgramCourse, Cheminot!CreateProgramCourse
    <3>1. Cheminot!TypeOK'
      <4>1. p \in programRows \X courseRows
        BY <3>w, <2>r DEF CheminotRunOK, KeysOK
      <4> QED
        BY ZenonT(60), <3>w, <4>1 DEF Cheminot!Writes
    <3>2. CheminotRunOK(r)'
      <4>1. KeysOK(r)'
        BY <3>w, <2>r DEF Cheminot!Writes, CheminotRunOK, KeysOK
      <4>2. SourcesOK(r)'
        BY <3>w, <2>r DEF Cheminot!Writes, CheminotRunOK, SourcesOK, Applying
      <4>3. LoopOK(r)'
        <5>1. cheminotCurrent[r] = {p}
          BY <3>w, <2>r DEF CheminotRunOK, LoopOK
        <5>2. r \notin cheminotDisturbed' => r \notin cheminotDisturbed /\ parsed[r] = file
          BY <3>w, <2>r DEF Cheminot!Writes, CheminotRunOK, SourcesOK, Applying
        <5> QED
          <6>1. /\ cheminotPc'[r] = "matching" /\ cheminotPc[r] \in Applying
                   /\ cheminotCurrent'[r] = {}
                /\ details' = [details EXCEPT ![p] = parsed[r][p]]
                /\ UNCHANGED <<cheminotLeft, file, known, courseRows>>
            BY <3>w DEF Cheminot!Writes, Applying
          <6> QED
            BY ZenonT(60), <2>r, <5>1, <5>2, <6>1 DEF CheminotRunOK, LoopOK
      <4> QED
        BY <4>1, <4>2, <4>3 DEF CheminotRunOK
    <3>3. ASSUME NEW s \in Runs \ {r} PROVE CheminotRunOK(s)'
      <4>1. cheminotPc[s] # "idle" /\ s \notin cheminotDisturbed' =>
              \A q \in Cheminot!Pairs : details'[q] = details[q] \/ details'[q] = file[q]
        BY <3>w DEF Cheminot!Writes
      <4> QED
        BY <3>w, <4>1, <2>o DEF Cheminot!Writes
    <3> QED
      BY <3>1, <3>2, <3>3
  <2>5. CASE Cheminot!CreateRefused(r) \/ Cheminot!Stops(r)
    <3>f. /\ cheminotPc' = [cheminotPc EXCEPT ![r] = "refused"]
             \/ cheminotPc' = [cheminotPc EXCEPT ![r] = "stopped"]
          /\ Cheminot!Forget(r)
          /\ UNCHANGED <<programRows, courseRows, file, fileChanges, details, cheminotDisturbed>>
      BY <2>5 DEF Cheminot!CreateRefused, Cheminot!Stops
    <3>1. Cheminot!TypeOK'
      BY <3>f DEF Cheminot!Forget, Cheminot!NoRows
    <3>2. CheminotRunOK(r)'
      BY ZenonT(60), <3>f DEF Cheminot!Forget, CheminotRunOK, KeysOK, SourcesOK, LoopOK, Applying
    <3>3. ASSUME NEW s \in Runs \ {r} PROVE CheminotRunOK(s)'
      BY <3>f, <2>o DEF Cheminot!Forget
    <3> QED
      BY <3>1, <3>2, <3>3
  <2>6. CASE Cheminot!MatchingDone(r)
    <3>1. Cheminot!TypeOK'
      BY <2>6 DEF Cheminot!MatchingDone, Cheminot!memory
    <3>2. CheminotRunOK(r)'
      BY <2>6, <2>r
      DEF Cheminot!MatchingDone, Cheminot!memory, CheminotRunOK, KeysOK, SourcesOK, LoopOK, Applying
    <3>3. ASSUME NEW s \in Runs \ {r} PROVE CheminotRunOK(s)'
      BY <2>6, <2>o DEF Cheminot!MatchingDone, Cheminot!memory
    <3> QED
      BY <3>1, <3>2, <3>3
  <2> QED
    BY <1>2, <2>1, <2>2, <2>3, <2>4, <2>5, <2>6 DEF Cheminot!Step
<1> QED
  BY <1>1, <1>2 DEF Cheminot!Next

LEMMA CheminotStutter == CheminotInv /\ UNCHANGED cheminotVars => CheminotInv'
<1> SUFFICES ASSUME CheminotInv, UNCHANGED cheminotVars PROVE CheminotInv'
  OBVIOUS
<1>1. Cheminot!TypeOK'
  BY DEF cheminotVars, CheminotInv, Cheminot!TypeOK, Cheminot!InTable
<1>2. ASSUME NEW r \in Runs PROVE CheminotRunOK(r)'
  BY CheminotBystander DEF cheminotVars
<1> QED
  BY <1>1, <1>2 DEF CheminotInv

LEMMA CheminotInvariance == Spec => []CheminotInv
<1>1. Init => CheminotInv
  BY CheminotInit DEF Init, CheminotIdle
<1>2. CheminotInv /\ [Next]_vars => CheminotInv'
  BY CheminotStep, CheminotStutter DEF Next, vars
<1> QED
  BY <1>1, <1>2, PTL DEF Spec

(* A run that completes undisturbed has brought every course the file      *)
(* lists up to the file, although it decided against rows read before.     *)
THEOREM Matched == Spec => []MatchedRunApplies
<1>1. CheminotInv => MatchedRunApplies
  BY
  DEF MatchedRunApplies, Cheminot!MatchedRunApplies, CheminotInv, CheminotRunOK, SourcesOK,
      LoopOK, Applying
<1> QED
  BY <1>1, CheminotInvariance, PTL

----------------------------------------------------------------------------
(* The job that writes the programs.  The types a run has not found are    *)
(* those it may have to create; a type that is missing ends the run.       *)
NewTypesOK(r) ==
  /\ programsPc[r] = "creating types" => fetched[r].types \subseteq types \cup newTypes[r]
  /\ r \in untyped => programsPc[r] = "failed"

(* What an undisturbed run fetched is what the API answers.  As long as it *)
(* has not looked at the types in vain, they are all missing or all there. *)
FetchedOK(r) ==
  r \notin programsDisturbed =>
    /\ programsPc[r] \in {"fetched", "creating types", "upserting", "updated"} => fetched[r] = api
    /\ programsPc[r] = "creating types" =>
         newTypes[r] \cap types = {} \/ fetched[r].types \subseteq types
    /\ programsPc[r] = "upserting" /\ r \notin unlucky => fetched[r].types \subseteq types

(* Its upserts that are over have left the program as the API says.        *)
UpsertsOK(r) ==
  r \notin programsDisturbed =>
    /\ programsPc[r] = "updated" => waiting[r] \cup updating[r] \cup creating[r] = {}
    /\ programsPc[r] \in {"upserting", "updated"} =>
         \A g \in api.programs \ (waiting[r] \cup updating[r] \cup creating[r]) :
           g \in programs /\ typesOf[g] = api.typesOf[g]

ProgramRunOK(r) == NewTypesOK(r) /\ FetchedOK(r) /\ UpsertsOK(r)

ProgramsInv ==
  /\ ProgramTable!TypeOK
  /\ ProgramTable!Consistent(api)
  /\ ProgramTable!TypesRaceIsHarmless
  /\ \A r \in Runs : ProgramRunOK(r)

LEMMA ProgramsInit == ProgramTable!Init => ProgramsInv
<1> SUFFICES ASSUME ProgramTable!Init PROVE ProgramsInv
  OBVIOUS
<1> USE DEF ProgramTable!Init
<1>1. ProgramTable!TypeOK
  <2>1. apiChanges \in 0..MaxChanges
    BY ChangesAssumption
  <2>2. ProgramTable!NoAnswer \in ProgramTable!Answer
    BY DEF ProgramTable!NoAnswer, ProgramTable!Answer
  <2> QED
    BY <2>1, <2>2 DEF ProgramTable!TypeOK, ProgramTable!Phase, ProgramTable!Working
<1>2. ASSUME NEW r \in Runs PROVE ProgramRunOK(r)
  BY DEF ProgramRunOK, NewTypesOK, FetchedOK, UpsertsOK
<1> QED
  BY <1>1, <1>2 DEF ProgramsInv, ProgramTable!TypesRaceIsHarmless

(* A run that takes no step itself: types only grow, to all that the API   *)
(* lists if at all, and a program is written as the API says, or the run   *)
(* is disturbed.                                                           *)
LEMMA ProgramBystander ==
  ASSUME ProgramsInv, NEW s \in Runs,
         UNCHANGED api, types \subseteq types', programs \subseteq programs',
         programsDisturbed \subseteq programsDisturbed',
         programsPc'[s] = programsPc[s], fetched'[s] = fetched[s], newTypes'[s] = newTypes[s],
         waiting'[s] = waiting[s], updating'[s] = updating[s], creating'[s] = creating[s],
         s \in unlucky <=> s \in unlucky', s \in untyped <=> s \in untyped',
         programsPc[s] # "idle" /\ s \notin programsDisturbed' =>
           /\ types' = types \/ api.types \subseteq types'
           /\ \A g \in programs : typesOf'[g] = typesOf[g] \/ typesOf'[g] = api.typesOf[g]
  PROVE  ProgramRunOK(s)'
<1> USE DEF ProgramsInv, ProgramRunOK
<1>1. NewTypesOK(s)'
  BY DEF NewTypesOK
<1>2. FetchedOK(s)'
  BY DEF FetchedOK
<1>3. UpsertsOK(s)'
  BY DEF UpsertsOK
<1> QED
  BY <1>1, <1>2, <1>3

LEMMA ProgramsStep == ProgramsInv /\ ProgramTable!Next => ProgramsInv'
<1> SUFFICES ASSUME ProgramsInv, ProgramTable!Next PROVE ProgramsInv'
  OBVIOUS
<1>i. /\ ProgramTable!TypeOK /\ ProgramTable!Consistent(api) /\ ProgramTable!TypesRaceIsHarmless
      /\ \A r \in Runs : ProgramRunOK(r)
  BY DEF ProgramsInv
<1> USE DEF ProgramTable!Goes
<1>1. ASSUME NEW answer \in ProgramTable!Answer, ProgramTable!ApiChanges(answer) PROVE ProgramsInv'
  <2>1. ProgramTable!TypeOK'
    <3>1. apiChanges' \in 0..MaxChanges
      <4>1. apiChanges \in 0..MaxChanges /\ apiChanges < MaxChanges /\ apiChanges' = apiChanges + 1
        BY <1>i, <1>1 DEF ProgramTable!TypeOK, ProgramTable!ApiChanges
      <4> QED
        BY <4>1, OneMoreChange
    <3> QED
      BY <1>i, <1>1, <3>1 DEF ProgramTable!TypeOK, ProgramTable!ApiChanges, ProgramTable!tables,
         ProgramTable!memory
  <2>2. ProgramTable!Consistent(api)'
    BY <1>1 DEF ProgramTable!ApiChanges, ProgramTable!Consistent
  <2>3. ProgramTable!TypesRaceIsHarmless'
    <3>1. \A r \in Runs : r \in untyped => programsPc[r] # "idle"
      BY <1>i DEF ProgramRunOK, NewTypesOK
    <3>2. untyped \subseteq Runs
      BY <1>i DEF ProgramTable!TypeOK
    <3> QED
      BY <1>1, <3>1, <3>2 DEF ProgramTable!ApiChanges, ProgramTable!TypesRaceIsHarmless
  <2>4. ASSUME NEW r \in Runs PROVE ProgramRunOK(r)'
    BY <1>i, <1>1 DEF ProgramTable!ApiChanges, ProgramTable!tables, ProgramTable!memory,
       ProgramRunOK, NewTypesOK, FetchedOK, UpsertsOK
  <2> QED
    BY <2>1, <2>2, <2>3, <2>4 DEF ProgramsInv
<1>2. ASSUME NEW r \in Runs,
             ProgramTable!FetchPrograms(r) \/ ProgramTable!Step(r) \/ ProgramTable!Stops(r)
      PROVE  ProgramsInv'
  <2>r. ProgramRunOK(r) /\ ProgramTable!TypeOK
    BY <1>i
  <2>f. fetched[r].types \subseteq Types /\ fetched[r].programs \subseteq Programs
    BY <2>r DEF ProgramTable!TypeOK, ProgramTable!Answer
  <2>n. ProgramTable!NoAnswer \in ProgramTable!Answer
    BY DEF ProgramTable!NoAnswer, ProgramTable!Answer
  <2>k. UNCHANGED api => ProgramTable!Consistent(api)'
    BY <1>i DEF ProgramTable!Consistent
  <2>o. ASSUME NEW s \in Runs \ {r},
               UNCHANGED api, types \subseteq types', programs \subseteq programs',
               programsDisturbed \subseteq programsDisturbed',
               programsPc'[s] = programsPc[s], fetched'[s] = fetched[s], newTypes'[s] = newTypes[s],
               waiting'[s] = waiting[s], updating'[s] = updating[s], creating'[s] = creating[s],
               s \in unlucky <=> s \in unlucky', s \in untyped <=> s \in untyped',
               programsPc[s] # "idle" /\ s \notin programsDisturbed' =>
                 /\ types' = types \/ api.types \subseteq types'
                 /\ \A g \in programs : typesOf'[g] = typesOf[g] \/ typesOf'[g] = api.typesOf[g]
        PROVE  ProgramRunOK(s)'
    BY <2>o, ProgramBystander
  <2>u. UNCHANGED untyped /\ unlucky \subseteq unlucky'
        /\ programsDisturbed \subseteq programsDisturbed'
          => ProgramTable!TypesRaceIsHarmless'
    BY <1>i DEF ProgramTable!TypesRaceIsHarmless
  <2>1. CASE ProgramTable!FetchPrograms(r)
    <3>1. ProgramTable!TypeOK'
      BY <2>1, <2>r DEF ProgramTable!FetchPrograms, ProgramTable!source, ProgramTable!tables,
         ProgramTable!history, ProgramTable!TypeOK, ProgramTable!Phase, ProgramTable!Working
    <3>2. ProgramTable!Consistent(api)' /\ ProgramTable!TypesRaceIsHarmless'
      BY <2>1, <2>k, <2>u
      DEF ProgramTable!FetchPrograms, ProgramTable!source, ProgramTable!tables,
          ProgramTable!history
    <3>3. ProgramRunOK(r)'
      BY <2>1, <2>r
      DEF ProgramTable!FetchPrograms, ProgramTable!source, ProgramTable!tables,
          ProgramTable!history, ProgramTable!TypeOK, ProgramRunOK, NewTypesOK, FetchedOK,
          UpsertsOK
    <3>4. ASSUME NEW s \in Runs \ {r} PROVE ProgramRunOK(s)'
      BY <2>1, <2>r, <2>o
      DEF ProgramTable!FetchPrograms, ProgramTable!source, ProgramTable!tables,
          ProgramTable!history, ProgramTable!TypeOK
    <3> QED
      BY <3>1, <3>2, <3>3, <3>4 DEF ProgramsInv
  <2>2. CASE ProgramTable!FindTypes(r)
    <3>1. ProgramTable!TypeOK'
      <4>1. waiting' \in [Runs -> SUBSET Programs] /\ newTypes' \in [Runs -> SUBSET Types]
        BY <2>2, <2>r, <2>f
       DEF ProgramTable!FindTypes, ProgramTable!NewTypes, ProgramTable!StartUpserts,
           ProgramTable!TypeOK
      <4>2. programsPc' \in [Runs -> ProgramTable!Phase]
        BY <2>2, <2>r
        DEF ProgramTable!FindTypes, ProgramTable!TypeOK, ProgramTable!Phase,
            ProgramTable!Working
      <4> QED
        BY <2>2, <2>r, <4>1, <4>2
        DEF ProgramTable!FindTypes, ProgramTable!source, ProgramTable!tables, ProgramTable!history,
            ProgramTable!TypeOK
    <3>2. ProgramTable!Consistent(api)' /\ ProgramTable!TypesRaceIsHarmless'
      BY <2>2, <2>k, <2>u
      DEF ProgramTable!FindTypes, ProgramTable!NewTypes, ProgramTable!StartUpserts,
          ProgramTable!source, ProgramTable!tables, ProgramTable!history
    <3>3. ProgramRunOK(r)'
      BY ZenonT(60), <2>2, <2>r
      DEF ProgramTable!FindTypes, ProgramTable!NewTypes, ProgramTable!StartUpserts,
          ProgramTable!source, ProgramTable!tables, ProgramTable!history, ProgramTable!TypeOK,
          ProgramRunOK, NewTypesOK, FetchedOK, UpsertsOK
    <3>4. ASSUME NEW s \in Runs \ {r} PROVE ProgramRunOK(s)'
      BY <2>2, <2>r, <2>o
      DEF ProgramTable!FindTypes, ProgramTable!NewTypes, ProgramTable!StartUpserts,
          ProgramTable!source, ProgramTable!tables, ProgramTable!history, ProgramTable!TypeOK
    <3> QED
      BY <3>1, <3>2, <3>3, <3>4 DEF ProgramsInv
  <2>3. CASE ProgramTable!CreateTypes(r)
    <3>1. ProgramTable!TypeOK'
      <4>1. types \subseteq types' /\ types' \subseteq Types /\ UNCHANGED typesOf
        BY <2>3, <2>r DEF ProgramTable!CreateTypes, ProgramTable!TypeOK
      <4>2. typesOf' \in [Programs -> SUBSET types']
        BY <4>1, <2>r DEF ProgramTable!TypeOK
      <4>3. programsDisturbed' \subseteq Runs
        BY <2>3, <2>r DEF ProgramTable!CreateTypes, ProgramTable!Rivals, ProgramTable!TypeOK
      <4>4. /\ waiting' \in [Runs -> SUBSET Programs]
            /\ programsPc' \in [Runs -> ProgramTable!Phase]
        BY <2>3, <2>r, <2>f
        DEF ProgramTable!CreateTypes, ProgramTable!StartUpserts, ProgramTable!TypeOK,
            ProgramTable!Phase, ProgramTable!Working
      <4> QED
        BY <2>3, <2>r, <4>1, <4>2, <4>3, <4>4
        DEF ProgramTable!CreateTypes, ProgramTable!source, ProgramTable!TypeOK
    <3>2. ProgramTable!Consistent(api)' /\ ProgramTable!TypesRaceIsHarmless'
      BY <2>3, <2>k, <2>u
      DEF ProgramTable!CreateTypes, ProgramTable!StartUpserts, ProgramTable!Rivals,
          ProgramTable!source
    <3>3. ProgramRunOK(r)'
      BY <2>3, <2>r
      DEF ProgramTable!CreateTypes, ProgramTable!StartUpserts, ProgramTable!Rivals,
          ProgramTable!source, ProgramTable!TypeOK, ProgramRunOK, NewTypesOK, FetchedOK,
          UpsertsOK
    <3>4. ASSUME NEW s \in Runs \ {r} PROVE ProgramRunOK(s)'
      <4>1. types' = types \/ fetched[r].types \subseteq types'
        BY <2>3, <2>r DEF ProgramTable!CreateTypes, ProgramRunOK, NewTypesOK
      <4>2. programsPc[s] # "idle" /\ s \notin programsDisturbed' => fetched[r] = api
        BY <2>3 DEF ProgramTable!CreateTypes, ProgramTable!Rivals
      <4>3. /\ UNCHANGED <<api, programs, typesOf, fetched, newTypes, updating, creating, untyped,
               unlucky>>
            /\ types \subseteq types' /\ programsDisturbed \subseteq programsDisturbed'
            /\ programsPc'[s] = programsPc[s] /\ waiting'[s] = waiting[s]
        BY <2>3, <2>r
       DEF ProgramTable!CreateTypes, ProgramTable!StartUpserts, ProgramTable!source,
           ProgramTable!TypeOK
      <4> QED
        BY <4>1, <4>2, <4>3, <2>o
    <3> QED
      BY <3>1, <3>2, <3>3, <3>4 DEF ProgramsInv
  <2>4. CASE ProgramTable!TypesFail(r)
    <3>1. ProgramTable!TypeOK'
      <4>1. /\ waiting' \in [Runs -> SUBSET Programs]
            /\ programsPc' \in [Runs -> ProgramTable!Phase]
            /\ unlucky' \subseteq Runs
        BY <2>4, <2>r, <2>f
        DEF ProgramTable!TypesFail, ProgramTable!StartUpserts, ProgramTable!TypeOK,
            ProgramTable!Phase, ProgramTable!Working
      <4> QED
        BY <2>4, <2>r, <4>1
        DEF ProgramTable!TypesFail, ProgramTable!source, ProgramTable!tables, ProgramTable!TypeOK
    <3>2. ProgramTable!Consistent(api)' /\ ProgramTable!TypesRaceIsHarmless'
      BY <2>4, <2>k, <2>u
      DEF ProgramTable!TypesFail, ProgramTable!StartUpserts, ProgramTable!source,
          ProgramTable!tables
    <3>3. ProgramRunOK(r)'
      BY <2>4, <2>r
      DEF ProgramTable!TypesFail, ProgramTable!StartUpserts, ProgramTable!source,
          ProgramTable!tables, ProgramTable!TypeOK, ProgramRunOK, NewTypesOK, FetchedOK,
          UpsertsOK
    <3>4. ASSUME NEW s \in Runs \ {r} PROVE ProgramRunOK(s)'
      BY <2>4, <2>r, <2>o
      DEF ProgramTable!TypesFail, ProgramTable!StartUpserts, ProgramTable!source,
          ProgramTable!tables, ProgramTable!TypeOK
    <3> QED
      BY <3>1, <3>2, <3>3, <3>4 DEF ProgramsInv
  <2>5. ASSUME NEW g \in Programs, ProgramTable!UpsertLooks(r, g) PROVE ProgramsInv'
    <3>1. ProgramTable!TypeOK'
      <4>1. /\ waiting' \in [Runs -> SUBSET Programs]
            /\ updating' \in [Runs -> SUBSET Programs]
            /\ creating' \in [Runs -> SUBSET Programs]
        BY <2>5, <2>r DEF ProgramTable!UpsertLooks, ProgramTable!TypeOK
      <4> QED
        BY <2>5, <2>r, <4>1
        DEF ProgramTable!UpsertLooks, ProgramTable!source, ProgramTable!tables,
            ProgramTable!history, ProgramTable!TypeOK
    <3>2. ProgramTable!Consistent(api)' /\ ProgramTable!TypesRaceIsHarmless'
      BY <2>5, <2>k, <2>u
      DEF ProgramTable!UpsertLooks, ProgramTable!source, ProgramTable!tables,
          ProgramTable!history
    <3>3. ProgramRunOK(r)'
      BY <2>5, <2>r
      DEF ProgramTable!UpsertLooks, ProgramTable!source, ProgramTable!tables,
          ProgramTable!history, ProgramTable!TypeOK, ProgramRunOK, NewTypesOK, FetchedOK,
          UpsertsOK
    <3>4. ASSUME NEW s \in Runs \ {r} PROVE ProgramRunOK(s)'
      BY <2>5, <2>r, <2>o
      DEF ProgramTable!UpsertLooks, ProgramTable!source, ProgramTable!tables,
          ProgramTable!history, ProgramTable!TypeOK
    <3> QED
      BY <3>1, <3>2, <3>3, <3>4 DEF ProgramsInv
  <2>6. ASSUME NEW g \in Programs, ProgramTable!UpsertWrites(r, g) PROVE ProgramsInv'
    <3>1. ProgramTable!TypeOK'
      BY <2>6, <2>r
      DEF ProgramTable!UpsertWrites, ProgramTable!Connected, ProgramTable!Rivals,
          ProgramTable!source, ProgramTable!TypeOK, ProgramTable!Phase, ProgramTable!Working
    <3>2. ProgramTable!Consistent(api)' /\ ProgramTable!TypesRaceIsHarmless'
      BY <2>6, <2>k, <2>u
      DEF ProgramTable!UpsertWrites, ProgramTable!Connected, ProgramTable!Rivals,
          ProgramTable!source
    <3>3. ProgramRunOK(r)'
      BY <2>6, <2>r
      DEF ProgramTable!UpsertWrites, ProgramTable!Connected, ProgramTable!Rivals,
          ProgramTable!source, ProgramTable!TypeOK, ProgramRunOK, NewTypesOK, FetchedOK,
          UpsertsOK
    <3>4. ASSUME NEW s \in Runs \ {r} PROVE ProgramRunOK(s)'
      BY <2>6, <2>r, <2>o
      DEF ProgramTable!UpsertWrites, ProgramTable!Connected, ProgramTable!Rivals,
          ProgramTable!source, ProgramTable!TypeOK
    <3> QED
      BY <3>1, <3>2, <3>3, <3>4 DEF ProgramsInv
  <2>7. ASSUME NEW g \in Programs, ProgramTable!UpsertRefused(r, g) PROVE ProgramsInv'
    <3>1. ProgramTable!TypeOK'
      <4>1. /\ fetched' \in [Runs -> ProgramTable!Answer]
            /\ newTypes' \in [Runs -> SUBSET Types]
            /\ waiting' \in [Runs -> SUBSET Programs]
            /\ updating' \in [Runs -> SUBSET Programs]
            /\ creating' \in [Runs -> SUBSET Programs]
        BY <2>7, <2>r, <2>n DEF ProgramTable!UpsertRefused, ProgramTable!Forget, ProgramTable!TypeOK
      <4>2. programsPc' \in [Runs -> ProgramTable!Phase]
        BY <2>7, <2>r
       DEF ProgramTable!UpsertRefused, ProgramTable!TypeOK, ProgramTable!Phase,
           ProgramTable!Working
      <4> QED
        BY <2>7, <2>r, <4>1, <4>2
       DEF ProgramTable!UpsertRefused, ProgramTable!source, ProgramTable!tables,
           ProgramTable!TypeOK
    <3>2. ProgramTable!Consistent(api)' /\ ProgramTable!TypesRaceIsHarmless'
      <4>1. r \in untyped' \ untyped => r \in unlucky \cup programsDisturbed
        <5>1. r \in untyped' \ untyped => ~(fetched[r].typesOf[g] \subseteq types)
          BY <2>7 DEF ProgramTable!UpsertRefused, ProgramTable!Connected
        <5>2. r \notin programsDisturbed /\ r \notin unlucky =>
                fetched[r] = api /\ fetched[r].types \subseteq types
          BY <2>7, <2>r DEF ProgramTable!UpsertRefused, ProgramRunOK, FetchedOK
        <5>3. api.typesOf[g] \subseteq api.types
          BY <1>i, <2>7 DEF ProgramTable!Consistent
        <5> QED
          BY <5>1, <5>2, <5>3
      <4>2. untyped' \in {untyped, untyped \cup {r}}
        BY <2>7 DEF ProgramTable!UpsertRefused
      <4>3. UNCHANGED <<api, unlucky, programsDisturbed>>
        BY <2>7 DEF ProgramTable!UpsertRefused, ProgramTable!source
      <4> QED
        BY <1>i, <4>1, <4>2, <4>3, <2>k DEF ProgramTable!TypesRaceIsHarmless
    <3>3. ProgramRunOK(r)'
      BY <2>7, <2>r
      DEF ProgramTable!UpsertRefused, ProgramTable!Connected, ProgramTable!Forget,
          ProgramTable!NoAnswer, ProgramTable!source, ProgramTable!tables, ProgramTable!TypeOK,
          ProgramRunOK, NewTypesOK, FetchedOK, UpsertsOK
    <3>4. ASSUME NEW s \in Runs \ {r} PROVE ProgramRunOK(s)'
      BY <2>7, <2>r, <2>o
      DEF ProgramTable!UpsertRefused, ProgramTable!Connected, ProgramTable!Forget,
          ProgramTable!NoAnswer, ProgramTable!source, ProgramTable!tables, ProgramTable!TypeOK
    <3> QED
      BY <3>1, <3>2, <3>3, <3>4 DEF ProgramsInv
  <2>8. CASE ProgramTable!UpsertsDone(r)
    <3>1. ProgramTable!TypeOK'
      BY <2>8, <2>r
      DEF ProgramTable!UpsertsDone, ProgramTable!source, ProgramTable!tables,
          ProgramTable!memory, ProgramTable!history, ProgramTable!TypeOK, ProgramTable!Phase,
          ProgramTable!Working
    <3>2. ProgramTable!Consistent(api)' /\ ProgramTable!TypesRaceIsHarmless'
      BY <2>8, <2>k, <2>u
      DEF ProgramTable!UpsertsDone, ProgramTable!source, ProgramTable!tables,
          ProgramTable!memory, ProgramTable!history
    <3>3. ProgramRunOK(r)'
      BY <2>8, <2>r
      DEF ProgramTable!UpsertsDone, ProgramTable!source, ProgramTable!tables,
          ProgramTable!memory, ProgramTable!history, ProgramTable!TypeOK, ProgramRunOK,
          NewTypesOK, FetchedOK, UpsertsOK
    <3>4. ASSUME NEW s \in Runs \ {r} PROVE ProgramRunOK(s)'
      BY <2>8, <2>r, <2>o
      DEF ProgramTable!UpsertsDone, ProgramTable!source, ProgramTable!tables,
          ProgramTable!memory, ProgramTable!history, ProgramTable!TypeOK
    <3> QED
      BY <3>1, <3>2, <3>3, <3>4 DEF ProgramsInv
  <2>9. CASE ProgramTable!Stops(r)
    <3>1. ProgramTable!TypeOK'
      <4>1. /\ fetched' \in [Runs -> ProgramTable!Answer]
            /\ newTypes' \in [Runs -> SUBSET Types]
            /\ waiting' \in [Runs -> SUBSET Programs]
            /\ updating' \in [Runs -> SUBSET Programs]
            /\ creating' \in [Runs -> SUBSET Programs]
        BY <2>9, <2>r, <2>n DEF ProgramTable!Stops, ProgramTable!Forget, ProgramTable!TypeOK
      <4>2. programsPc' \in [Runs -> ProgramTable!Phase]
        BY <2>9, <2>r
        DEF ProgramTable!Stops, ProgramTable!TypeOK, ProgramTable!Phase, ProgramTable!Working
      <4> QED
        BY <2>9, <2>r, <4>1, <4>2
       DEF ProgramTable!Stops, ProgramTable!source, ProgramTable!tables, ProgramTable!history,
           ProgramTable!TypeOK
    <3>2. ProgramTable!Consistent(api)' /\ ProgramTable!TypesRaceIsHarmless'
      BY <2>9, <2>k, <2>u
      DEF ProgramTable!Stops, ProgramTable!Forget, ProgramTable!NoAnswer, ProgramTable!source,
          ProgramTable!tables, ProgramTable!history
    <3>3. ProgramRunOK(r)'
      <4>1. programsPc'[r] = "stopped" /\ programsPc[r] # "failed" /\ UNCHANGED untyped
        BY <2>9, <2>r
        DEF ProgramTable!Stops, ProgramTable!TypeOK, ProgramTable!Working, ProgramTable!history
      <4> QED
        BY <4>1, <2>r DEF ProgramRunOK, NewTypesOK, FetchedOK, UpsertsOK
    <3>4. ASSUME NEW s \in Runs \ {r} PROVE ProgramRunOK(s)'
      BY <2>9, <2>r, <2>o
      DEF ProgramTable!Stops, ProgramTable!Forget, ProgramTable!NoAnswer, ProgramTable!source,
          ProgramTable!tables, ProgramTable!history, ProgramTable!TypeOK
    <3> QED
      BY <3>1, <3>2, <3>3, <3>4 DEF ProgramsInv
  <2> QED
    BY <1>2, <2>1, <2>2, <2>3, <2>4, <2>5, <2>6, <2>7, <2>8, <2>9 DEF ProgramTable!Step
<1> QED
  BY <1>1, <1>2 DEF ProgramTable!Next

LEMMA ProgramsInvariance == Spec => []ProgramsInv
<1>1. Init => ProgramsInv
  BY ProgramsInit DEF Init, ProgramsIdle
<1>2. ProgramsInv /\ [Next]_vars => ProgramsInv'
  <2>1. ProgramsInv /\ UNCHANGED programVars => ProgramsInv'
    <3> SUFFICES ASSUME ProgramsInv, UNCHANGED programVars PROVE ProgramsInv'
      OBVIOUS
    <3>1. ProgramTable!TypeOK'
      BY DEF programVars, ProgramsInv, ProgramTable!TypeOK
    <3>2. ProgramTable!Consistent(api)' /\ ProgramTable!TypesRaceIsHarmless'
      BY DEF programVars, ProgramsInv, ProgramTable!Consistent, ProgramTable!TypesRaceIsHarmless
    <3>3. ASSUME NEW r \in Runs PROVE ProgramRunOK(r)'
      BY ProgramBystander DEF programVars
    <3> QED
      BY <3>1, <3>2, <3>3 DEF ProgramsInv
  <2> QED
    BY <2>1, ProgramsStep DEF Next, vars
<1> QED
  BY <1>1, <1>2, PTL DEF Spec

(* A run that completes undisturbed leaves the programs and their types as *)
(* the API says, and the errors createProgramTypes() swallows cost no      *)
(* program its types.                                                      *)
THEOREM ProgramsMatch == Spec => []ProgramsMatchApi
<1>1. ProgramsInv => ProgramsMatchApi
  BY DEF ProgramsMatchApi, ProgramTable!ProgramsMatchApi, ProgramTable!UpdatedRunMatchesApi,
     ProgramsInv, ProgramRunOK, FetchedOK, UpsertsOK
<1> QED
  BY <1>1, ProgramsInvariance, PTL

----------------------------------------------------------------------------
(* The job that writes the prerequisites.  A run is at one course of one   *)
(* program, which is in the table; what it deletes the PDF does not list,  *)
(* what it adds the PDF lists, and what it creates has its row.            *)
AtCourse(r, p) ==
  /\ p \in members
  /\ prerequisitesPc[r] = "clearing" => pdf[r][p] = {}
  /\ prerequisitesPc[r] = "deleting" => pdf[r][p] # {}
  /\ toDelete[r] \cap pdf[r][p] = {}
  /\ toAdd[r] \cup adding[r] \subseteq pdf[r][p]
  /\ \A c \in adding[r] : <<p[1], c>> \in members

CourseOK(r) ==
  /\ prerequisitesPc[r] \in {"idle", "next program", "hung", "done", "stopped"} =>
       prerequisitesLeft[r] = {} /\ prerequisitesCurrent[r] = {}
  /\ prerequisitesPc[r] = "next course" => prerequisitesCurrent[r] = {}
  /\ prerequisitesPc[r] \notin {"adding", "creating"} => toAdd[r] = {}
  /\ prerequisitesPc[r] # "creating" => adding[r] = {}
  /\ prerequisitesPc[r] = "done" => programsLeft[r] = {}
  /\ \A p, q \in prerequisitesCurrent[r] : p = q
  /\ \A c, d \in adding[r] : c = d
  /\ \A p \in prerequisitesCurrent[r] : AtCourse(r, p)

(* A program is processed once: it is not refused before its end.          *)
ProgramOK(r) ==
  /\ prerequisitesPc[r] = "idle" => refused[r] = {}
  /\ refused[r] \cap programsLeft[r] = {}
  /\ \A p \in prerequisitesLeft[r] \cup prerequisitesCurrent[r] :
       /\ p[1] \notin refused[r] \cup programsLeft[r]
       /\ \A q \in prerequisitesLeft[r] \cup prerequisitesCurrent[r] : p[1] = q[1]

(* A run that nothing has disturbed: a course behind the loop is as the    *)
(* PDF says.  Of the course it is at, what is left to do is in its lists.  *)
CodesOf(p) == {c \in says[p] : <<p[1], c>> \in members}
InSync(p)  == text[p] = says[p] /\ rows[p] = CodesOf(p)

Underway(r, p) ==
  /\ prerequisitesPc[r] \in {"clearing", "deleting", "adding", "creating"} => text[p] = says[p]
  /\ prerequisitesPc[r] \in {"text", "deleting"} /\ says[p] # {} =>
       rows[p] \ says[p] \subseteq toDelete[r] /\ seen[r] \cap says[p] \subseteq rows[p]
  /\ prerequisitesPc[r] \in {"adding", "creating"} =>
       rows[p] \subseteq says[p] /\ CodesOf(p) \subseteq rows[p] \cup toAdd[r] \cup adding[r]

Begun == {"next program", "next course", "text", "clearing", "deleting", "adding", "creating", "done"}

PdfOK(r) ==
  prerequisitesPc[r] \in Begun \ {"next program", "done"} =>
    pdf[r] = says /\ prerequisitesLeft[r] \cup prerequisitesCurrent[r] \subseteq listed
SyncOK(r) ==
  \A p \in listed \cap members :
    \/ p[1] \in programsLeft[r] \cup refused[r] \cup givenUp[r]
    \/ p \in prerequisitesLeft[r]
    \/ p \in prerequisitesCurrent[r] /\ Underway(r, p)
    \/ p \notin prerequisitesCurrent[r] /\ InSync(p)
UndisturbedOK(r) ==
  r \notin prerequisitesDisturbed /\ prerequisitesPc[r] \in Begun => PdfOK(r) /\ SyncOK(r)

PrerequisitesInv ==
  /\ Prerequisite!TypeOK
  /\ \A r \in Runs : CourseOK(r) /\ ProgramOK(r) /\ UndisturbedOK(r)

RunStep(r) == Prerequisite!Start(r) \/ Prerequisite!Step(r) \/ Prerequisite!Stops(r)

(* A step of one run leaves the others' variables alone. *)
Untouched(s) ==
  /\ prerequisitesPc'[s] = prerequisitesPc[s]
  /\ programsLeft'[s] = programsLeft[s]
  /\ pdf'[s] = pdf[s]
  /\ prerequisitesLeft'[s] = prerequisitesLeft[s]
  /\ prerequisitesCurrent'[s] = prerequisitesCurrent[s]
  /\ seen'[s] = seen[s]
  /\ toDelete'[s] = toDelete[s]
  /\ toAdd'[s] = toAdd[s]
  /\ adding'[s] = adding[s]
  /\ refused'[s] = refused[s]
  /\ givenUp'[s] = givenUp[s]

LEMMA OtherRuns ==
  ASSUME Prerequisite!TypeOK, NEW r \in Runs, RunStep(r)
  PROVE  UNCHANGED <<members, listed, says, pdfChanges>> /\ \A s \in Runs \ {r} : Untouched(s)
<1> DEFINE G == UNCHANGED <<members, listed, says, pdfChanges>>
           /\ \A s \in Runs \ {r} : Untouched(s)
<1>1. CASE Prerequisite!Start(r)
  BY <1>1
  DEF Prerequisite!Start, Prerequisite!Goes, Prerequisite!sources, Prerequisite!tables,
      Prerequisite!course, Prerequisite!history, Prerequisite!TypeOK, Untouched
<1>2. ASSUME NEW g \in Programs, Prerequisite!ReadPdf(r, g) PROVE G
  BY <1>2
  DEF Prerequisite!ReadPdf, Prerequisite!Goes, Prerequisite!sources, Prerequisite!tables,
      Prerequisite!course, Prerequisite!history, Prerequisite!TypeOK, Untouched
<1>3. ASSUME NEW g \in Programs, Prerequisite!PdfFails(r, g) PROVE G
  BY <1>3
  DEF Prerequisite!PdfFails, Prerequisite!Goes, Prerequisite!sources, Prerequisite!tables,
      Prerequisite!course, Prerequisite!TypeOK, Untouched
<1>4. ASSUME NEW p \in Prerequisite!Pairs, Prerequisite!LookUp(r, p) PROVE G
  BY <1>4
  DEF Prerequisite!LookUp, Prerequisite!Goes, Prerequisite!sources, Prerequisite!tables,
      Prerequisite!history, Prerequisite!TypeOK, Untouched
<1>5. ASSUME NEW p \in Prerequisite!Pairs, Prerequisite!UpdateText(r, p) PROVE G
  BY <1>5
  DEF Prerequisite!UpdateText, Prerequisite!Goes, Prerequisite!sources, Prerequisite!course,
      Prerequisite!TypeOK, Untouched
<1>6. ASSUME NEW p \in Prerequisite!Pairs, Prerequisite!DeleteAllPrerequisites(r, p) PROVE G
  BY <1>6
  DEF Prerequisite!DeleteAllPrerequisites, Prerequisite!Goes, Prerequisite!CourseDone,
      Prerequisite!sources, Prerequisite!TypeOK, Untouched
<1>7. ASSUME NEW p \in Prerequisite!Pairs, Prerequisite!DeletesDone(r, p) PROVE G
  BY <1>7
  DEF Prerequisite!DeletesDone, Prerequisite!Goes, Prerequisite!sources, Prerequisite!tables,
      Prerequisite!history, Prerequisite!TypeOK, Untouched
<1>8. ASSUME NEW p \in Prerequisite!Pairs, Prerequisite!CallFails(r, p) PROVE G
  BY <1>8
  DEF Prerequisite!CallFails, Prerequisite!Goes, Prerequisite!ForgetProgram,
      Prerequisite!CourseDone, Prerequisite!sources, Prerequisite!tables, Prerequisite!TypeOK,
      Untouched
<1>9. ASSUME NEW p \in Prerequisite!Pairs, NEW c \in Prerequisite!AllCourses,
             Prerequisite!DeletePrerequisite(r, p, c)
      PROVE  G
  BY <1>9
  DEF Prerequisite!DeletePrerequisite, Prerequisite!Goes, Prerequisite!sources,
      Prerequisite!TypeOK, Untouched
<1>10. ASSUME NEW p \in Prerequisite!Pairs, NEW c \in Prerequisite!AllCourses,
              Prerequisite!LookForPrerequisite(r, p, c)
      PROVE  G
  BY <1>10
  DEF Prerequisite!LookForPrerequisite, Prerequisite!Goes, Prerequisite!sources,
      Prerequisite!tables, Prerequisite!history, Prerequisite!TypeOK, Untouched
<1>11. ASSUME NEW p \in Prerequisite!Pairs, NEW c \in Prerequisite!AllCourses,
              Prerequisite!CreatePrerequisite(r, p, c)
      PROVE  G
  BY <1>11
  DEF Prerequisite!CreatePrerequisite, Prerequisite!Goes, Prerequisite!sources,
      Prerequisite!TypeOK, Untouched
<1>12. ASSUME NEW p \in Prerequisite!Pairs, NEW c \in Prerequisite!AllCourses,
              Prerequisite!CreateRefused(r, p, c)
      PROVE  G
  BY <1>12
  DEF Prerequisite!CreateRefused, Prerequisite!Goes, Prerequisite!ForgetProgram,
      Prerequisite!CourseDone, Prerequisite!sources, Prerequisite!tables, Prerequisite!TypeOK,
      Untouched
<1>13. CASE Prerequisite!AddsDone(r)
  BY <1>13
  DEF Prerequisite!AddsDone, Prerequisite!Goes, Prerequisite!CourseDone, Prerequisite!sources,
      Prerequisite!tables, Prerequisite!history, Prerequisite!TypeOK, Untouched
<1>14. CASE Prerequisite!ProgramDone(r)
  BY <1>14
  DEF Prerequisite!ProgramDone, Prerequisite!Goes, Prerequisite!sources, Prerequisite!tables,
      Prerequisite!course, Prerequisite!history, Prerequisite!TypeOK, Untouched
<1>15. CASE Prerequisite!JobDone(r)
  BY <1>15
  DEF Prerequisite!JobDone, Prerequisite!Goes, Prerequisite!sources, Prerequisite!tables,
      Prerequisite!course, Prerequisite!history, Prerequisite!TypeOK, Untouched
<1>h. ASSUME NEW g \in Programs, Prerequisite!PdfHangs(r, g) PROVE G
  BY <1>h
  DEF Prerequisite!PdfHangs, Prerequisite!Goes, Prerequisite!sources, Prerequisite!tables,
      Prerequisite!course, Prerequisite!history, Prerequisite!TypeOK, Untouched
<1>16. CASE Prerequisite!Stops(r)
  BY <1>16
  DEF Prerequisite!Stops, Prerequisite!Goes, Prerequisite!ForgetProgram,
      Prerequisite!CourseDone, Prerequisite!sources, Prerequisite!tables, Prerequisite!history,
      Prerequisite!TypeOK, Untouched
<1> QED
  BY <1>1, <1>2, <1>3, <1>4, <1>5, <1>6, <1>7, <1>8, <1>9, <1>10, <1>11, <1>12, <1>13, <1>14,
    <1>15, <1>16, <1>h
  DEF RunStep, Prerequisite!Step, Prerequisite!CourseStep

LEMMA PrerequisitesInit == Prerequisite!Init => PrerequisitesInv
<1> SUFFICES ASSUME Prerequisite!Init PROVE PrerequisitesInv
  OBVIOUS
<1> USE DEF Prerequisite!Init
<1>1. Prerequisite!TypeOK
  <2>1. pdfChanges \in 0..MaxChanges
    BY ChangesAssumption
  <2>2. Prerequisite!NoTexts \in Prerequisite!Texts
    BY DEF Prerequisite!NoTexts, Prerequisite!Texts
  <2> QED
    BY <2>1, <2>2 DEF Prerequisite!TypeOK, Prerequisite!Phase, Prerequisite!InProgram
<1>2. ASSUME NEW r \in Runs PROVE CourseOK(r) /\ ProgramOK(r) /\ UndisturbedOK(r)
  BY DEF CourseOK, ProgramOK, UndisturbedOK, Begun
<1> QED
  BY <1>1, <1>2 DEF PrerequisitesInv

(* The types of what a run keeps for itself, and of the tables.            *)
RunTypes ==
  /\ prerequisitesPc \in [Runs -> Prerequisite!Phase]
  /\ programsLeft \in [Runs -> SUBSET Programs]
  /\ pdf \in [Runs -> Prerequisite!Texts]
  /\ prerequisitesLeft \in [Runs -> SUBSET Prerequisite!Pairs]
  /\ prerequisitesCurrent \in [Runs -> SUBSET Prerequisite!Pairs]
  /\ seen \in [Runs -> SUBSET Prerequisite!AllCourses]
  /\ toDelete \in [Runs -> SUBSET Prerequisite!AllCourses]
  /\ toAdd \in [Runs -> SUBSET Prerequisite!AllCourses]
  /\ adding \in [Runs -> SUBSET Prerequisite!AllCourses]
  /\ refused \in [Runs -> SUBSET Programs]
  /\ givenUp \in [Runs -> SUBSET Programs]

TableTypes == text \in Prerequisite!Texts /\ rows \in Prerequisite!Texts /\ Prerequisite!KeysHold

LEMMA PrerequisitesRunTypes ==
  ASSUME Prerequisite!TypeOK, NEW r \in Runs, RunStep(r)
  PROVE  RunTypes'
<1>t. /\ RunTypes
      /\ \A p \in Prerequisite!Pairs : p[1] \in Programs
      /\ \A p \in Prerequisite!Pairs : rows[p] \subseteq Prerequisite!AllCourses
      /\ \A p \in Prerequisite!Pairs : pdf[r][p] \subseteq Prerequisite!AllCourses
      /\ says \in Prerequisite!Texts /\ listed \subseteq Prerequisite!Pairs
      /\ Programs \in SUBSET Programs
  BY DEF Prerequisite!TypeOK, RunTypes, Prerequisite!Texts, Prerequisite!Pairs
<1> DEFINE G == RunTypes'
<1>1. CASE Prerequisite!Start(r)
  BY <1>1, <1>t
  DEF Prerequisite!Start, Prerequisite!Goes, Prerequisite!sources, Prerequisite!tables,
      Prerequisite!course, Prerequisite!history, RunTypes, Prerequisite!Phase,
      Prerequisite!InProgram
<1>2. ASSUME NEW g \in Programs, Prerequisite!ReadPdf(r, g) PROVE G
  BY <1>2, <1>t
  DEF Prerequisite!ReadPdf, Prerequisite!Goes, Prerequisite!sources, Prerequisite!tables,
      Prerequisite!course, Prerequisite!history, RunTypes, Prerequisite!Phase,
      Prerequisite!InProgram
<1>3. ASSUME NEW g \in Programs, Prerequisite!PdfFails(r, g) PROVE G
  BY <1>3, <1>t
  DEF Prerequisite!PdfFails, Prerequisite!Goes, Prerequisite!sources, Prerequisite!tables,
      Prerequisite!course, RunTypes, Prerequisite!Phase, Prerequisite!InProgram
<1>4. ASSUME NEW p \in Prerequisite!Pairs, Prerequisite!LookUp(r, p) PROVE G
  <2>1. UNCHANGED <<programsLeft, pdf, toAdd, adding, refused, givenUp>>
    BY <1>4 DEF Prerequisite!LookUp, Prerequisite!history
  <2>2. prerequisitesLeft' \in [Runs -> SUBSET Prerequisite!Pairs]
    BY <1>4, <1>t DEF Prerequisite!LookUp, RunTypes
  <2>3. CASE p \in members
    <3>1. prerequisitesPc' \in [Runs -> Prerequisite!Phase]
      BY ZenonT(60), <1>4, <1>t, <2>3
      DEF Prerequisite!LookUp, RunTypes, Prerequisite!Phase, Prerequisite!InProgram
    <3>2. prerequisitesCurrent' \in [Runs -> SUBSET Prerequisite!Pairs]
      <4>1. {p} \in SUBSET Prerequisite!Pairs
        OBVIOUS
      <4> QED
        BY ZenonT(60), <1>4, <1>t, <2>3, <4>1 DEF Prerequisite!LookUp, RunTypes
    <3>3. seen' \in [Runs -> SUBSET Prerequisite!AllCourses]
      BY <1>4, <1>t, <2>3 DEF Prerequisite!LookUp, RunTypes
    <3>4. toDelete' \in [Runs -> SUBSET Prerequisite!AllCourses]
      <4> DEFINE d == IF pdf[r][p] = {} THEN {} ELSE Prerequisite!ToDelete(r, p)
      <4>1. d \in SUBSET Prerequisite!AllCourses
        BY <1>t DEF Prerequisite!ToDelete
      <4>2. toDelete' = [toDelete EXCEPT ![r] = d]
        BY <1>4, <2>3 DEF Prerequisite!LookUp
      <4> HIDE DEF d
      <4> QED
        BY <1>t, <4>1, <4>2 DEF RunTypes
    <3> QED
      BY <1>t, <2>1, <2>2, <3>1, <3>2, <3>3, <3>4 DEF RunTypes
  <2>4. CASE p \notin members
    BY <1>4, <1>t, <2>1, <2>2, <2>4 DEF Prerequisite!LookUp, RunTypes
  <2> QED
    BY <2>3, <2>4
<1>5. ASSUME NEW p \in Prerequisite!Pairs, Prerequisite!UpdateText(r, p) PROVE G
  BY <1>5, <1>t
  DEF Prerequisite!UpdateText, Prerequisite!Goes, Prerequisite!sources, Prerequisite!course,
      RunTypes, Prerequisite!Phase, Prerequisite!InProgram
<1>6. ASSUME NEW p \in Prerequisite!Pairs, Prerequisite!DeleteAllPrerequisites(r, p) PROVE G
  BY <1>6, <1>t
  DEF Prerequisite!DeleteAllPrerequisites, Prerequisite!Goes, Prerequisite!CourseDone,
      Prerequisite!sources, RunTypes, Prerequisite!Phase, Prerequisite!InProgram
<1>7. ASSUME NEW p \in Prerequisite!Pairs, Prerequisite!DeletesDone(r, p) PROVE G
  BY <1>7, <1>t
  DEF Prerequisite!DeletesDone, Prerequisite!ToAdd, Prerequisite!Goes, Prerequisite!history,
      RunTypes, Prerequisite!Phase, Prerequisite!InProgram
<1>8. ASSUME NEW p \in Prerequisite!Pairs, Prerequisite!CallFails(r, p) PROVE G
  BY <1>8, <1>t
  DEF Prerequisite!CallFails, Prerequisite!Goes, Prerequisite!ForgetProgram,
      Prerequisite!CourseDone, Prerequisite!sources, Prerequisite!tables, RunTypes,
      Prerequisite!Phase, Prerequisite!InProgram
<1>9. ASSUME NEW p \in Prerequisite!Pairs, NEW c \in Prerequisite!AllCourses,
             Prerequisite!DeletePrerequisite(r, p, c)
      PROVE  G
  <2>1. toDelete' \in [Runs -> SUBSET Prerequisite!AllCourses]
    BY <1>9, <1>t DEF Prerequisite!DeletePrerequisite, RunTypes
  <2>2. givenUp' \in [Runs -> SUBSET Programs]
    BY <1>9, <1>t DEF Prerequisite!DeletePrerequisite, RunTypes
  <2> QED
    BY <1>9, <1>t, <2>1, <2>2 DEF Prerequisite!DeletePrerequisite, RunTypes
<1>10. ASSUME NEW p \in Prerequisite!Pairs, NEW c \in Prerequisite!AllCourses,
              Prerequisite!LookForPrerequisite(r, p, c)
      PROVE  G
  <2>1. prerequisitesPc' \in [Runs -> Prerequisite!Phase]
    BY <1>10, <1>t
    DEF Prerequisite!LookForPrerequisite, RunTypes, Prerequisite!Phase, Prerequisite!InProgram
  <2>2. toAdd' \in [Runs -> SUBSET Prerequisite!AllCourses]
    BY <1>10, <1>t DEF Prerequisite!LookForPrerequisite, RunTypes
  <2>3. adding' \in [Runs -> SUBSET Prerequisite!AllCourses]
    BY <1>10, <1>t DEF Prerequisite!LookForPrerequisite, RunTypes
  <2> QED
    BY <1>10, <1>t, <2>1, <2>2, <2>3
    DEF Prerequisite!LookForPrerequisite, Prerequisite!history, RunTypes
<1>11. ASSUME NEW p \in Prerequisite!Pairs, NEW c \in Prerequisite!AllCourses,
              Prerequisite!CreatePrerequisite(r, p, c)
      PROVE  G
  BY <1>11, <1>t
  DEF Prerequisite!CreatePrerequisite, Prerequisite!Goes, Prerequisite!sources, RunTypes,
      Prerequisite!Phase, Prerequisite!InProgram
<1>12. ASSUME NEW p \in Prerequisite!Pairs, NEW c \in Prerequisite!AllCourses,
              Prerequisite!CreateRefused(r, p, c)
      PROVE  G
  BY <1>12, <1>t
  DEF Prerequisite!CreateRefused, Prerequisite!Goes, Prerequisite!ForgetProgram,
      Prerequisite!CourseDone, Prerequisite!sources, Prerequisite!tables, RunTypes,
      Prerequisite!Phase, Prerequisite!InProgram
<1>13. CASE Prerequisite!AddsDone(r)
  BY <1>13, <1>t
  DEF Prerequisite!AddsDone, Prerequisite!Goes, Prerequisite!CourseDone, Prerequisite!sources,
      Prerequisite!tables, Prerequisite!history, RunTypes, Prerequisite!Phase,
      Prerequisite!InProgram
<1>14. CASE Prerequisite!ProgramDone(r)
  BY <1>14, <1>t
  DEF Prerequisite!ProgramDone, Prerequisite!Goes, Prerequisite!sources, Prerequisite!tables,
      Prerequisite!course, Prerequisite!history, RunTypes, Prerequisite!Phase,
      Prerequisite!InProgram
<1>15. CASE Prerequisite!JobDone(r)
  BY <1>15, <1>t
  DEF Prerequisite!JobDone, Prerequisite!Goes, Prerequisite!sources, Prerequisite!tables,
      Prerequisite!course, Prerequisite!history, RunTypes, Prerequisite!Phase,
      Prerequisite!InProgram
<1>h. ASSUME NEW g \in Programs, Prerequisite!PdfHangs(r, g) PROVE G
  BY <1>h, <1>t
  DEF Prerequisite!PdfHangs, Prerequisite!Goes, Prerequisite!sources, Prerequisite!tables,
      Prerequisite!course, Prerequisite!history, RunTypes, Prerequisite!Phase,
      Prerequisite!InProgram
<1>16. CASE Prerequisite!Stops(r)
  BY <1>16, <1>t
  DEF Prerequisite!Stops, Prerequisite!Goes, Prerequisite!ForgetProgram,
      Prerequisite!CourseDone, Prerequisite!sources, Prerequisite!tables, Prerequisite!history,
      RunTypes, Prerequisite!Phase, Prerequisite!InProgram
<1> QED
  BY <1>1, <1>2, <1>3, <1>4, <1>5, <1>6, <1>7, <1>8, <1>9, <1>10, <1>11, <1>12, <1>13, <1>14,
    <1>15, <1>16, <1>h
  DEF RunStep, Prerequisite!Step, Prerequisite!CourseStep

(* What a step writes: to a row of its course, and only towards the PDF it *)
(* parsed.                                                                 *)
Write(r, p) ==
  /\ \E t \in {text[p], pdf[r][p]} : text' = [text EXCEPT ![p] = t]
  /\ \E codes \in SUBSET Prerequisite!AllCourses :
       /\ rows' = [rows EXCEPT ![p] = codes]
       /\ rows[p] \cap pdf[r][p] \subseteq codes
       /\ codes \subseteq rows[p] \cup {c \in pdf[r][p] : <<p[1], c>> \in members}
  /\ Prerequisite!Disturbs(r, p)

Reads == UNCHANGED <<text, rows, prerequisitesDisturbed>>

LEMMA OneWrite ==
  ASSUME PrerequisitesInv, NEW r \in Runs, RunStep(r)
  PROVE  Reads \/ \E p \in prerequisitesCurrent[r] : Write(r, p)
<1> DEFINE G == Reads \/ \E p \in prerequisitesCurrent[r] : Write(r, p)
<1>t. /\ \A p \in Prerequisite!Pairs :
           rows[p] \in SUBSET Prerequisite!AllCourses
             /\ pdf[r][p] \in SUBSET Prerequisite!AllCourses
      /\ text = [p \in Prerequisite!Pairs |-> text[p]]
      /\ rows = [p \in Prerequisite!Pairs |-> rows[p]]
      /\ CourseOK(r)
  BY DEF PrerequisitesInv, Prerequisite!TypeOK, Prerequisite!Texts
<1>1. CASE Prerequisite!Start(r)
  BY <1>1
  DEF Prerequisite!Start, Prerequisite!Goes, Prerequisite!sources, Prerequisite!tables,
      Prerequisite!course, Prerequisite!history, Reads
<1>2. ASSUME NEW g \in Programs, Prerequisite!ReadPdf(r, g) PROVE G
  BY <1>2
  DEF Prerequisite!ReadPdf, Prerequisite!Goes, Prerequisite!sources, Prerequisite!tables,
      Prerequisite!course, Prerequisite!history, Reads
<1>3. ASSUME NEW g \in Programs, Prerequisite!PdfFails(r, g) PROVE G
  BY <1>3
  DEF Prerequisite!PdfFails, Prerequisite!Goes, Prerequisite!sources, Prerequisite!tables,
      Prerequisite!course, Reads
<1>4. ASSUME NEW p \in Prerequisite!Pairs, Prerequisite!LookUp(r, p) PROVE G
  BY <1>4
  DEF Prerequisite!LookUp, Prerequisite!Goes, Prerequisite!sources, Prerequisite!tables,
      Prerequisite!history, Reads
<1>5. ASSUME NEW p \in Prerequisite!Pairs, Prerequisite!UpdateText(r, p) PROVE G
  <2>1. p \in prerequisitesCurrent[r] /\ Prerequisite!Disturbs(r, p) /\ UNCHANGED rows
        /\ text' = [text EXCEPT ![p] = pdf[r][p]]
    BY <1>5 DEF Prerequisite!UpdateText
  <2>2. rows' = [rows EXCEPT ![p] = rows[p]]
    BY <1>t, <2>1
  <2> QED
    BY <1>t, <2>1, <2>2 DEF Write
<1>6. ASSUME NEW p \in Prerequisite!Pairs, Prerequisite!DeleteAllPrerequisites(r, p) PROVE G
  <2>1. /\ p \in prerequisitesCurrent[r] /\ pdf[r][p] = {}
        /\ Prerequisite!Disturbs(r, p) /\ UNCHANGED text
        /\ rows' = [rows EXCEPT ![p] = {}]
    BY <1>6, <1>t DEF Prerequisite!DeleteAllPrerequisites, Prerequisite!Goes, CourseOK, AtCourse
  <2>2. text' = [text EXCEPT ![p] = text[p]]
    BY <1>t, <2>1
  <2> QED
    BY <1>t, <2>1, <2>2 DEF Write
<1>7. ASSUME NEW p \in Prerequisite!Pairs, Prerequisite!DeletesDone(r, p) PROVE G
  BY <1>7
  DEF Prerequisite!DeletesDone, Prerequisite!Goes, Prerequisite!sources, Prerequisite!tables,
      Prerequisite!history, Reads
<1>8. ASSUME NEW p \in Prerequisite!Pairs, Prerequisite!CallFails(r, p) PROVE G
  BY <1>8
  DEF Prerequisite!CallFails, Prerequisite!Goes, Prerequisite!ForgetProgram,
      Prerequisite!CourseDone, Prerequisite!sources, Prerequisite!tables, Reads
<1>9. ASSUME NEW p \in Prerequisite!Pairs, NEW c \in Prerequisite!AllCourses,
             Prerequisite!DeletePrerequisite(r, p, c)
      PROVE  G
  <2>1. p \in prerequisitesCurrent[r] /\ c \notin pdf[r][p] /\ UNCHANGED text
    BY <1>9, <1>t DEF Prerequisite!DeletePrerequisite, CourseOK, AtCourse
  <2>2. CASE UNCHANGED <<rows, prerequisitesDisturbed>>
    BY <2>1, <2>2 DEF Reads
  <2>3. CASE rows' = [rows EXCEPT ![p] = @ \ {c}] /\ Prerequisite!Disturbs(r, p)
    <3>1. text' = [text EXCEPT ![p] = text[p]]
      BY <1>t, <2>1
    <3>2. rows' = [rows EXCEPT ![p] = rows[p] \ {c}]
      BY <2>3
    <3>3. /\ rows[p] \ {c} \in SUBSET Prerequisite!AllCourses
          /\ rows[p] \cap pdf[r][p] \subseteq rows[p] \ {c}
          /\ rows[p] \ {c} \subseteq rows[p] \cup {d \in pdf[r][p] : <<p[1], d>> \in members}
      BY <1>t, <2>1
    <3>4. Write(r, p)
      BY <2>3, <3>1, <3>2, <3>3 DEF Write
    <3> QED
      BY <2>1, <3>4
  <2> QED
    BY <1>9, <2>2, <2>3 DEF Prerequisite!DeletePrerequisite
<1>10. ASSUME NEW p \in Prerequisite!Pairs, NEW c \in Prerequisite!AllCourses,
              Prerequisite!LookForPrerequisite(r, p, c)
      PROVE  G
  BY <1>10
  DEF Prerequisite!LookForPrerequisite, Prerequisite!Goes, Prerequisite!sources,
      Prerequisite!tables, Prerequisite!history, Reads
<1>11. ASSUME NEW p \in Prerequisite!Pairs, NEW c \in Prerequisite!AllCourses,
              Prerequisite!CreatePrerequisite(r, p, c)
      PROVE  G
  <2>1. /\ p \in prerequisitesCurrent[r] /\ c \in pdf[r][p] /\ <<p[1], c>> \in members
        /\ UNCHANGED text /\ Prerequisite!Disturbs(r, p)
        /\ rows' = [rows EXCEPT ![p] = rows[p] \cup {c}]
    BY <1>11, <1>t DEF Prerequisite!CreatePrerequisite, CourseOK, AtCourse
  <2>2. text' = [text EXCEPT ![p] = text[p]]
    BY <1>t, <2>1
  <2>3. /\ rows[p] \cup {c} \in SUBSET Prerequisite!AllCourses
        /\ rows[p] \cup {c} \subseteq rows[p] \cup {d \in pdf[r][p] : <<p[1], d>> \in members}
    BY <1>t, <2>1
  <2>4. Write(r, p)
    BY <2>1, <2>2, <2>3 DEF Write
  <2> QED
    BY <2>1, <2>4
<1>12. ASSUME NEW p \in Prerequisite!Pairs, NEW c \in Prerequisite!AllCourses,
              Prerequisite!CreateRefused(r, p, c)
      PROVE  G
  BY <1>12
  DEF Prerequisite!CreateRefused, Prerequisite!Goes, Prerequisite!ForgetProgram,
      Prerequisite!CourseDone, Prerequisite!sources, Prerequisite!tables, Reads
<1>13. CASE Prerequisite!AddsDone(r)
  BY <1>13
  DEF Prerequisite!AddsDone, Prerequisite!Goes, Prerequisite!CourseDone, Prerequisite!sources,
      Prerequisite!tables, Prerequisite!history, Reads
<1>14. CASE Prerequisite!ProgramDone(r)
  BY <1>14
  DEF Prerequisite!ProgramDone, Prerequisite!Goes, Prerequisite!sources, Prerequisite!tables,
      Prerequisite!course, Prerequisite!history, Reads
<1>15. CASE Prerequisite!JobDone(r)
  BY <1>15
  DEF Prerequisite!JobDone, Prerequisite!Goes, Prerequisite!sources, Prerequisite!tables,
      Prerequisite!course, Prerequisite!history, Reads
<1>h. ASSUME NEW g \in Programs, Prerequisite!PdfHangs(r, g) PROVE G
  BY <1>h
  DEF Prerequisite!PdfHangs, Prerequisite!Goes, Prerequisite!sources, Prerequisite!tables,
      Prerequisite!course, Prerequisite!history, Reads
<1>16. CASE Prerequisite!Stops(r)
  BY <1>16
  DEF Prerequisite!Stops, Prerequisite!Goes, Prerequisite!ForgetProgram,
      Prerequisite!CourseDone, Prerequisite!sources, Prerequisite!tables, Prerequisite!history,
      Reads
<1> QED
  BY <1>1, <1>2, <1>3, <1>4, <1>5, <1>6, <1>7, <1>8, <1>9, <1>10, <1>11, <1>12, <1>13, <1>14,
    <1>15, <1>16, <1>h
  DEF RunStep, Prerequisite!Step, Prerequisite!CourseStep

LEMMA PrerequisitesTableTypes ==
  ASSUME PrerequisitesInv, NEW r \in Runs, RunStep(r), UNCHANGED members
  PROVE  TableTypes' /\ prerequisitesDisturbed' \subseteq Runs
<1>t. /\ TableTypes /\ prerequisitesDisturbed \subseteq Runs /\ CourseOK(r)
      /\ prerequisitesCurrent[r] \subseteq Prerequisite!Pairs
      /\ pdf[r] \in Prerequisite!Texts
  BY DEF PrerequisitesInv, Prerequisite!TypeOK, TableTypes
<1>1. CASE Reads
  BY <1>1, <1>t DEF Reads, TableTypes, Prerequisite!KeysHold
<1>2. ASSUME NEW p \in prerequisitesCurrent[r], Write(r, p)
      PROVE  TableTypes' /\ prerequisitesDisturbed' \subseteq Runs
  <2>1. PICK t \in {text[p], pdf[r][p]} : text' = [text EXCEPT ![p] = t]
    BY <1>2 DEF Write
  <2>2. PICK codes \in SUBSET Prerequisite!AllCourses :
          /\ rows' = [rows EXCEPT ![p] = codes]
          /\ codes \subseteq rows[p] \cup {c \in pdf[r][p] : <<p[1], c>> \in members}
    BY <1>2 DEF Write
  <2>3. p \in Prerequisite!Pairs /\ p \in members
    BY <1>t DEF CourseOK, AtCourse
  <2>4. /\ p[2] \notin text[p] /\ p[2] \notin rows[p] /\ p[2] \notin pdf[r][p]
        /\ text[p] \in SUBSET Prerequisite!AllCourses
           /\ pdf[r][p] \in SUBSET Prerequisite!AllCourses
    BY <1>t, <2>3 DEF TableTypes, Prerequisite!Texts
  <2>5. text' \in Prerequisite!Texts
    BY <1>t, <2>1, <2>3, <2>4 DEF TableTypes, Prerequisite!Texts
  <2>6. rows' \in Prerequisite!Texts
    BY <1>t, <2>2, <2>3, <2>4 DEF TableTypes, Prerequisite!Texts
  <2>7. Prerequisite!KeysHold'
    BY <1>t, <2>1, <2>2, <2>3 DEF TableTypes, Prerequisite!KeysHold, Prerequisite!Texts
  <2>8. prerequisitesDisturbed' \subseteq Runs
    BY <1>2, <1>t DEF Write, Prerequisite!Disturbs
  <2> QED
    BY <2>5, <2>6, <2>7, <2>8 DEF TableTypes
<1> QED
  BY <1>1, <1>2, OneWrite

(* A run that takes no step itself: a write of another either brings a row *)
(* closer to what the PDF says or disturbs it.                             *)
LEMMA PrerequisiteBystander ==
  ASSUME PrerequisitesInv, NEW s \in Runs, Untouched(s),
         UNCHANGED <<members, listed, says>>,
         prerequisitesDisturbed \subseteq prerequisitesDisturbed',
         prerequisitesPc[s] # "idle" /\ s \notin prerequisitesDisturbed' =>
           \A p \in Prerequisite!Pairs :
             /\ text'[p] = text[p] \/ text'[p] = says[p]
             /\ rows[p] \cap says[p] \subseteq rows'[p]
             /\ rows'[p] \subseteq rows[p] \cup CodesOf(p)
  PROVE  CourseOK(s)' /\ ProgramOK(s)' /\ UndisturbedOK(s)'
<1>i. CourseOK(s) /\ ProgramOK(s) /\ UndisturbedOK(s) /\ listed \subseteq Prerequisite!Pairs
  BY DEF PrerequisitesInv, Prerequisite!TypeOK
<1>1. CourseOK(s)'
  BY ZenonT(60), <1>i DEF CourseOK, AtCourse, Untouched
<1>2. ProgramOK(s)'
  BY <1>i DEF ProgramOK, Untouched
<1>3. ASSUME s \notin prerequisitesDisturbed', prerequisitesPc'[s] \in Begun
      PROVE  PdfOK(s)' /\ SyncOK(s)'
  <2>1. prerequisitesPc[s] # "idle" /\ PdfOK(s) /\ SyncOK(s)
    BY <1>i, <1>3 DEF UndisturbedOK, Untouched, Begun
  <2>2. PdfOK(s)'
    BY <2>1 DEF PdfOK, Untouched
  <2>3. ASSUME NEW p \in listed
        PROVE  (Underway(s, p) => Underway(s, p)') /\ (InSync(p) => InSync(p)')
    <3>1. /\ text'[p] = text[p] \/ text'[p] = says[p]
          /\ rows[p] \cap says[p] \subseteq rows'[p]
          /\ rows'[p] \subseteq rows[p] \cup CodesOf(p)
      BY <1>i, <1>3, <2>1
    <3>2. Underway(s, p) => Underway(s, p)'
      BY <3>1 DEF Underway, CodesOf, Untouched
    <3>3. InSync(p) => InSync(p)'
      BY <3>1 DEF InSync, CodesOf
    <3> QED
      BY <3>2, <3>3
  <2>4. SyncOK(s)'
    BY <2>1, <2>3 DEF SyncOK, Untouched
  <2> QED
    BY <2>2, <2>4
<1> QED
  BY <1>1, <1>2, <1>3 DEF UndisturbedOK

LEMMA OthersStay ==
  ASSUME PrerequisitesInv, NEW r \in Runs, RunStep(r), NEW s \in Runs \ {r}
  PROVE  CourseOK(s)' /\ ProgramOK(s)' /\ UndisturbedOK(s)'
<1>1. Untouched(s) /\ UNCHANGED <<members, listed, says>>
  BY OtherRuns DEF PrerequisitesInv
<1>2. prerequisitesDisturbed \subseteq prerequisitesDisturbed'
  BY OneWrite DEF Reads, Write, Prerequisite!Disturbs
<1>3. ASSUME prerequisitesPc[s] # "idle", s \notin prerequisitesDisturbed',
             NEW p \in Prerequisite!Pairs
      PROVE  /\ text'[p] = text[p] \/ text'[p] = says[p]
             /\ rows[p] \cap says[p] \subseteq rows'[p]
             /\ rows'[p] \subseteq rows[p] \cup CodesOf(p)
  <2>t. text \in Prerequisite!Texts /\ rows \in Prerequisite!Texts
    BY DEF PrerequisitesInv, Prerequisite!TypeOK
  <2>1. CASE Reads
    BY <2>1 DEF Reads
  <2>2. ASSUME NEW q \in prerequisitesCurrent[r], Write(r, q)
        PROVE  /\ text'[p] = text[p] \/ text'[p] = says[p]
               /\ rows[p] \cap says[p] \subseteq rows'[p]
               /\ rows'[p] \subseteq rows[p] \cup CodesOf(p)
    <3>1. pdf[r][q] = says[q]
      BY <1>3, <2>2 DEF Write, Prerequisite!Disturbs
    <3> QED
      BY <2>2, <2>t, <3>1 DEF Write, CodesOf, Prerequisite!Texts
  <2> QED
    BY <2>1, <2>2, OneWrite
<1> QED
  BY <1>1, <1>2, <1>3, PrerequisiteBystander

(* Where a step takes its own run.                                         *)
LEMMA Forgotten ==
  ASSUME RunTypes, NEW r \in Runs, Prerequisite!ForgetProgram(r)
  PROVE  /\ prerequisitesLeft'[r] = {} /\ prerequisitesCurrent'[r] = {}
         /\ toDelete'[r] = {} /\ toAdd'[r] = {} /\ adding'[r] = {}
BY DEF RunTypes, Prerequisite!ForgetProgram, Prerequisite!CourseDone

LEMMA LookedUp ==
  ASSUME RunTypes, NEW r \in Runs, NEW p \in Prerequisite!Pairs, Prerequisite!LookUp(r, p)
  PROVE  /\ prerequisitesPc[r] = "next course" /\ p \in prerequisitesLeft[r]
         /\ prerequisitesLeft'[r] = prerequisitesLeft[r] \ {p}
         /\ UNCHANGED <<members, listed, says, text, rows, programsLeft, pdf, toAdd, adding,
                        refused, givenUp, prerequisitesDisturbed>>
         /\ \/ /\ p \in members
               /\ \/ prerequisitesPc'[r] = "text"
                  \/ /\ prerequisitesPc'[r] = "clearing"
                     /\ text[p] = pdf[r][p] /\ pdf[r][p] = {}
                  \/ /\ prerequisitesPc'[r] = "deleting"
                     /\ text[p] = pdf[r][p] /\ pdf[r][p] # {}
               /\ prerequisitesCurrent'[r] = {p} /\ seen'[r] = rows[p]
               /\ toDelete'[r] = IF pdf[r][p] = {} THEN {} ELSE rows[p] \ pdf[r][p]
            \/ /\ p \notin members
               /\ prerequisitesPc'[r] = "next course"
               /\ prerequisitesCurrent'[r] = prerequisitesCurrent[r]
               /\ toDelete'[r] = toDelete[r]
<1>1. CASE p \in members
  <2>1. /\ prerequisitesPc' = [prerequisitesPc EXCEPT ![r] =
             IF text[p] # pdf[r][p] THEN "text" ELSE IF pdf[r][p] = {} THEN "clearing"
               ELSE "deleting"]
        /\ prerequisitesCurrent' = [prerequisitesCurrent EXCEPT ![r] = {p}]
        /\ seen' = [seen EXCEPT ![r] = rows[p]]
        /\ toDelete' = [toDelete EXCEPT ![r] = IF pdf[r][p] = {} THEN {} ELSE rows[p] \ pdf[r][p]]
    BY <1>1 DEF Prerequisite!LookUp, Prerequisite!ToDelete
  <2>2. /\ prerequisitesPc'[r] =
             IF text[p] # pdf[r][p] THEN "text" ELSE IF pdf[r][p] = {} THEN "clearing"
               ELSE "deleting"
        /\ prerequisitesCurrent'[r] = {p} /\ seen'[r] = rows[p]
        /\ toDelete'[r] = IF pdf[r][p] = {} THEN {} ELSE rows[p] \ pdf[r][p]
    BY <2>1 DEF RunTypes
  <2> QED
    BY <1>1, <2>2
   DEF Prerequisite!LookUp, Prerequisite!sources, Prerequisite!tables, Prerequisite!history,
       RunTypes
<1>2. CASE p \notin members
  BY <1>2
  DEF Prerequisite!LookUp, Prerequisite!sources, Prerequisite!tables, Prerequisite!history, RunTypes
<1> QED
  BY <1>1, <1>2

LEMMA CourseStays ==
  ASSUME PrerequisitesInv, NEW r \in Runs, RunStep(r)
  PROVE  CourseOK(r)'
<1> DEFINE G == CourseOK(r)'
<1>t. RunTypes /\ CourseOK(r)
  BY DEF PrerequisitesInv, Prerequisite!TypeOK, RunTypes
<1>f. ASSUME Prerequisite!ForgetProgram(r), prerequisitesPc'[r] \in {"next program", "stopped"}
      PROVE  G
  BY <1>t, <1>f, Forgotten DEF CourseOK
<1>1. CASE Prerequisite!Start(r)
  BY <1>1, <1>t
  DEF Prerequisite!Start, Prerequisite!Goes, Prerequisite!sources, Prerequisite!tables,
      Prerequisite!course, Prerequisite!history, RunTypes, CourseOK, AtCourse
<1>2. ASSUME NEW g \in Programs, Prerequisite!ReadPdf(r, g) PROVE G
  BY <1>2, <1>t
  DEF Prerequisite!ReadPdf, Prerequisite!Goes, Prerequisite!sources, Prerequisite!tables,
      Prerequisite!course, Prerequisite!history, RunTypes, CourseOK, AtCourse
<1>3. ASSUME NEW g \in Programs, Prerequisite!PdfFails(r, g) PROVE G
  BY <1>3, <1>t
  DEF Prerequisite!PdfFails, Prerequisite!Goes, Prerequisite!sources, Prerequisite!tables,
      Prerequisite!course, RunTypes, CourseOK, AtCourse
<1>4. ASSUME NEW p \in Prerequisite!Pairs, Prerequisite!LookUp(r, p) PROVE G
  <2>1. /\ prerequisitesPc[r] = "next course" /\ prerequisitesCurrent[r] = {} /\ toAdd[r] = {}
        /\ adding[r] = {}
    BY <1>t, <1>4, LookedUp DEF CourseOK
  <2>2. /\ UNCHANGED <<members, programsLeft, pdf, toAdd, adding>>
        /\ prerequisitesLeft'[r] \subseteq prerequisitesLeft[r]
    BY <1>t, <1>4, LookedUp
  <2>3. CASE p \in members
    <3>1. /\ prerequisitesPc'[r] \in {"text", "clearing", "deleting"}
          /\ prerequisitesPc'[r] = "clearing" => pdf[r][p] = {}
          /\ prerequisitesPc'[r] = "deleting" => pdf[r][p] # {}
          /\ prerequisitesCurrent'[r] = {p} /\ toDelete'[r] \cap pdf[r][p] = {}
      BY ZenonT(60), <1>t, <1>4, <2>3, LookedUp
    <3>2. AtCourse(r, p)'
      BY <2>1, <2>2, <2>3, <3>1 DEF AtCourse
    <3> QED
      BY <1>t, <2>1, <2>2, <3>1, <3>2 DEF CourseOK
  <2>4. CASE p \notin members
    <3>1. /\ prerequisitesPc'[r] = "next course" /\ prerequisitesCurrent'[r] = {}
      BY <1>t, <1>4, <2>1, <2>4, LookedUp
    <3> QED
      BY <1>t, <2>1, <2>2, <3>1 DEF CourseOK
  <2> QED
    BY <2>3, <2>4
<1>5. ASSUME NEW p \in Prerequisite!Pairs, Prerequisite!UpdateText(r, p) PROVE G
  BY <1>5, <1>t
  DEF Prerequisite!UpdateText, Prerequisite!Goes, Prerequisite!sources, Prerequisite!course,
      RunTypes, CourseOK, AtCourse
<1>6. ASSUME NEW p \in Prerequisite!Pairs, Prerequisite!DeleteAllPrerequisites(r, p) PROVE G
  <2>1. /\ prerequisitesPc[r] = "clearing" /\ prerequisitesPc'[r] = "next course"
        /\ prerequisitesCurrent'[r] = {}
        /\ UNCHANGED <<members, programsLeft, pdf, prerequisitesLeft, toAdd, adding>>
    BY <1>6, <1>t DEF Prerequisite!DeleteAllPrerequisites, Prerequisite!CourseDone,
       Prerequisite!Goes, Prerequisite!sources, RunTypes
  <2> QED
    BY <1>t, <2>1 DEF CourseOK
<1>7. ASSUME NEW p \in Prerequisite!Pairs, Prerequisite!DeletesDone(r, p) PROVE G
  <2>1. /\ prerequisitesPc[r] = "deleting" /\ prerequisitesPc'[r] = "adding"
        /\ toAdd'[r] = pdf[r][p] \ seen[r] /\ p \in prerequisitesCurrent[r]
        /\ UNCHANGED <<members, programsLeft, pdf, prerequisitesLeft, prerequisitesCurrent,
           toDelete, adding>>
    BY <1>7, <1>t DEF Prerequisite!DeletesDone, Prerequisite!ToAdd, Prerequisite!Goes,
       Prerequisite!sources, RunTypes
  <2> QED
    BY <1>t, <2>1 DEF CourseOK, AtCourse
<1>8. ASSUME NEW p \in Prerequisite!Pairs, Prerequisite!CallFails(r, p) PROVE G
  BY <1>8, <1>t, <1>f DEF Prerequisite!CallFails, Prerequisite!Goes, RunTypes
<1>9. ASSUME NEW p \in Prerequisite!Pairs, NEW c \in Prerequisite!AllCourses,
             Prerequisite!DeletePrerequisite(r, p, c)
      PROVE  G
  BY <1>9, <1>t
  DEF Prerequisite!DeletePrerequisite, Prerequisite!Goes, Prerequisite!sources, RunTypes,
      CourseOK, AtCourse
<1>10. ASSUME NEW p \in Prerequisite!Pairs, NEW c \in Prerequisite!AllCourses,
              Prerequisite!LookForPrerequisite(r, p, c)
      PROVE  G
  <2>1. /\ prerequisitesPc[r] = "adding" /\ c \in toAdd[r] /\ p \in prerequisitesCurrent[r]
        /\ toAdd'[r] = toAdd[r] \ {c}
        /\ UNCHANGED <<members, listed, says, text, rows, programsLeft, pdf, prerequisitesLeft,
                       prerequisitesCurrent, toDelete, refused, givenUp, prerequisitesDisturbed>>
    BY <1>10, <1>t DEF Prerequisite!LookForPrerequisite, Prerequisite!sources, Prerequisite!tables,
       Prerequisite!history, RunTypes
  <2>2. \/ /\ Prerequisite!IsMissing(p, c)
           /\ prerequisitesPc'[r] = "creating" /\ adding'[r] = {c}
        \/ /\ ~Prerequisite!IsMissing(p, c)
           /\ prerequisitesPc'[r] = "adding" /\ adding'[r] = adding[r]
    BY <1>10, <1>t DEF Prerequisite!LookForPrerequisite, RunTypes
  <2>3. AtCourse(r, p) /\ adding[r] = {} /\ \A q \in prerequisitesCurrent'[r] : q = p
    BY <1>t, <2>1 DEF CourseOK
  <2>4. AtCourse(r, p)'
    BY <2>1, <2>2, <2>3 DEF AtCourse, Prerequisite!IsMissing
  <2>5. /\ prerequisitesPc'[r] \in {"adding", "creating"}
        /\ prerequisitesPc'[r] # "creating" => adding'[r] = {}
        /\ \A d, e \in adding'[r] : d = e
    BY <2>2, <2>3
  <2> QED
    BY <1>t, <2>3, <2>4, <2>5 DEF CourseOK
<1>11. ASSUME NEW p \in Prerequisite!Pairs, NEW c \in Prerequisite!AllCourses,
              Prerequisite!CreatePrerequisite(r, p, c)
      PROVE  G
  BY <1>11, <1>t
  DEF Prerequisite!CreatePrerequisite, Prerequisite!Goes, Prerequisite!sources, RunTypes,
      CourseOK, AtCourse
<1>12. ASSUME NEW p \in Prerequisite!Pairs, NEW c \in Prerequisite!AllCourses,
              Prerequisite!CreateRefused(r, p, c)
      PROVE  G
  BY <1>12, <1>t, <1>f DEF Prerequisite!CreateRefused, Prerequisite!Goes, RunTypes
<1>13. CASE Prerequisite!AddsDone(r)
  BY <1>13, <1>t
  DEF Prerequisite!AddsDone, Prerequisite!Goes, Prerequisite!CourseDone, Prerequisite!sources,
      Prerequisite!tables, Prerequisite!history, RunTypes, CourseOK, AtCourse
<1>14. CASE Prerequisite!ProgramDone(r)
  BY <1>14, <1>t
  DEF Prerequisite!ProgramDone, Prerequisite!Goes, Prerequisite!sources, Prerequisite!tables,
      Prerequisite!course, Prerequisite!history, RunTypes, CourseOK, AtCourse
<1>15. CASE Prerequisite!JobDone(r)
  BY <1>15, <1>t
  DEF Prerequisite!JobDone, Prerequisite!Goes, Prerequisite!sources, Prerequisite!tables,
      Prerequisite!course, Prerequisite!history, RunTypes, CourseOK, AtCourse
<1>h. ASSUME NEW g \in Programs, Prerequisite!PdfHangs(r, g) PROVE G
  BY <1>h, <1>t
  DEF Prerequisite!PdfHangs, Prerequisite!Goes, Prerequisite!sources, Prerequisite!tables,
      Prerequisite!course, Prerequisite!history, RunTypes, CourseOK, AtCourse
<1>16. CASE Prerequisite!Stops(r)
  BY <1>16, <1>t, <1>f DEF Prerequisite!Stops, Prerequisite!Goes, RunTypes
<1> QED
  BY <1>1, <1>2, <1>3, <1>4, <1>5, <1>6, <1>7, <1>8, <1>9, <1>10, <1>11, <1>12, <1>13, <1>14,
    <1>15, <1>16, <1>h
  DEF RunStep, Prerequisite!Step, Prerequisite!CourseStep

LEMMA ProgramStays ==
  ASSUME PrerequisitesInv, NEW r \in Runs, RunStep(r)
  PROVE  ProgramOK(r)'
<1> DEFINE G == ProgramOK(r)'
<1>t. /\ RunTypes /\ ProgramOK(r) /\ CourseOK(r)
  BY DEF PrerequisitesInv, Prerequisite!TypeOK, RunTypes
<1>f. ASSUME Prerequisite!ForgetProgram(r), prerequisitesPc'[r] # "idle",
             refused'[r] \cap programsLeft'[r] = {}
      PROVE  G
  BY <1>t, <1>f, Forgotten DEF ProgramOK
<1>1. CASE Prerequisite!Start(r)
  BY <1>1, <1>t
  DEF Prerequisite!Start, Prerequisite!Goes, Prerequisite!sources, Prerequisite!tables,
      Prerequisite!course, Prerequisite!history, RunTypes, CourseOK, ProgramOK
<1>2. ASSUME NEW g \in Programs, Prerequisite!ReadPdf(r, g) PROVE G
  BY ZenonT(60), <1>2, <1>t
  DEF Prerequisite!ReadPdf, Prerequisite!Goes, Prerequisite!sources, Prerequisite!tables,
      Prerequisite!course, Prerequisite!history, RunTypes, CourseOK, ProgramOK
<1>3. ASSUME NEW g \in Programs, Prerequisite!PdfFails(r, g) PROVE G
  BY <1>3, <1>t
  DEF Prerequisite!PdfFails, Prerequisite!Goes, Prerequisite!sources, Prerequisite!tables,
      Prerequisite!course, RunTypes, CourseOK, ProgramOK
<1>4. ASSUME NEW p \in Prerequisite!Pairs, Prerequisite!LookUp(r, p) PROVE G
  <2>1. /\ prerequisitesPc'[r] # "idle" /\ UNCHANGED <<programsLeft, refused>>
        /\ p \in prerequisitesLeft[r] /\ prerequisitesLeft'[r] \subseteq prerequisitesLeft[r]
        /\ prerequisitesCurrent'[r] \in {{p}, prerequisitesCurrent[r]}
    BY <1>t, <1>4, LookedUp
  <2>2. prerequisitesLeft'[r] \cup prerequisitesCurrent'[r] \subseteq
          prerequisitesLeft[r] \cup prerequisitesCurrent[r]
    BY <2>1
  <2> QED
    BY <1>t, <2>1, <2>2 DEF ProgramOK
<1>5. ASSUME NEW p \in Prerequisite!Pairs, Prerequisite!UpdateText(r, p) PROVE G
  BY <1>5, <1>t
  DEF Prerequisite!UpdateText, Prerequisite!Goes, Prerequisite!sources, Prerequisite!course,
      RunTypes, CourseOK, ProgramOK
<1>6. ASSUME NEW p \in Prerequisite!Pairs, Prerequisite!DeleteAllPrerequisites(r, p) PROVE G
  <2>1. /\ prerequisitesPc'[r] = "next course" /\ prerequisitesCurrent'[r] = {}
        /\ UNCHANGED <<programsLeft, prerequisitesLeft, refused>>
    BY <1>6, <1>t
    DEF Prerequisite!DeleteAllPrerequisites, Prerequisite!CourseDone, Prerequisite!Goes,
        RunTypes
  <2> QED
    BY <1>t, <2>1 DEF ProgramOK
<1>7. ASSUME NEW p \in Prerequisite!Pairs, Prerequisite!DeletesDone(r, p) PROVE G
  BY <1>7, <1>t
  DEF Prerequisite!DeletesDone, Prerequisite!Goes, Prerequisite!sources, Prerequisite!tables,
      Prerequisite!history, RunTypes, CourseOK, ProgramOK
<1>8. ASSUME NEW p \in Prerequisite!Pairs, Prerequisite!CallFails(r, p) PROVE G
  <2>1. prerequisitesPc'[r] = "next program" /\ UNCHANGED <<programsLeft, refused>>
    BY <1>8, <1>t DEF Prerequisite!CallFails, RunTypes
  <2> QED
    BY <1>8, <1>t, <1>f, <2>1 DEF Prerequisite!CallFails, ProgramOK
<1>9. ASSUME NEW p \in Prerequisite!Pairs, NEW c \in Prerequisite!AllCourses,
             Prerequisite!DeletePrerequisite(r, p, c)
      PROVE  G
  BY <1>9, <1>t
  DEF Prerequisite!DeletePrerequisite, Prerequisite!Goes, Prerequisite!sources, RunTypes,
      CourseOK, ProgramOK
<1>10. ASSUME NEW p \in Prerequisite!Pairs, NEW c \in Prerequisite!AllCourses,
              Prerequisite!LookForPrerequisite(r, p, c)
      PROVE  G
  BY <1>10, <1>t
  DEF Prerequisite!LookForPrerequisite, Prerequisite!Goes, Prerequisite!sources,
      Prerequisite!tables, Prerequisite!history, RunTypes, CourseOK, ProgramOK
<1>11. ASSUME NEW p \in Prerequisite!Pairs, NEW c \in Prerequisite!AllCourses,
              Prerequisite!CreatePrerequisite(r, p, c)
      PROVE  G
  BY <1>11, <1>t
  DEF Prerequisite!CreatePrerequisite, Prerequisite!Goes, Prerequisite!sources, RunTypes,
      CourseOK, ProgramOK
<1>12. ASSUME NEW p \in Prerequisite!Pairs, NEW c \in Prerequisite!AllCourses,
              Prerequisite!CreateRefused(r, p, c)
      PROVE  G
  <2>1. /\ prerequisitesPc'[r] = "next program" /\ UNCHANGED programsLeft
        /\ refused'[r] = refused[r] \cup {p[1]} /\ p \in prerequisitesCurrent[r]
    BY <1>12, <1>t DEF Prerequisite!CreateRefused, Prerequisite!Goes, RunTypes
  <2> QED
    BY <1>12, <1>t, <1>f, <2>1 DEF Prerequisite!CreateRefused, ProgramOK
<1>13. CASE Prerequisite!AddsDone(r)
  BY ZenonT(60), <1>13, <1>t
  DEF Prerequisite!AddsDone, Prerequisite!Goes, Prerequisite!CourseDone, Prerequisite!sources,
      Prerequisite!tables, Prerequisite!history, RunTypes, CourseOK, ProgramOK
<1>14. CASE Prerequisite!ProgramDone(r)
  BY <1>14, <1>t
  DEF Prerequisite!ProgramDone, Prerequisite!Goes, Prerequisite!sources, Prerequisite!tables,
      Prerequisite!course, Prerequisite!history, RunTypes, CourseOK, ProgramOK
<1>15. CASE Prerequisite!JobDone(r)
  BY <1>15, <1>t
  DEF Prerequisite!JobDone, Prerequisite!Goes, Prerequisite!sources, Prerequisite!tables,
      Prerequisite!course, Prerequisite!history, RunTypes, CourseOK, ProgramOK
<1>h. ASSUME NEW g \in Programs, Prerequisite!PdfHangs(r, g) PROVE G
  BY <1>h, <1>t
  DEF Prerequisite!PdfHangs, Prerequisite!Goes, Prerequisite!sources, Prerequisite!tables,
      Prerequisite!course, Prerequisite!history, RunTypes, CourseOK, ProgramOK
<1>16. CASE Prerequisite!Stops(r)
  BY <1>16, <1>t
  DEF Prerequisite!Stops, Prerequisite!Goes, Prerequisite!ForgetProgram,
      Prerequisite!CourseDone, Prerequisite!sources, Prerequisite!tables, Prerequisite!history,
      RunTypes, CourseOK, ProgramOK
<1> QED
  BY <1>1, <1>2, <1>3, <1>4, <1>5, <1>6, <1>7, <1>8, <1>9, <1>10, <1>11, <1>12, <1>13, <1>14,
    <1>15, <1>16, <1>h
  DEF RunStep, Prerequisite!Step, Prerequisite!CourseStep

(* A step at the course p: it disturbs no other row, and leaves the course *)
(* as the PDF says, still has what is missing in its lists, or gives the   *)
(* program up.                                                             *)
LEMMA AtWork ==
  ASSUME PrerequisitesInv, NEW r \in Runs, r \notin prerequisitesDisturbed,
         NEW p \in prerequisitesCurrent[r], prerequisitesPc[r] \in Begun,
         UNCHANGED <<members, listed, says>>, programsLeft'[r] = programsLeft[r],
         pdf'[r] = pdf[r], prerequisitesLeft'[r] = prerequisitesLeft[r],
         refused'[r] = refused[r], givenUp[r] \subseteq givenUp'[r],
         \A q \in Prerequisite!Pairs \ {p} : text'[q] = text[q] /\ rows'[q] = rows[q],
         \/ p[1] \in givenUp'[r] /\ prerequisitesCurrent'[r] = prerequisitesCurrent[r]
         \/ prerequisitesCurrent'[r] = prerequisitesCurrent[r]
            /\ (Underway(r, p) => Underway(r, p)')
         \/ prerequisitesCurrent'[r] = {} /\ (Underway(r, p) => InSync(p)')
  PROVE  PdfOK(r)' /\ SyncOK(r)'
<1>1. /\ CourseOK(r) /\ ProgramOK(r) /\ PdfOK(r) /\ SyncOK(r)
      /\ listed \subseteq Prerequisite!Pairs
  BY DEF PrerequisitesInv, Prerequisite!TypeOK, UndisturbedOK
<1>2. prerequisitesCurrent[r] = {p}
  BY <1>1 DEF CourseOK
<1>3. prerequisitesPc[r] \in Begun \ {"next program", "done"}
  BY <1>1 DEF CourseOK
<1>4. PdfOK(r)'
  BY <1>1, <1>2, <1>3 DEF PdfOK
<1>5. ASSUME NEW q \in listed \cap members
      PROVE  \/ q[1] \in programsLeft'[r] \cup refused'[r] \cup givenUp'[r]
             \/ q \in prerequisitesLeft'[r]
             \/ q \in prerequisitesCurrent'[r] /\ Underway(r, q)'
             \/ q \notin prerequisitesCurrent'[r] /\ InSync(q)'
  <2>1. \/ q[1] \in programsLeft[r] \cup refused[r] \cup givenUp[r]
        \/ q \in prerequisitesLeft[r]
        \/ q \in prerequisitesCurrent[r] /\ Underway(r, q)
        \/ q \notin prerequisitesCurrent[r] /\ InSync(q)
    BY <1>1 DEF SyncOK
  <2>2. CASE q = p
    BY <1>2, <2>1, <2>2
  <2>3. CASE q # p
    <3>1. InSync(q) => InSync(q)'
      BY <1>1, <2>3 DEF InSync, CodesOf
    <3> QED
      BY <1>2, <2>1, <2>3, <3>1
  <2> QED
    BY <2>2, <2>3
<1>6. SyncOK(r)'
  BY <1>5 DEF SyncOK
<1> QED
  BY <1>4, <1>6

(* Giving a program up takes what is left of it with it.                   *)
LEMMA GivesUp ==
  ASSUME PrerequisitesInv, NEW r \in Runs, SyncOK(r), Prerequisite!ForgetProgram(r),
         prerequisitesPc'[r] = "next program",
         NEW p \in prerequisitesLeft[r] \cup prerequisitesCurrent[r],
         UNCHANGED <<members, listed, says, text, rows>>, programsLeft'[r] = programsLeft[r],
         refused[r] \cup givenUp[r] \cup {p[1]} \subseteq refused'[r] \cup givenUp'[r]
  PROVE  PdfOK(r)' /\ SyncOK(r)'
<1>1. ProgramOK(r) /\ RunTypes
  BY DEF PrerequisitesInv, Prerequisite!TypeOK, RunTypes
<1>2. prerequisitesLeft'[r] = {} /\ prerequisitesCurrent'[r] = {}
  BY <1>1, Forgotten
<1>3. \A q \in prerequisitesLeft[r] \cup prerequisitesCurrent[r] : q[1] \in refused'[r] \cup givenUp'[r]
  BY <1>1 DEF ProgramOK
<1>4. SyncOK(r)'
  BY <1>2, <1>3 DEF SyncOK, InSync, CodesOf
<1> QED
  BY <1>4 DEF PdfOK

LEMMA UndisturbedStays ==
  ASSUME PrerequisitesInv, NEW r \in Runs, RunStep(r)
  PROVE  UndisturbedOK(r)'
<1> SUFFICES ASSUME r \notin prerequisitesDisturbed', prerequisitesPc'[r] \in Begun
             PROVE  PdfOK(r)' /\ SyncOK(r)'
  BY DEF UndisturbedOK
<1> DEFINE G == PdfOK(r)' /\ SyncOK(r)'
<1>t. /\ RunTypes /\ ProgramOK(r) /\ CourseOK(r)
      /\ text \in Prerequisite!Texts /\ rows \in Prerequisite!Texts
      /\ listed \subseteq Prerequisite!Pairs /\ Prerequisite!KeysHold
  BY DEF PrerequisitesInv, Prerequisite!TypeOK, RunTypes
<1>d. r \notin prerequisitesDisturbed
  BY OneWrite DEF Reads, Write, Prerequisite!Disturbs
<1>u. prerequisitesPc[r] \in Begun => PdfOK(r) /\ SyncOK(r)
  BY <1>d DEF PrerequisitesInv, UndisturbedOK
<1>1. CASE Prerequisite!Start(r)
  <2>1. /\ prerequisitesPc'[r] = "next program" /\ programsLeft'[r] = Programs
        /\ UNCHANGED <<members, listed>>
    BY <1>1, <1>t DEF Prerequisite!Start, Prerequisite!Goes, Prerequisite!sources, RunTypes
  <2>2. \A p \in listed : p[1] \in Programs
    BY <1>t DEF Prerequisite!Pairs
  <2> QED
    BY <2>1, <2>2 DEF PdfOK, SyncOK
<1>2. ASSUME NEW g \in Programs, Prerequisite!ReadPdf(r, g) PROVE G
  <2>1. /\ prerequisitesPc[r] = "next program" /\ prerequisitesPc'[r] = "next course"
        /\ programsLeft'[r] = programsLeft[r] \ {g} /\ pdf'[r] = says
        /\ prerequisitesLeft'[r] = {p \in listed : p[1] = g}
        /\ UNCHANGED <<members, listed, says, text, rows, prerequisitesCurrent, refused, givenUp>>
    BY <1>2, <1>t
    DEF Prerequisite!ReadPdf, Prerequisite!Goes, Prerequisite!sources, Prerequisite!tables,
        Prerequisite!course, Prerequisite!history, RunTypes
  <2>2. prerequisitesCurrent[r] = {} /\ prerequisitesLeft[r] = {} /\ SyncOK(r)
    BY <1>t, <1>u, <2>1 DEF CourseOK, Begun
  <2>3. PdfOK(r)'
    BY <2>1, <2>2 DEF PdfOK
  <2> QED
    BY <2>1, <2>2, <2>3 DEF SyncOK, InSync, CodesOf
<1>3. ASSUME NEW g \in Programs, Prerequisite!PdfFails(r, g) PROVE G
  <2>1. /\ prerequisitesPc[r] = "next program" /\ prerequisitesPc'[r] = "next program"
        /\ programsLeft'[r] = programsLeft[r] \ {g} /\ givenUp'[r] = givenUp[r] \cup {g}
        /\ UNCHANGED <<members, listed, says, text, rows, prerequisitesLeft, prerequisitesCurrent,
           refused>>
    BY <1>3, <1>t
   DEF Prerequisite!PdfFails, Prerequisite!sources, Prerequisite!tables, Prerequisite!course,
       RunTypes
  <2>2. prerequisitesCurrent[r] = {} /\ SyncOK(r)
    BY <1>t, <1>u, <2>1 DEF CourseOK, Begun
  <2>3. PdfOK(r)'
    BY <2>1 DEF PdfOK
  <2> QED
    BY <2>1, <2>2, <2>3 DEF SyncOK, InSync, CodesOf
<1>4. ASSUME NEW p \in Prerequisite!Pairs, Prerequisite!LookUp(r, p) PROVE G
  <2>1. /\ prerequisitesPc[r] = "next course" /\ prerequisitesCurrent[r] = {}
        /\ PdfOK(r) /\ SyncOK(r)
    BY <1>t, <1>u, <1>4, LookedUp DEF CourseOK, Begun
  <2>2. /\ UNCHANGED <<members, listed, says, text, rows, programsLeft, pdf, refused, givenUp>>
        /\ prerequisitesLeft'[r] = prerequisitesLeft[r] \ {p} /\ p \in prerequisitesLeft[r]
    BY <1>t, <1>4, LookedUp
  <2>3. pdf[r] = says /\ prerequisitesLeft[r] \subseteq listed
    BY <2>1 DEF PdfOK, Begun
  <2>4. \A q \in listed : InSync(q) => InSync(q)'
    BY <2>2 DEF InSync, CodesOf
  <2>5. CASE p \in members
    <3>1. /\ prerequisitesCurrent'[r] = {p} /\ seen'[r] = rows[p]
          /\ prerequisitesPc'[r] \in {"text", "clearing", "deleting"}
          /\ prerequisitesPc'[r] \in {"clearing", "deleting"} => text[p] = says[p]
          /\ says[p] # {} => toDelete'[r] = rows[p] \ says[p]
      BY <1>t, <1>4, <2>3, <2>5, LookedUp
    <3>2. Underway(r, p)'
      BY <2>2, <3>1 DEF Underway
    <3>3. PdfOK(r)'
      BY <2>2, <2>3, <3>1 DEF PdfOK
    <3> QED
      BY <2>1, <2>2, <2>4, <3>1, <3>2, <3>3 DEF SyncOK
  <2>6. CASE p \notin members
    <3>1. prerequisitesCurrent'[r] = {} /\ prerequisitesPc'[r] = "next course"
      BY <1>t, <1>4, <2>1, <2>6, LookedUp
    <3>2. PdfOK(r)'
      BY <2>2, <2>3, <3>1 DEF PdfOK
    <3> QED
      BY <2>1, <2>2, <2>4, <2>6, <3>1, <3>2 DEF SyncOK
  <2> QED
    BY <2>5, <2>6
<1>5. ASSUME NEW p \in Prerequisite!Pairs, Prerequisite!UpdateText(r, p) PROVE G
  <2>1. /\ p \in prerequisitesCurrent[r] /\ prerequisitesPc[r] = "text"
        /\ prerequisitesPc'[r] \in {"clearing", "deleting"}
        /\ text' = [text EXCEPT ![p] = pdf[r][p]]
        /\ UNCHANGED <<members, listed, says, rows, programsLeft, pdf, prerequisitesLeft,
                       prerequisitesCurrent, seen, toDelete, toAdd, adding, refused, givenUp>>
    BY <1>5, <1>t
   DEF Prerequisite!UpdateText, Prerequisite!Goes, Prerequisite!course, Prerequisite!sources,
       RunTypes
  <2>2. /\ prerequisitesPc[r] \in Begun /\ pdf[r] = says /\ AtCourse(r, p)
           /\ p \in Prerequisite!Pairs
        /\ prerequisitesCurrent[r] = {p}
    BY <1>t, <1>u, <2>1 DEF CourseOK, PdfOK, Begun, RunTypes
  <2>3. text'[p] = says[p] /\ \A q \in Prerequisite!Pairs \ {p} : text'[q] = text[q]
    BY <1>t, <2>1, <2>2 DEF Prerequisite!Texts
  <2>4. Underway(r, p) => Underway(r, p)'
    BY <2>1, <2>3 DEF Underway
  <2> QED
    BY <1>d, <2>1, <2>2, <2>3, <2>4, AtWork
<1>6. ASSUME NEW p \in Prerequisite!Pairs, Prerequisite!DeleteAllPrerequisites(r, p) PROVE G
  <2>1. /\ p \in prerequisitesCurrent[r] /\ prerequisitesPc[r] = "clearing"
        /\ rows' = [rows EXCEPT ![p] = {}] /\ prerequisitesCurrent'[r] = {}
        /\ UNCHANGED <<members, listed, says, text, programsLeft, pdf, prerequisitesLeft,
                       refused, givenUp>>
    BY <1>6, <1>t
   DEF Prerequisite!DeleteAllPrerequisites, Prerequisite!Goes, Prerequisite!CourseDone,
       Prerequisite!sources, RunTypes
  <2>2. /\ prerequisitesPc[r] \in Begun /\ pdf[r] = says /\ AtCourse(r, p)
           /\ p \in Prerequisite!Pairs
        /\ prerequisitesCurrent[r] = {p}
    BY <1>t, <1>u, <2>1 DEF CourseOK, PdfOK, Begun, RunTypes
  <2>3. /\ rows'[p] = {} /\ says[p] = {}
        /\ \A q \in Prerequisite!Pairs \ {p} : rows'[q] = rows[q]
    BY <1>t, <2>1, <2>2 DEF Prerequisite!Texts, AtCourse
  <2>4. Underway(r, p) => InSync(p)'
    BY <2>1, <2>3 DEF Underway, InSync, CodesOf
  <2> QED
    BY <1>d, <2>1, <2>2, <2>3, <2>4, AtWork
<1>7. ASSUME NEW p \in Prerequisite!Pairs, Prerequisite!DeletesDone(r, p) PROVE G
  <2>1. /\ p \in prerequisitesCurrent[r] /\ prerequisitesPc[r] = "deleting"
        /\ prerequisitesPc'[r] = "adding" /\ toDelete[r] = {}
        /\ toAdd'[r] = pdf[r][p] \ seen[r]
        /\ UNCHANGED <<members, listed, says, text, rows, programsLeft, pdf, prerequisitesLeft,
                       prerequisitesCurrent, seen, toDelete, adding, refused, givenUp>>
    BY <1>7, <1>t
   DEF Prerequisite!DeletesDone, Prerequisite!ToAdd, Prerequisite!Goes, Prerequisite!tables,
       Prerequisite!history, Prerequisite!sources, RunTypes
  <2>2. /\ prerequisitesPc[r] \in Begun /\ pdf[r] = says /\ AtCourse(r, p)
           /\ p \in Prerequisite!Pairs
        /\ prerequisitesCurrent[r] = {p}
    BY <1>t, <1>u, <2>1 DEF CourseOK, PdfOK, Begun, RunTypes
  <2>4. Underway(r, p) => Underway(r, p)'
    BY <2>1, <2>2 DEF Underway, CodesOf, AtCourse
  <2> QED
    BY <1>d, <2>1, <2>2, <2>4, AtWork
<1>8. ASSUME NEW p \in Prerequisite!Pairs, Prerequisite!CallFails(r, p) PROVE G
  <2>1. /\ p \in prerequisitesLeft[r] \cup prerequisitesCurrent[r]
        /\ prerequisitesPc[r] \in Prerequisite!InProgram /\ prerequisitesPc'[r] = "next program"
        /\ Prerequisite!ForgetProgram(r) /\ givenUp'[r] = givenUp[r] \cup {p[1]}
        /\ UNCHANGED <<members, listed, says, text, rows, programsLeft, refused>>
    BY <1>8, <1>t DEF Prerequisite!CallFails, Prerequisite!sources, Prerequisite!tables, RunTypes
  <2>2. SyncOK(r)
    BY <1>u, <2>1 DEF Begun, Prerequisite!InProgram
  <2> QED
    BY <2>1, <2>2, GivesUp
<1>9. ASSUME NEW p \in Prerequisite!Pairs, NEW c \in Prerequisite!AllCourses,
             Prerequisite!DeletePrerequisite(r, p, c)
      PROVE  G
  <2>1. /\ p \in prerequisitesCurrent[r] /\ prerequisitesPc[r] = "deleting"
        /\ toDelete'[r] = toDelete[r] \ {c} /\ c \in toDelete[r]
        /\ \/ rows' = [rows EXCEPT ![p] = @ \ {c}] /\ UNCHANGED givenUp
           \/ givenUp'[r] = givenUp[r] \cup {p[1]} /\ UNCHANGED rows
        /\ UNCHANGED <<members, listed, says, text, prerequisitesPc, programsLeft, pdf,
                       prerequisitesLeft, prerequisitesCurrent, seen, toAdd, adding, refused>>
    BY <1>9, <1>t
    DEF Prerequisite!DeletePrerequisite, Prerequisite!sources, RunTypes
  <2>2. /\ prerequisitesPc[r] \in Begun /\ pdf[r] = says /\ AtCourse(r, p)
           /\ p \in Prerequisite!Pairs
        /\ prerequisitesCurrent[r] = {p}
    BY <1>t, <1>u, <2>1 DEF CourseOK, PdfOK, Begun, RunTypes
  <2>3. CASE UNCHANGED rows /\ givenUp'[r] = givenUp[r] \cup {p[1]}
    BY <1>d, <2>1, <2>2, <2>3, AtWork
  <2>4. CASE rows' = [rows EXCEPT ![p] = @ \ {c}] /\ UNCHANGED givenUp
    <3>1. /\ rows'[p] = rows[p] \ {c} /\ c \notin says[p]
          /\ \A q \in Prerequisite!Pairs \ {p} : rows'[q] = rows[q]
      BY <1>t, <2>1, <2>2, <2>4 DEF Prerequisite!Texts, AtCourse
    <3>2. Underway(r, p) => Underway(r, p)'
      BY <2>1, <2>2, <3>1 DEF Underway
    <3> QED
      BY <1>d, <2>1, <2>2, <2>4, <3>1, <3>2, AtWork
  <2> QED
    BY <2>1, <2>3, <2>4
<1>10. ASSUME NEW p \in Prerequisite!Pairs, NEW c \in Prerequisite!AllCourses,
              Prerequisite!LookForPrerequisite(r, p, c)
      PROVE  G
  <2>1. /\ prerequisitesPc[r] = "adding" /\ c \in toAdd[r] /\ p \in prerequisitesCurrent[r]
        /\ toAdd'[r] = toAdd[r] \ {c}
        /\ UNCHANGED <<members, listed, says, text, rows, programsLeft, pdf, prerequisitesLeft,
                       prerequisitesCurrent, toDelete, refused, givenUp>>
    BY <1>10, <1>t
    DEF Prerequisite!LookForPrerequisite, Prerequisite!sources, Prerequisite!tables,
        Prerequisite!history, RunTypes
  <2>2. /\ prerequisitesPc[r] \in Begun /\ pdf[r] = says /\ p \in Prerequisite!Pairs
        /\ adding[r] = {} /\ SyncOK(r)
    BY <1>t, <1>u, <2>1 DEF CourseOK, PdfOK, Begun, RunTypes
  <2>3. \/ prerequisitesPc'[r] = "creating" /\ adding'[r] = {c}
        \/ /\ <<p[1], c>> \notin members \/ c \in rows[p]
           /\ prerequisitesPc'[r] = "adding" /\ adding'[r] = {}
    BY <1>10, <1>t, <2>2 DEF Prerequisite!LookForPrerequisite, Prerequisite!IsMissing, RunTypes
  <2>4. Underway(r, p) => Underway(r, p)'
    BY <2>1, <2>2, <2>3 DEF Underway, CodesOf
  <2> QED
    BY <1>d, <2>1, <2>2, <2>4, AtWork
<1>11. ASSUME NEW p \in Prerequisite!Pairs, NEW c \in Prerequisite!AllCourses,
              Prerequisite!CreatePrerequisite(r, p, c)
      PROVE  G
  <2>1. /\ p \in prerequisitesCurrent[r] /\ prerequisitesPc[r] = "creating"
        /\ prerequisitesPc'[r] = "adding" /\ c \in adding[r] /\ adding'[r] = {}
        /\ rows' = [rows EXCEPT ![p] = @ \cup {c}]
        /\ UNCHANGED <<members, listed, says, text, programsLeft, pdf, prerequisitesLeft,
                       prerequisitesCurrent, toDelete, toAdd, refused, givenUp>>
    BY <1>11, <1>t
    DEF Prerequisite!CreatePrerequisite, Prerequisite!Goes, Prerequisite!sources, RunTypes
  <2>2. /\ prerequisitesPc[r] \in Begun /\ pdf[r] = says /\ AtCourse(r, p)
           /\ p \in Prerequisite!Pairs
        /\ prerequisitesCurrent[r] = {p}
    BY <1>t, <1>u, <2>1 DEF CourseOK, PdfOK, Begun, RunTypes
  <2>3. /\ rows'[p] = rows[p] \cup {c} /\ c \in says[p] /\ adding[r] = {c}
        /\ \A q \in Prerequisite!Pairs \ {p} : rows'[q] = rows[q]
    BY <1>t, <2>1, <2>2 DEF Prerequisite!Texts, AtCourse, CourseOK
  <2>4. Underway(r, p) => Underway(r, p)'
    BY <2>1, <2>3 DEF Underway, CodesOf
  <2> QED
    BY <1>d, <2>1, <2>2, <2>3, <2>4, AtWork
<1>12. ASSUME NEW p \in Prerequisite!Pairs, NEW c \in Prerequisite!AllCourses,
              Prerequisite!CreateRefused(r, p, c)
      PROVE  G
  <2>1. /\ p \in prerequisitesCurrent[r]
        /\ prerequisitesPc[r] = "creating" /\ prerequisitesPc'[r] = "next program"
        /\ Prerequisite!ForgetProgram(r) /\ refused'[r] = refused[r] \cup {p[1]}
        /\ UNCHANGED <<members, listed, says, text, rows, programsLeft, givenUp>>
    BY <1>12, <1>t
   DEF Prerequisite!CreateRefused, Prerequisite!Goes, Prerequisite!sources,
       Prerequisite!tables, RunTypes
  <2>2. SyncOK(r)
    BY <1>u, <2>1 DEF Begun
  <2> QED
    BY <2>1, <2>2, GivesUp
<1>13. CASE Prerequisite!AddsDone(r)
  <2>1. /\ prerequisitesPc[r] = "adding" /\ prerequisitesPc'[r] = "next course"
        /\ toAdd[r] = {} /\ prerequisitesCurrent'[r] = {}
        /\ UNCHANGED <<members, listed, says, text, rows, programsLeft, pdf, prerequisitesLeft,
                       refused, givenUp>>
    BY <1>13, <1>t
    DEF Prerequisite!AddsDone, Prerequisite!Goes, Prerequisite!CourseDone, Prerequisite!sources,
        Prerequisite!tables, Prerequisite!history, RunTypes
  <2>2. /\ pdf[r] = says /\ adding[r] = {} /\ SyncOK(r) /\ PdfOK(r)
        /\ prerequisitesLeft[r] \subseteq listed
    BY <1>t, <1>u, <2>1 DEF CourseOK, PdfOK, Begun
  <2>3. ASSUME NEW q \in listed PROVE (Underway(r, q) => InSync(q)') /\ (InSync(q) => InSync(q)')
    BY <1>t, <2>1, <2>2 DEF Underway, InSync, CodesOf, Prerequisite!KeysHold
  <2>4. PdfOK(r)'
    BY <2>1, <2>2 DEF PdfOK
  <2> QED
    BY <2>1, <2>2, <2>3, <2>4 DEF SyncOK
<1>14. CASE Prerequisite!ProgramDone(r)
  <2>1. /\ prerequisitesPc[r] = "next course" /\ prerequisitesPc'[r] = "next program"
        /\ UNCHANGED <<members, listed, says, text, rows, programsLeft, prerequisitesLeft,
                       prerequisitesCurrent, refused, givenUp>>
    BY <1>14, <1>t
    DEF Prerequisite!ProgramDone, Prerequisite!Goes, Prerequisite!sources, Prerequisite!tables,
        Prerequisite!course, Prerequisite!history, RunTypes
  <2>2. SyncOK(r) /\ prerequisitesCurrent[r] = {}
    BY <1>t, <1>u, <2>1 DEF CourseOK, Begun
  <2> QED
    BY <2>1, <2>2 DEF PdfOK, SyncOK, InSync, CodesOf
<1>15. CASE Prerequisite!JobDone(r)
  <2>1. /\ prerequisitesPc[r] = "next program" /\ prerequisitesPc'[r] = "done"
        /\ UNCHANGED <<members, listed, says, text, rows, programsLeft, prerequisitesLeft,
                       prerequisitesCurrent, refused, givenUp>>
    BY <1>15, <1>t
    DEF Prerequisite!JobDone, Prerequisite!Goes, Prerequisite!sources, Prerequisite!tables,
        Prerequisite!course, Prerequisite!history, RunTypes
  <2>2. SyncOK(r) /\ prerequisitesCurrent[r] = {}
    BY <1>t, <1>u, <2>1 DEF CourseOK, Begun
  <2> QED
    BY <2>1, <2>2 DEF PdfOK, SyncOK, InSync, CodesOf
<1>h. ASSUME NEW g \in Programs, Prerequisite!PdfHangs(r, g) PROVE G
  BY <1>h, <1>t DEF Prerequisite!PdfHangs, Prerequisite!Goes, RunTypes, Begun
<1>16. CASE Prerequisite!Stops(r)
  BY <1>16, <1>t DEF Prerequisite!Stops, RunTypes, Begun
<1> QED
  BY <1>1, <1>2, <1>3, <1>4, <1>5, <1>6, <1>7, <1>8, <1>9, <1>10, <1>11, <1>12, <1>13, <1>14,
    <1>15, <1>16, <1>h
  DEF RunStep, Prerequisite!Step, Prerequisite!CourseStep

(* What changes under the runs disturbs those that have begun.             *)
LEMMA SourcesStep ==
  ASSUME PrerequisitesInv,
         \/ \E m \in Prerequisite!Members : Prerequisite!MemberAdded(m)
         \/ \E p \in Prerequisite!Pairs : \E codes \in SUBSET (Prerequisite!AllCourses \ {p[2]}) :
              Prerequisite!PdfReplaced(p, codes)
  PROVE  PrerequisitesInv'
<1>1. /\ Prerequisite!Change
      /\ members \subseteq members' /\ members' \subseteq Prerequisite!Members
      /\ listed' \subseteq Prerequisite!Pairs /\ says' \in Prerequisite!Texts
  <2>1. ASSUME NEW m \in Prerequisite!Members, Prerequisite!MemberAdded(m)
        PROVE  /\ Prerequisite!Change
               /\ members \subseteq members' /\ members' \subseteq Prerequisite!Members
               /\ listed' \subseteq Prerequisite!Pairs /\ says' \in Prerequisite!Texts
    BY <2>1 DEF Prerequisite!MemberAdded, PrerequisitesInv, Prerequisite!TypeOK
  <2>2. ASSUME NEW p \in Prerequisite!Pairs,
               NEW codes \in SUBSET (Prerequisite!AllCourses \ {p[2]}),
               Prerequisite!PdfReplaced(p, codes)
        PROVE  /\ Prerequisite!Change
               /\ members \subseteq members' /\ members' \subseteq Prerequisite!Members
               /\ listed' \subseteq Prerequisite!Pairs /\ says' \in Prerequisite!Texts
    <3>1. Prerequisite!Change /\ UNCHANGED members /\ says' = [says EXCEPT ![p] = codes]
          /\ listed' \in {listed \cup {p}, listed \ {p}}
      BY <2>2 DEF Prerequisite!PdfReplaced
    <3>2. says \in Prerequisite!Texts /\ listed \subseteq Prerequisite!Pairs
          /\ members \subseteq Prerequisite!Members
      BY DEF PrerequisitesInv, Prerequisite!TypeOK
    <3>3. says' \in Prerequisite!Texts
      BY <3>1, <3>2, <2>2 DEF Prerequisite!Texts
    <3> QED
      BY <3>1, <3>2, <3>3
  <2> QED
    BY <2>1, <2>2
<1>2. /\ UNCHANGED <<text, rows, prerequisitesPc, programsLeft, pdf, prerequisitesLeft,
                     prerequisitesCurrent, seen, toDelete, toAdd, adding, refused, givenUp>>
      /\ prerequisitesDisturbed' = {r \in Runs : prerequisitesPc[r] # "idle"}
  BY <1>1 DEF Prerequisite!Change, Prerequisite!tables, Prerequisite!course
<1>3. Prerequisite!TypeOK'
  <2>1. pdfChanges' \in 0..MaxChanges
    <3>1. pdfChanges \in 0..MaxChanges /\ pdfChanges < MaxChanges /\ pdfChanges' = pdfChanges + 1
      BY <1>1 DEF Prerequisite!Change, PrerequisitesInv, Prerequisite!TypeOK
    <3> QED
      BY <3>1, OneMoreChange
  <2>2. Prerequisite!KeysHold'
    BY <1>1, <1>2 DEF PrerequisitesInv, Prerequisite!TypeOK, Prerequisite!KeysHold
  <2> QED
    BY <1>1, <1>2, <2>1, <2>2 DEF PrerequisitesInv, Prerequisite!TypeOK
<1>4. ASSUME NEW r \in Runs PROVE CourseOK(r)' /\ ProgramOK(r)' /\ UndisturbedOK(r)'
  <2>i. CourseOK(r) /\ ProgramOK(r)
    BY DEF PrerequisitesInv
  <2>1. CourseOK(r)'
    BY <1>1, <1>2, <2>i DEF CourseOK, AtCourse
  <2>2. ProgramOK(r)'
    BY <1>2, <2>i DEF ProgramOK
  <2>3. UndisturbedOK(r)'
    BY <1>2 DEF UndisturbedOK, Begun
  <2> QED
    BY <2>1, <2>2, <2>3
<1> QED
  BY <1>3, <1>4 DEF PrerequisitesInv

LEMMA PrerequisitesStep == PrerequisitesInv /\ Prerequisite!Next => PrerequisitesInv'
<1>1. ASSUME PrerequisitesInv, NEW r \in Runs, RunStep(r) PROVE PrerequisitesInv'
  <2>t. Prerequisite!TypeOK
    BY <1>1 DEF PrerequisitesInv
  <2>1. RunTypes'
    BY <1>1, <2>t, PrerequisitesRunTypes
  <2>2. UNCHANGED <<members, listed, says, pdfChanges>>
    BY <1>1, <2>t, OtherRuns
  <2>3. TableTypes' /\ prerequisitesDisturbed' \subseteq Runs
    BY <1>1, <2>2, PrerequisitesTableTypes
  <2>4. Prerequisite!TypeOK'
    BY <2>t, <2>1, <2>2, <2>3 DEF Prerequisite!TypeOK, RunTypes, TableTypes
  <2>5. CourseOK(r)' /\ ProgramOK(r)' /\ UndisturbedOK(r)'
    BY <1>1, CourseStays, ProgramStays, UndisturbedStays
  <2>6. ASSUME NEW s \in Runs \ {r} PROVE CourseOK(s)' /\ ProgramOK(s)' /\ UndisturbedOK(s)'
    BY <1>1, OthersStay
  <2> QED
    BY <2>4, <2>5, <2>6 DEF PrerequisitesInv
<1> QED
  BY <1>1, SourcesStep DEF Prerequisite!Next, RunStep

LEMMA PrerequisitesStutter == PrerequisitesInv /\ UNCHANGED prerequisiteVars => PrerequisitesInv'
<1> SUFFICES ASSUME PrerequisitesInv, UNCHANGED prerequisiteVars PROVE PrerequisitesInv'
  OBVIOUS
<1>1. Prerequisite!TypeOK'
  BY DEF prerequisiteVars, PrerequisitesInv, Prerequisite!TypeOK, Prerequisite!KeysHold
<1>2. ASSUME NEW r \in Runs PROVE CourseOK(r)' /\ ProgramOK(r)' /\ UndisturbedOK(r)'
  BY PrerequisiteBystander DEF prerequisiteVars, Untouched
<1> QED
  BY <1>1, <1>2 DEF PrerequisitesInv

LEMMA PrerequisitesInvariance == Spec => []PrerequisitesInv
<1>1. Init => PrerequisitesInv
  BY PrerequisitesInit DEF Init, PrerequisiteIdle
<1>2. PrerequisitesInv /\ [Next]_vars => PrerequisitesInv'
  BY PrerequisitesStep, PrerequisitesStutter DEF Next, vars
<1> QED
  BY <1>1, <1>2, PTL DEF Spec

(* A run that completes undisturbed leaves each course of the PDFs with    *)
(* the PDF's text and its codes, but in the programs it gave up.           *)
THEOREM PrerequisitesMatch == Spec => []CompletedRunMatches
<1>1. PrerequisitesInv => CompletedRunMatches
  <2> SUFFICES ASSUME PrerequisitesInv, NEW r \in Runs,
                      prerequisitesPc[r] = "done", r \notin prerequisitesDisturbed,
                      NEW p \in listed \cap members, p[1] \notin refused[r] \cup givenUp[r]
               PROVE  InSync(p)
    BY DEF CompletedRunMatches, Prerequisite!CompletedRunMatches, InSync, CodesOf
  <2>1. CourseOK(r) /\ SyncOK(r)
    BY DEF PrerequisitesInv, UndisturbedOK, Begun
  <2> QED
    BY <2>1 DEF CourseOK, SyncOK
<1> QED
  BY <1>1, PrerequisitesInvariance, PTL

----------------------------------------------------------------------------
(* Runs that create the same rows.  A run that finds its row created is    *)
(* doomed; the one that created it last is not, and gets on.               *)
Doomed(r) ==
  cheminotPc[r] = "creating" /\ \E p \in cheminotCurrent[r] : details[p] # "no row"
SurvivorOK ==
  (\E r \in Runs : cheminotPc[r] = "refused" \/ Doomed(r)) =>
    \E s \in Runs : cheminotPc[s] \notin {"idle", "refused"} /\ ~Doomed(s)

LEMMA Survives ==
  ASSUME CheminotInv, SurvivorOK,
         NEW r \in Runs, Cheminot!ReadPrograms(r) \/ Cheminot!Step(r) \/ Cheminot!Stops(r)
  PROVE  SurvivorOK'
<1>t. Cheminot!TypeOK /\ CheminotRunOK(r)
  BY DEF CheminotInv
<1>1. \A s \in Runs \ {r} : cheminotPc'[s] = cheminotPc[s]
      /\ cheminotCurrent'[s] = cheminotCurrent[s]
  BY <1>t
  DEF Cheminot!TypeOK, Cheminot!Goes, Cheminot!ReadPrograms, Cheminot!Step, Cheminot!ParseFile,
      Cheminot!MatchCourse, Cheminot!UpdateProgramCourse, Cheminot!CreateProgramCourse,
      Cheminot!Writes, Cheminot!CreateRefused, Cheminot!Forget, Cheminot!MatchingDone,
      Cheminot!memory, Cheminot!Stops
<1>2. CASE cheminotPc'[r] = "matching"
  BY <1>2 DEF SurvivorOK, Doomed
<1>3. CASE cheminotPc'[r] # "matching"
  <2>1. UNCHANGED details
    BY <1>3, <1>t
    DEF Cheminot!TypeOK, Cheminot!Goes, Cheminot!ReadPrograms, Cheminot!Step, Cheminot!ParseFile,
        Cheminot!MatchCourse, Cheminot!UpdateProgramCourse, Cheminot!CreateProgramCourse,
        Cheminot!CreateRefused, Cheminot!MatchingDone, Cheminot!Stops
  <2>2. cheminotPc'[r] = "refused" => Doomed(r)
    BY <1>t
    DEF Cheminot!TypeOK, Cheminot!Goes, Cheminot!ReadPrograms, Cheminot!Step, Cheminot!ParseFile,
        Cheminot!MatchCourse, Cheminot!UpdateProgramCourse, Cheminot!CreateProgramCourse,
        Cheminot!CreateRefused, Cheminot!MatchingDone, Cheminot!Stops, Cheminot!Working, Doomed
  <2>3. ~Doomed(r)'
    <3>1. ASSUME NEW p \in Cheminot!Pairs, Cheminot!MatchCourse(r, p), cheminotPc'[r] = "creating"
          PROVE  cheminotCurrent'[r] = {p} /\ details[p] = "no row"
      <4>1. p[2] \in courseRows /\ (Cheminot!ToCreate(r, p) \/ Cheminot!ToUpdate(r, p))
        BY <1>t, <3>1 DEF Cheminot!MatchCourse, Cheminot!TypeOK
      <4>2. Cheminot!ToCreate(r, p)
        BY <1>t, <3>1, <4>1 DEF Cheminot!MatchCourse, Cheminot!TypeOK
      <4> QED
        BY <1>t, <3>1, <4>1, <4>2 DEF Cheminot!MatchCourse, Cheminot!TypeOK, Cheminot!ToCreate
    <3>2. cheminotPc'[r] = "creating" => \E p \in Cheminot!Pairs : Cheminot!MatchCourse(r, p)
      BY <1>t
      DEF Cheminot!TypeOK, Cheminot!Goes, Cheminot!ReadPrograms, Cheminot!Step, Cheminot!ParseFile,
          Cheminot!UpdateProgramCourse, Cheminot!CreateProgramCourse, Cheminot!CreateRefused,
          Cheminot!MatchingDone, Cheminot!Stops
    <3> QED
      BY <2>1, <3>1, <3>2 DEF Doomed
  <2>4. cheminotPc'[r] # "idle"
    BY <1>t
    DEF Cheminot!TypeOK, Cheminot!Goes, Cheminot!ReadPrograms, Cheminot!Step, Cheminot!ParseFile,
        Cheminot!MatchCourse, Cheminot!UpdateProgramCourse, Cheminot!CreateProgramCourse,
        Cheminot!CreateRefused, Cheminot!MatchingDone, Cheminot!Stops
  <2>5. \A s \in Runs \ {r} : Doomed(s)' <=> Doomed(s)
    BY <1>1, <2>1 DEF Doomed
  <2> QED
    BY <1>1, <2>2, <2>3, <2>4, <2>5 DEF SurvivorOK
<1> QED
  BY <1>2, <1>3

(* The same of the prerequisites, for each program by itself.              *)
DoomedAt(r, g) ==
  /\ prerequisitesPc[r] = "creating"
  /\ \E p \in prerequisitesCurrent[r] : p[1] = g /\ adding[r] \cap rows[p] # {}
Survivor(g) == \E s \in Runs : prerequisitesPc[s] # "idle" /\ g \notin refused[s] /\ ~DoomedAt(s, g)
SurvivorsOK ==
  \A g \in Programs : (\E r \in Runs : g \in refused[r] \/ DoomedAt(r, g)) => Survivor(g)

(* Only a step that creates a row adds to one.                             *)
Creates(r, p) ==
  /\ p \in prerequisitesCurrent[r] /\ prerequisitesPc'[r] = "adding" /\ UNCHANGED refused
  /\ \A q \in Prerequisite!Pairs \ {p} : rows'[q] = rows[q]

LEMMA RowsGrow ==
  ASSUME PrerequisitesInv, NEW r \in Runs, RunStep(r)
  PROVE  \/ \A p \in Prerequisite!Pairs : rows'[p] \subseteq rows[p]
         \/ \E p \in Prerequisite!Pairs : Creates(r, p)
<1> DEFINE G == \/ \A p \in Prerequisite!Pairs : rows'[p] \subseteq rows[p]
                \/ \E p \in Prerequisite!Pairs : Creates(r, p)
<1>t. prerequisitesPc \in [Runs -> Prerequisite!Phase] /\ rows \in Prerequisite!Texts
  BY DEF PrerequisitesInv, Prerequisite!TypeOK
<1>1. CASE UNCHANGED rows
  BY <1>1
<1>2. ASSUME NEW p \in Prerequisite!Pairs, Prerequisite!DeleteAllPrerequisites(r, p) PROVE G
  BY <1>2, <1>t DEF Prerequisite!DeleteAllPrerequisites, Prerequisite!Texts
<1>3. ASSUME NEW p \in Prerequisite!Pairs, NEW c \in Prerequisite!AllCourses,
             Prerequisite!DeletePrerequisite(r, p, c)
      PROVE  G
  <2>1. rows' = rows \/ rows' = [rows EXCEPT ![p] = @ \ {c}]
    BY <1>3 DEF Prerequisite!DeletePrerequisite
  <2> QED
    BY <1>t, <2>1 DEF Prerequisite!Texts
<1>4. ASSUME NEW p \in Prerequisite!Pairs, NEW c \in Prerequisite!AllCourses,
             Prerequisite!CreatePrerequisite(r, p, c)
      PROVE  G
  BY <1>4, <1>t
  DEF Prerequisite!CreatePrerequisite, Prerequisite!Goes, Prerequisite!Texts, Creates
<1>5. ASSUME rows' # rows
      PROVE  \E p \in Prerequisite!Pairs :
               \/ Prerequisite!DeleteAllPrerequisites(r, p)
               \/ \E c \in Prerequisite!AllCourses : Prerequisite!DeletePrerequisite(r, p, c)
                                                 \/ Prerequisite!CreatePrerequisite(r, p, c)
  BY <1>5
  DEF RunStep, Prerequisite!Step, Prerequisite!CourseStep, Prerequisite!Start,
      Prerequisite!ReadPdf, Prerequisite!PdfFails, Prerequisite!LookUp, Prerequisite!UpdateText,
      Prerequisite!DeletesDone, Prerequisite!CallFails, Prerequisite!LookForPrerequisite,
      Prerequisite!CreateRefused, Prerequisite!AddsDone, Prerequisite!ProgramDone,
      Prerequisite!JobDone, Prerequisite!PdfHangs, Prerequisite!Stops, Prerequisite!tables
<1> QED
  BY <1>1, <1>2, <1>3, <1>4, <1>5

(* A run that is refused was doomed before, and a run that is about to     *)
(* create a row has just looked for it.                                    *)
RefusedWasDoomed(r) ==
  /\ prerequisitesPc'[r] # "idle"
  /\ \A g \in Programs : (g \in refused'[r] \ refused[r] => DoomedAt(r, g)) /\ ~DoomedAt(r, g)'

LEMMA RefusedAreDoomed ==
  ASSUME PrerequisitesInv, NEW r \in Runs, RunStep(r)
  PROVE  RefusedWasDoomed(r)
<1> DEFINE G == RefusedWasDoomed(r)
<1>t. RunTypes /\ CourseOK(r)
  BY DEF PrerequisitesInv, Prerequisite!TypeOK, RunTypes
<1>k. ASSUME prerequisitesPc'[r] \notin {"idle", "creating"}, refused'[r] = refused[r] PROVE G
  BY <1>k DEF RefusedWasDoomed, DoomedAt
<1>1. CASE Prerequisite!Start(r)
  BY <1>1, <1>t, <1>k DEF Prerequisite!Start, Prerequisite!Goes, Prerequisite!history, RunTypes
<1>2. ASSUME NEW g \in Programs, Prerequisite!ReadPdf(r, g) PROVE G
  BY <1>2, <1>t, <1>k
  DEF Prerequisite!ReadPdf, Prerequisite!Goes, Prerequisite!history, RunTypes
<1>3. ASSUME NEW g \in Programs, Prerequisite!PdfFails(r, g) PROVE G
  BY <1>3, <1>t, <1>k DEF Prerequisite!PdfFails, Prerequisite!Goes, RunTypes
<1>4. ASSUME NEW p \in Prerequisite!Pairs, Prerequisite!LookUp(r, p) PROVE G
  <2>1. prerequisitesPc'[r] \notin {"idle", "creating"} /\ refused'[r] = refused[r]
    BY <1>4, <1>t, LookedUp
  <2> QED
    BY <2>1, <1>k
<1>5. ASSUME NEW p \in Prerequisite!Pairs, Prerequisite!UpdateText(r, p) PROVE G
  BY <1>5, <1>t, <1>k DEF Prerequisite!UpdateText, Prerequisite!Goes, RunTypes
<1>6. ASSUME NEW p \in Prerequisite!Pairs, Prerequisite!DeleteAllPrerequisites(r, p) PROVE G
  BY <1>6, <1>t, <1>k DEF Prerequisite!DeleteAllPrerequisites, Prerequisite!Goes, RunTypes
<1>7. ASSUME NEW p \in Prerequisite!Pairs, Prerequisite!DeletesDone(r, p) PROVE G
  BY <1>7, <1>t, <1>k
  DEF Prerequisite!DeletesDone, Prerequisite!Goes, Prerequisite!history, RunTypes
<1>8. ASSUME NEW p \in Prerequisite!Pairs, Prerequisite!CallFails(r, p) PROVE G
  BY <1>8, <1>t, <1>k DEF Prerequisite!CallFails, Prerequisite!Goes, RunTypes
<1>9. ASSUME NEW p \in Prerequisite!Pairs, NEW c \in Prerequisite!AllCourses,
             Prerequisite!DeletePrerequisite(r, p, c)
      PROVE  G
  BY <1>9, <1>t, <1>k DEF Prerequisite!DeletePrerequisite, RunTypes
<1>10. ASSUME NEW p \in Prerequisite!Pairs, NEW c \in Prerequisite!AllCourses,
              Prerequisite!LookForPrerequisite(r, p, c)
      PROVE  G
  <2>1. /\ p \in prerequisitesCurrent[r] /\ UNCHANGED <<rows, prerequisitesCurrent, refused>>
        /\ prerequisitesPc[r] = "adding"
    BY <1>10 DEF Prerequisite!LookForPrerequisite, Prerequisite!tables, Prerequisite!history
  <2>2. CASE Prerequisite!IsMissing(p, c)
    <3>1. prerequisitesPc'[r] = "creating" /\ adding'[r] = {c} /\ prerequisitesCurrent'[r] = {p}
          /\ c \notin rows[p]
      BY <1>10, <1>t, <2>1, <2>2
      DEF Prerequisite!LookForPrerequisite, Prerequisite!IsMissing, RunTypes, CourseOK
    <3> QED
      BY <2>1, <3>1 DEF RefusedWasDoomed, DoomedAt
  <2>3. CASE ~Prerequisite!IsMissing(p, c)
    <3>1. prerequisitesPc'[r] = "adding"
      BY <1>10, <2>1, <2>3 DEF Prerequisite!LookForPrerequisite
    <3> QED
      BY <2>1, <3>1, <1>k
  <2> QED
    BY <2>2, <2>3
<1>11. ASSUME NEW p \in Prerequisite!Pairs, NEW c \in Prerequisite!AllCourses,
              Prerequisite!CreatePrerequisite(r, p, c)
      PROVE  G
  BY <1>11, <1>t, <1>k DEF Prerequisite!CreatePrerequisite, Prerequisite!Goes, RunTypes
<1>12. ASSUME NEW p \in Prerequisite!Pairs, NEW c \in Prerequisite!AllCourses,
              Prerequisite!CreateRefused(r, p, c)
      PROVE  G
  <2>1. /\ prerequisitesPc[r] = "creating" /\ prerequisitesPc'[r] = "next program"
        /\ refused'[r] = refused[r] \cup {p[1]}
        /\ p \in prerequisitesCurrent[r] /\ c \in adding[r] \cap rows[p]
    BY <1>12, <1>t DEF Prerequisite!CreateRefused, Prerequisite!Goes, RunTypes
  <2> QED
    BY <2>1 DEF RefusedWasDoomed, DoomedAt
<1>13. CASE Prerequisite!AddsDone(r)
  BY <1>13, <1>t, <1>k
  DEF Prerequisite!AddsDone, Prerequisite!Goes, Prerequisite!history, RunTypes
<1>14. CASE Prerequisite!ProgramDone(r)
  BY <1>14, <1>t, <1>k
  DEF Prerequisite!ProgramDone, Prerequisite!Goes, Prerequisite!history, RunTypes
<1>15. CASE Prerequisite!JobDone(r)
  BY <1>15, <1>t, <1>k
  DEF Prerequisite!JobDone, Prerequisite!Goes, Prerequisite!history, RunTypes
<1>h. ASSUME NEW g \in Programs, Prerequisite!PdfHangs(r, g) PROVE G
  BY <1>h, <1>t, <1>k
  DEF Prerequisite!PdfHangs, Prerequisite!Goes, Prerequisite!history, RunTypes
<1>16. CASE Prerequisite!Stops(r)
  BY <1>16, <1>t, <1>k
  DEF Prerequisite!Stops, Prerequisite!Goes, Prerequisite!history, Prerequisite!InProgram,
      RunTypes
<1> QED
  BY <1>1, <1>2, <1>3, <1>4, <1>5, <1>6, <1>7, <1>8, <1>9, <1>10, <1>11, <1>12, <1>13, <1>14,
    <1>15, <1>16, <1>h
  DEF RunStep, Prerequisite!Step, Prerequisite!CourseStep

LEMMA AllSurvive ==
  ASSUME PrerequisitesInv, SurvivorsOK, NEW r \in Runs, RunStep(r)
  PROVE  SurvivorsOK'
<1>t. Prerequisite!TypeOK /\ ProgramOK(r)
  BY DEF PrerequisitesInv
<1>o. \A s \in Runs \ {r} : Untouched(s)
  BY <1>t, OtherRuns
<1>r. RefusedWasDoomed(r)
  BY RefusedAreDoomed
<1>1. ASSUME NEW g \in Programs,
             \A s \in Runs \ {r} : DoomedAt(s, g)' => DoomedAt(s, g),
             \E s \in Runs : g \in refused'[s] \/ DoomedAt(s, g)'
      PROVE  Survivor(g)'
  <2>1. \E s \in Runs : g \in refused[s] \/ DoomedAt(s, g)
    BY <1>1, <1>o, <1>r DEF Untouched, RefusedWasDoomed
  <2>2. PICK s \in Runs : prerequisitesPc[s] # "idle" /\ g \notin refused[s] /\ ~DoomedAt(s, g)
    BY <2>1 DEF SurvivorsOK, Survivor
  <2> QED
    BY <1>1, <1>o, <1>r, <2>2 DEF Untouched, RefusedWasDoomed, Survivor
<1>2. CASE \A p \in Prerequisite!Pairs : rows'[p] \subseteq rows[p]
  <2>1. ASSUME NEW g \in Programs, NEW s \in Runs \ {r}, DoomedAt(s, g)' PROVE DoomedAt(s, g)
    BY <1>2, <1>o, <1>t, <2>1 DEF DoomedAt, Untouched, Prerequisite!TypeOK
  <2> QED
    BY <1>1, <2>1 DEF SurvivorsOK
<1>3. ASSUME NEW p \in Prerequisite!Pairs, Creates(r, p) PROVE SurvivorsOK'
  <2>1. ASSUME NEW g \in Programs, g # p[1], NEW s \in Runs \ {r}, DoomedAt(s, g)'
        PROVE DoomedAt(s, g)
    BY <1>3, <1>o, <1>t, <2>1 DEF DoomedAt, Untouched, Creates, Prerequisite!TypeOK
  <2>2. Survivor(p[1])'
    <3>1. p[1] \in Programs /\ p[1] \notin refused[r]
      BY <1>3, <1>t DEF Creates, ProgramOK, Prerequisite!Pairs
    <3>2. prerequisitesPc'[r] = "adding" /\ p[1] \notin refused'[r]
      BY <1>3, <3>1 DEF Creates
    <3> QED
      BY <3>1, <3>2 DEF Survivor, DoomedAt
  <2> QED
    BY <1>1, <2>1, <2>2 DEF SurvivorsOK
<1> QED
  BY <1>2, <1>3, RowsGrow

LEMMA Survivors ==
  Spec => [](CheminotInv /\ PrerequisitesInv /\ SurvivorOK /\ SurvivorsOK)
<1> DEFINE Inv == CheminotInv /\ PrerequisitesInv /\ SurvivorOK /\ SurvivorsOK
<1>1. Init => Inv
  <2> SUFFICES ASSUME Init PROVE Inv
    OBVIOUS
  <2>1. Cheminot!Init /\ Prerequisite!Init
    BY DEF Init, CheminotIdle, PrerequisiteIdle
  <2>2. SurvivorOK
    BY <2>1 DEF Cheminot!Init, SurvivorOK, Doomed
  <2>3. SurvivorsOK
    BY <2>1 DEF Prerequisite!Init, SurvivorsOK, DoomedAt
  <2> QED
    BY <2>1, <2>2, <2>3, CheminotInit, PrerequisitesInit
<1>2. Inv /\ [Next]_vars => Inv'
  <2> SUFFICES ASSUME Inv, [Next]_vars PROVE Inv'
    OBVIOUS
  <2>1. CheminotInv' /\ PrerequisitesInv'
    BY CheminotStep, CheminotStutter, PrerequisitesStep, PrerequisitesStutter DEF Next, vars
  <2>2. SurvivorOK'
    <3>1. ASSUME Cheminot!SourcesChange PROVE SurvivorOK'
      BY <3>1 DEF Cheminot!SourcesChange, Cheminot!memory, SurvivorOK, Doomed
    <3>2. ASSUME Cheminot!Next PROVE SurvivorOK'
      BY <3>1, <3>2, Survives DEF Cheminot!Next
    <3>3. ASSUME UNCHANGED cheminotVars PROVE SurvivorOK'
      BY <3>3 DEF cheminotVars, SurvivorOK, Doomed
    <3> QED
      BY <3>2, <3>3 DEF Next, vars
  <2>3. SurvivorsOK'
    <3>1. ASSUME UNCHANGED <<prerequisitesPc, prerequisitesCurrent, adding, rows, refused>>
          PROVE  SurvivorsOK'
      BY <3>1 DEF SurvivorsOK, Survivor, DoomedAt
    <3>2. ASSUME Prerequisite!Next PROVE SurvivorsOK'
      <4>1. ASSUME Prerequisite!Change PROVE SurvivorsOK'
        BY <3>1, <4>1 DEF Prerequisite!Change, Prerequisite!tables, Prerequisite!course
      <4> QED
        BY <3>2, <4>1, AllSurvive
        DEF Prerequisite!Next, Prerequisite!MemberAdded, Prerequisite!PdfReplaced, RunStep
    <3>3. ASSUME UNCHANGED prerequisiteVars PROVE SurvivorsOK'
      BY <3>1, <3>3 DEF prerequisiteVars
    <3> QED
      BY <3>2, <3>3 DEF Next, vars
  <2> QED
    BY <2>1, <2>2, <2>3
<1> QED
  BY <1>1, <1>2, PTL DEF Spec

(* Runs that refuse each other's rows never refuse all of them.            *)
THEOREM OneGetsOn == Spec => []NotAllRefused
<1>1. CheminotInv /\ PrerequisitesInv /\ SurvivorOK /\ SurvivorsOK => NotAllRefused
  BY DEF NotAllRefused, Cheminot!NotAllRefused, Prerequisite!NotAllRefused, SurvivorOK,
     SurvivorsOK, Survivor
<1> QED
  BY <1>1, Survivors, PTL

(* Every variable of the catalogue's jobs keeps its type, and each row of  *)
(* a table the keys it refers to.                                          *)
THEOREM TypeCorrect == Spec => []TypeOK
<1>1. DescriptionsInv /\ CheminotInv /\ ProgramsInv /\ PrerequisitesInv => TypeOK
  BY DEF TypeOK, DescriptionsInv, CheminotInv, ProgramsInv, PrerequisitesInv
<1> QED
  BY <1>1, DescriptionsInvariance, Survivors, ProgramsInvariance, PTL

----------------------------------------------------------------------------
(* The order of ranks.                                                     *)
Less(s, t) == \E i \in DOMAIN s : s[i] < t[i] /\ \A j \in 1..(i - 1) : s[j] = t[j]

LEMMA Lexical ==
  ASSUME NEW a1, NEW a2, NEW a3, NEW b1, NEW b2, NEW b3,
         \/ a1 < b1
         \/ a1 = b1 /\ a2 < b2
         \/ a1 = b1 /\ a2 = b2 /\ a3 < b3
  PROVE  Less(<<a1, a2, a3>>, <<b1, b2, b3>>)
<1> DEFINE s == <<a1, a2, a3>>
           t == <<b1, b2, b3>>
<1>1. DOMAIN s = 1..3
  OBVIOUS
<1>2. /\ s[1] = a1 /\ s[2] = a2 /\ s[3] = a3
      /\ t[1] = b1 /\ t[2] = b2 /\ t[3] = b3
  OBVIOUS
<1> HIDE DEF s, t
<1>3. \E i \in 1..3 : s[i] < t[i] /\ \A j \in 1..(i - 1) : s[j] = t[j]
  BY <1>2
<1>4. Less(s, t)
  BY <1>1, <1>3 DEF Less
<1> QED
  BY <1>4 DEF s, t

LEMMA SmallerSet ==
  ASSUME NEW S, IsFiniteSet(S), NEW T \in SUBSET S
  PROVE  /\ Cardinality(T) \in Nat /\ Cardinality(S) \in Nat
         /\ T # S => Cardinality(T) < Cardinality(S)
BY FS_Subset, FS_CardinalityType

LEMMA FinitePairs ==
  /\ IsFiniteSet(Cheminot!Pairs) /\ IsFiniteSet(Prerequisite!Pairs)
  /\ IsFiniteSet(Prerequisite!AllCourses)
BY FiniteAssumption, FS_Product, FS_Union
DEF Cheminot!Pairs, Prerequisite!Pairs, Prerequisite!AllCourses

(* The instances' cardinalities are the library's. *)
LEMMA SameSizes ==
  ASSUME NEW S
  PROVE  /\ Descriptions!Cardinality(S) = Cardinality(S)
         /\ ProgramTable!Cardinality(S) = Cardinality(S)
         /\ Cheminot!Cardinality(S) = Cardinality(S)
         /\ Prerequisite!Cardinality(S) = Cardinality(S)
BY DEF Cardinality, IsFiniteSet, Descriptions!Cardinality, Descriptions!IsFiniteSet,
       ProgramTable!Cardinality, ProgramTable!IsFiniteSet, Cheminot!Cardinality,
       Cheminot!IsFiniteSet, Prerequisite!Cardinality, Prerequisite!IsFiniteSet

(* Cheminot's file: the parse, the pairs, the steps at a pair.             *)
CheminotFirst(phase) == IF phase = "parsing" THEN 1 ELSE 0
CheminotStage(phase) ==
  CASE phase \in {"updating", "creating"} -> 2 [] phase = "matching" -> 1 [] OTHER -> 0

LEMMA CheminotPhases ==
  /\ CheminotFirst("parsing") = 1
  /\ \A phase : phase # "parsing" => CheminotFirst(phase) = 0
  /\ CheminotStage("updating") = 2 /\ CheminotStage("creating") = 2 /\ CheminotStage("matching") = 1
  /\ CheminotStage("refused") = 0 /\ CheminotStage("matched") = 0
BY DEF CheminotFirst, CheminotStage

LEMMA CheminotRank ==
  ASSUME NEW r \in Runs
  PROVE  Cheminot!Rank(r) =
           <<CheminotFirst(cheminotPc[r]), Cardinality(cheminotLeft[r]),
             CheminotStage(cheminotPc[r])>>
BY SameSizes DEF Cheminot!Rank, CheminotFirst, CheminotStage

LEMMA CheminotRunsOut ==
  ASSUME Cheminot!TypeOK, NEW r \in Runs, Cheminot!Step(r)
  PROVE  Cheminot!Before(Cheminot!Rank(r)', Cheminot!Rank(r))
<1>t. /\ cheminotPc \in [Runs -> Cheminot!Phase]
      /\ cheminotLeft \in [Runs -> SUBSET Cheminot!Pairs]
  BY DEF Cheminot!TypeOK
<1>s. ASSUME NEW T \in SUBSET cheminotLeft[r]
      PROVE  /\ Cardinality(T) \in Nat /\ Cardinality(cheminotLeft[r]) \in Nat
             /\ T # cheminotLeft[r] => Cardinality(T) < Cardinality(cheminotLeft[r])
  <2>1. IsFiniteSet(cheminotLeft[r])
    BY <1>t, FinitePairs, FS_Subset
  <2> QED
    BY <2>1, SmallerSet
<1> DEFINE Falls ==
      \/ cheminotPc[r] = "parsing" /\ cheminotPc'[r] = "matching"
      \/ /\ cheminotPc[r] # "parsing" /\ cheminotPc'[r] # "parsing"
         /\ \/ cheminotLeft'[r] \subseteq cheminotLeft[r] /\ cheminotLeft'[r] # cheminotLeft[r]
            \/ /\ cheminotLeft'[r] \subseteq cheminotLeft[r]
               /\ \/ cheminotPc[r] \in {"updating", "creating"}
                     /\ cheminotPc'[r] \in {"matching", "refused"}
                  \/ cheminotPc[r] = "matching" /\ cheminotPc'[r] = "matched"
<1>1. Falls
  <2>1. CASE Cheminot!ParseFile(r)
    BY <1>t, <2>1 DEF Cheminot!ParseFile, Cheminot!Goes
  <2>2. ASSUME NEW p \in Cheminot!Pairs, Cheminot!MatchCourse(r, p) PROVE Falls
    <3>1. /\ cheminotPc[r] = "matching" /\ cheminotPc'[r] \in {"matching", "creating", "updating"}
      BY <1>t, <2>2 DEF Cheminot!MatchCourse
    <3>2. p \in cheminotLeft[r] /\ cheminotLeft'[r] = cheminotLeft[r] \ {p}
      BY <1>t, <2>2 DEF Cheminot!MatchCourse
    <3> QED
      BY <3>1, <3>2
  <2>3. ASSUME NEW p \in Cheminot!Pairs,
               Cheminot!UpdateProgramCourse(r, p) \/ Cheminot!CreateProgramCourse(r, p)
        PROVE  Falls
    BY <1>t, <2>3
    DEF Cheminot!UpdateProgramCourse, Cheminot!CreateProgramCourse, Cheminot!Goes, Cheminot!Writes
  <2>4. CASE Cheminot!CreateRefused(r)
    BY <1>t, <2>4 DEF Cheminot!CreateRefused, Cheminot!Goes, Cheminot!Forget
  <2>5. CASE Cheminot!MatchingDone(r)
    BY <1>t, <2>5 DEF Cheminot!MatchingDone, Cheminot!Goes, Cheminot!memory
  <2> QED
    BY <2>1, <2>2, <2>3, <2>4, <2>5 DEF Cheminot!Step
<1>2. \/ CheminotFirst(cheminotPc'[r]) < CheminotFirst(cheminotPc[r])
      \/ /\ CheminotFirst(cheminotPc'[r]) = CheminotFirst(cheminotPc[r])
         /\ \/ Cardinality(cheminotLeft'[r]) < Cardinality(cheminotLeft[r])
            \/ /\ Cardinality(cheminotLeft'[r]) = Cardinality(cheminotLeft[r])
               /\ CheminotStage(cheminotPc'[r]) < CheminotStage(cheminotPc[r])
  BY <1>1, <1>s, CheminotPhases
<1>3. Cheminot!Rank(r)' =
        <<CheminotFirst(cheminotPc'[r]), Cardinality(cheminotLeft'[r]),
          CheminotStage(cheminotPc'[r])>>
  BY SameSizes DEF Cheminot!Rank, CheminotFirst, CheminotStage
<1>4. Less(Cheminot!Rank(r)', Cheminot!Rank(r))
  BY <1>2, <1>3, CheminotRank, Lexical
<1> QED
  BY <1>4 DEF Less, Cheminot!Before

(* The programs: the types, the upserts that look, those that write.       *)
ProgramStage(phase) ==
  CASE phase = "fetched" -> 3 [] phase = "creating types" -> 2 [] phase = "upserting" -> 1 [] OTHER -> 0

LEMMA ProgramDrops ==
  /\ ProgramStage("creating types") < ProgramStage("fetched")
  /\ ProgramStage("upserting") < ProgramStage("fetched")
  /\ ProgramStage("upserting") < ProgramStage("creating types")
  /\ ProgramStage("updated") < ProgramStage("upserting")
  /\ ProgramStage("failed") < ProgramStage("upserting")
BY DEF ProgramStage

LEMMA ProgramRank ==
  ASSUME NEW r \in Runs
  PROVE  ProgramTable!Rank(r) =
           <<ProgramStage(programsPc[r]), Cardinality(waiting[r]),
             Cardinality(updating[r] \cup creating[r])>>
BY SameSizes DEF ProgramTable!Rank, ProgramStage

LEMMA ProgramsRunOut ==
  ASSUME ProgramTable!TypeOK, NEW r \in Runs, ProgramTable!Step(r)
  PROVE  ProgramTable!Before(ProgramTable!Rank(r)', ProgramTable!Rank(r))
<1>t. /\ programsPc \in [Runs -> ProgramTable!Phase]
      /\ waiting \in [Runs -> SUBSET Programs]
      /\ updating \in [Runs -> SUBSET Programs]
      /\ creating \in [Runs -> SUBSET Programs]
  BY DEF ProgramTable!TypeOK
<1>s. ASSUME NEW S \in SUBSET Programs, NEW T \in SUBSET S, T # S
      PROVE  Cardinality(T) < Cardinality(S)
  <2>1. IsFiniteSet(S)
    BY FiniteAssumption, FS_Subset
  <2> QED
    BY <1>s, <2>1, SmallerSet
<1> DEFINE Falls ==
      \/ programsPc[r] = "fetched" /\ programsPc'[r] \in {"creating types", "upserting"}
      \/ programsPc[r] = "creating types" /\ programsPc'[r] = "upserting"
      \/ programsPc[r] = "upserting" /\ programsPc'[r] \in {"updated", "failed"}
      \/ /\ programsPc'[r] = programsPc[r]
         /\ \/ waiting'[r] \subseteq waiting[r] /\ waiting'[r] # waiting[r]
            \/ /\ waiting'[r] = waiting[r]
               /\ updating'[r] \cup creating'[r] \subseteq updating[r] \cup creating[r]
               /\ updating'[r] \cup creating'[r] # updating[r] \cup creating[r]
<1>1. Falls
  <2>1. CASE ProgramTable!FindTypes(r) \/ ProgramTable!CreateTypes(r) \/ ProgramTable!TypesFail(r)
             \/ ProgramTable!UpsertsDone(r)
    BY <1>t, <2>1
    DEF ProgramTable!FindTypes, ProgramTable!CreateTypes, ProgramTable!TypesFail,
        ProgramTable!UpsertsDone, ProgramTable!Goes
  <2>2. ASSUME NEW g \in Programs, ProgramTable!UpsertLooks(r, g) PROVE Falls
    BY <1>t, <2>2 DEF ProgramTable!UpsertLooks
  <2>3. ASSUME NEW g \in Programs, ProgramTable!UpsertWrites(r, g) PROVE Falls
    BY <1>t, <2>3 DEF ProgramTable!UpsertWrites
  <2>4. ASSUME NEW g \in Programs, ProgramTable!UpsertRefused(r, g) PROVE Falls
    BY <1>t, <2>4 DEF ProgramTable!UpsertRefused, ProgramTable!Goes
  <2> QED
    BY <2>1, <2>2, <2>3, <2>4 DEF ProgramTable!Step
<1>2. \/ ProgramStage(programsPc'[r]) < ProgramStage(programsPc[r])
      \/ /\ ProgramStage(programsPc'[r]) = ProgramStage(programsPc[r])
         /\ \/ Cardinality(waiting'[r]) < Cardinality(waiting[r])
            \/ /\ Cardinality(waiting'[r]) = Cardinality(waiting[r])
               /\ Cardinality(updating'[r] \cup creating'[r]) < Cardinality(updating[r] \cup creating[r])
  <2>1. ASSUME waiting'[r] \subseteq waiting[r], waiting'[r] # waiting[r]
        PROVE  Cardinality(waiting'[r]) < Cardinality(waiting[r])
    BY <1>t, <1>s, <2>1
  <2>2. ASSUME updating'[r] \cup creating'[r] \subseteq updating[r] \cup creating[r],
               updating'[r] \cup creating'[r] # updating[r] \cup creating[r]
        PROVE  Cardinality(updating'[r] \cup creating'[r]) < Cardinality(updating[r] \cup creating[r])
    <3>1. updating[r] \cup creating[r] \in SUBSET Programs
      BY <1>t
    <3> QED
      BY <1>s, <2>2, <3>1
  <2>3. CASE \/ programsPc[r] = "fetched" /\ programsPc'[r] \in {"creating types", "upserting"}
             \/ programsPc[r] = "creating types" /\ programsPc'[r] = "upserting"
             \/ programsPc[r] = "upserting" /\ programsPc'[r] \in {"updated", "failed"}
    <3>1. ProgramStage(programsPc'[r]) < ProgramStage(programsPc[r])
      BY <2>3, ProgramDrops
    <3> QED
      BY <3>1
  <2>4. CASE programsPc'[r] = programsPc[r]
    <3>1. ProgramStage(programsPc'[r]) = ProgramStage(programsPc[r])
      BY <2>4
    <3>2. CASE waiting'[r] \subseteq waiting[r] /\ waiting'[r] # waiting[r]
      BY <2>1, <3>1, <3>2
    <3>3. CASE /\ waiting'[r] = waiting[r]
               /\ updating'[r] \cup creating'[r] \subseteq updating[r] \cup creating[r]
               /\ updating'[r] \cup creating'[r] # updating[r] \cup creating[r]
      <4>1. Cardinality(waiting'[r]) = Cardinality(waiting[r])
        BY <3>3
      <4> QED
        BY <2>2, <3>1, <3>3, <4>1
    <3> QED
      BY <1>1, <2>4, <3>2, <3>3
  <2> QED
    BY <1>1, <2>3, <2>4
<1>3. ProgramTable!Rank(r)' =
        <<ProgramStage(programsPc'[r]), Cardinality(waiting'[r]),
          Cardinality(updating'[r] \cup creating'[r])>>
  BY SameSizes DEF ProgramTable!Rank, ProgramStage
<1>4. Less(ProgramTable!Rank(r)', ProgramTable!Rank(r))
  BY <1>2, <1>3, ProgramRank, Lexical
<1> QED
  BY <1>4 DEF Less, ProgramTable!Before

(* The descriptions: two passes, the courses, the steps at a course.       *)
AliveAt == {"upserting", "backfilling", "asking", "writing"}
DescriptionFirst(phase, n) == IF phase \in AliveAt THEN 3 - n ELSE 0
DescriptionStage(phase) ==
  CASE phase \in {"backfilling", "writing"} -> 2 [] phase \in {"upserting", "asking"} -> 1 [] OTHER -> 0

LEMMA DescriptionDrops ==
  /\ DescriptionStage("upserting") < DescriptionStage("backfilling")
  /\ DescriptionStage("asking") < DescriptionStage("writing")
BY DEF DescriptionStage

LEMMA DescriptionRank ==
  ASSUME NEW r \in Runs
  PROVE  /\ Descriptions!Rank(r) =
              <<DescriptionFirst(descriptionPc[r], pass[r]), Cardinality(descriptionLeft[r]),
                DescriptionStage(descriptionPc[r])>>
         /\ Descriptions!Rank(r)' =
              <<DescriptionFirst(descriptionPc'[r], pass'[r]), Cardinality(descriptionLeft'[r]),
                DescriptionStage(descriptionPc'[r])>>
BY SameSizes
DEF Descriptions!Rank, Descriptions!Upserting, Descriptions!Syncing, AliveAt, DescriptionFirst,
    DescriptionStage

LEMMA DescriptionsRunOut ==
  ASSUME Descriptions!TypeOK, NEW r \in Runs, Descriptions!Step(r)
  PROVE  Descriptions!Before(Descriptions!Rank(r)', Descriptions!Rank(r))
<1>t. /\ descriptionPc \in [Runs -> Descriptions!Phase]
      /\ descriptionLeft \in [Runs -> SUBSET Courses]
      /\ pass \in [Runs -> {1, 2}]
  BY DEF Descriptions!TypeOK
<1>s. ASSUME NEW T \in SUBSET descriptionLeft[r], T # descriptionLeft[r]
      PROVE  Cardinality(T) < Cardinality(descriptionLeft[r])
  <2>1. IsFiniteSet(descriptionLeft[r])
    BY <1>t, FiniteAssumption, FS_Subset
  <2> QED
    BY <1>s, <2>1, SmallerSet
<1> DEFINE Falls ==
      \/ descriptionPc[r] \in AliveAt /\ descriptionPc'[r] \notin AliveAt
      \/ descriptionPc'[r] = descriptionPc[r] /\ descriptionPc[r] \in AliveAt /\ pass[r] = 1
         /\ pass'[r] = 2
      \/ /\ descriptionPc[r] \in AliveAt /\ descriptionPc'[r] \in AliveAt /\ pass'[r] = pass[r]
         /\ \/ descriptionLeft'[r] \subseteq descriptionLeft[r]
               /\ descriptionLeft'[r] # descriptionLeft[r]
            \/ /\ descriptionLeft'[r] = descriptionLeft[r]
               /\ \/ descriptionPc[r] = "backfilling" /\ descriptionPc'[r] = "upserting"
                  \/ descriptionPc[r] = "writing" /\ descriptionPc'[r] = "asking"
<1>1. Falls
  <2>1. ASSUME NEW c \in Courses, Descriptions!UpsertCourse(r, c) PROVE Falls
    <3>1. /\ descriptionPc[r] = "upserting" /\ descriptionPc'[r] \in {"upserting", "backfilling"}
          /\ UNCHANGED pass
      BY <1>t, <2>1 DEF Descriptions!UpsertCourse
    <3>2. c \in descriptionLeft[r] /\ descriptionLeft'[r] = descriptionLeft[r] \ {c}
      BY <1>t, <2>1 DEF Descriptions!UpsertCourse
    <3> QED
      BY <3>1, <3>2 DEF AliveAt
  <2>2. CASE Descriptions!Backfill(r)
    BY <1>t, <2>2 DEF Descriptions!Backfill, Descriptions!Goes, AliveAt
  <2>3. CASE Descriptions!UpsertsDone(r) \/ Descriptions!SyncDone(r)
    BY <1>t, <2>3 DEF Descriptions!UpsertsDone, Descriptions!SyncDone, Descriptions!Goes, AliveAt
  <2>4. CASE Descriptions!FetchPages(r)
    <3>1. PICK batch \in Descriptions!Batches(r) :
            /\ descriptionLeft' = [descriptionLeft EXCEPT ![r] = @ \ batch]
            /\ \E changed \in SUBSET Courses :
                 descriptionPc' = [descriptionPc EXCEPT ![r] = IF changed = {} THEN "asking"
                   ELSE "writing"]
      <4>1. PICK batch \in Descriptions!Batches(r) :
              \E answered \in SUBSET batch : \E shown \in [answered -> Pages] :
                LET changed == {c \in answered : shown[c] # read[r][c]}
                IN  /\ descriptionLeft' = [descriptionLeft EXCEPT ![r] = @ \ batch]
                    /\ failed' = [failed EXCEPT ![r] = @ \cup (batch \ answered)]
                    /\ descriptionCurrent' = [descriptionCurrent EXCEPT ![r] = changed]
                    /\ texts' = [texts EXCEPT ![r] =
                                   [c \in Courses |-> IF c \in changed THEN shown[c] ELSE "no row"]]
                    /\ descriptionPc' = [descriptionPc EXCEPT ![r] = IF changed = {}
                       THEN "asking" ELSE "writing"]
        BY <2>4 DEF Descriptions!FetchPages, Descriptions!Fetched
      <4>2. batch \subseteq Courses
        BY <1>t DEF Descriptions!Batches
      <4> QED
        BY <4>1, <4>2
    <3>2. batch \subseteq descriptionLeft[r] /\ batch # {}
      <4>1. Descriptions!Cardinality({}) = 0
        BY SameSizes, FS_EmptySet
      <4>2. descriptionLeft[r] # {}
        BY <2>4 DEF Descriptions!FetchPages
      <4> QED
        BY <4>1, <4>2, BatchAssumption DEF Descriptions!Batches
    <3>3. descriptionPc[r] = "asking" /\ UNCHANGED pass
          /\ descriptionPc'[r] \in {"asking", "writing"}
      BY <1>t, <2>4, <3>1 DEF Descriptions!FetchPages
    <3>4. descriptionLeft'[r] = descriptionLeft[r] \ batch
      BY <1>t, <3>1
    <3> QED
      BY <3>2, <3>3, <3>4 DEF AliveAt
  <2>5. CASE Descriptions!WriteDescriptions(r)
    BY <1>t, <2>5 DEF Descriptions!WriteDescriptions, Descriptions!Goes, AliveAt
  <2>6. CASE Descriptions!RetryFailed(r)
    BY <1>t, <2>6 DEF Descriptions!RetryFailed, AliveAt
  <2> QED
    BY <2>1, <2>2, <2>3, <2>4, <2>5, <2>6 DEF Descriptions!Step
<1>2. \/ DescriptionFirst(descriptionPc'[r], pass'[r]) < DescriptionFirst(descriptionPc[r], pass[r])
      \/ /\ DescriptionFirst(descriptionPc'[r], pass'[r]) = DescriptionFirst(descriptionPc[r], pass[r])
         /\ \/ Cardinality(descriptionLeft'[r]) < Cardinality(descriptionLeft[r])
            \/ /\ Cardinality(descriptionLeft'[r]) = Cardinality(descriptionLeft[r])
               /\ DescriptionStage(descriptionPc'[r]) < DescriptionStage(descriptionPc[r])
  <2>p. pass[r] = 1 \/ pass[r] = 2
    BY <1>t
  <2>1. CASE \/ descriptionPc[r] \in AliveAt /\ descriptionPc'[r] \notin AliveAt
             \/ descriptionPc'[r] = descriptionPc[r] /\ descriptionPc[r] \in AliveAt
                /\ pass[r] = 1 /\ pass'[r] = 2
    BY <2>p, <2>1 DEF DescriptionFirst
  <2>2. CASE descriptionPc[r] \in AliveAt /\ descriptionPc'[r] \in AliveAt /\ pass'[r] = pass[r]
    <3>1. DescriptionFirst(descriptionPc'[r], pass'[r]) = DescriptionFirst(descriptionPc[r], pass[r])
      BY <2>2 DEF DescriptionFirst
    <3>2. CASE descriptionLeft'[r] \subseteq descriptionLeft[r]
               /\ descriptionLeft'[r] # descriptionLeft[r]
      BY <1>s, <3>1, <3>2
    <3>3. CASE /\ descriptionLeft'[r] = descriptionLeft[r]
               /\ \/ descriptionPc[r] = "backfilling" /\ descriptionPc'[r] = "upserting"
                  \/ descriptionPc[r] = "writing" /\ descriptionPc'[r] = "asking"
      <4>1. Cardinality(descriptionLeft'[r]) = Cardinality(descriptionLeft[r])
        BY <3>3
      <4>2. DescriptionStage(descriptionPc'[r]) < DescriptionStage(descriptionPc[r])
        BY <3>3, DescriptionDrops
      <4> QED
        BY <3>1, <4>1, <4>2
    <3>4. CASE pass[r] = 1 /\ pass'[r] = 2
      BY <2>2, <3>4
    <3> QED
      BY <1>1, <2>2, <3>2, <3>3, <3>4
  <2> QED
    BY <1>1, <2>1, <2>2
<1>3. Less(Descriptions!Rank(r)', Descriptions!Rank(r))
  BY <1>2, DescriptionRank, Lexical
<1> QED
  BY <1>3 DEF Less, Descriptions!Before

(* The prerequisites: the programs, the courses, the stages of a course,   *)
(* what it has still to delete and to add.                                 *)
LEMMA Lexical8 ==
  ASSUME NEW a1, NEW a2, NEW a3, NEW a4, NEW a5, NEW a6, NEW a7, NEW a8,
         NEW b1, NEW b2, NEW b3, NEW b4, NEW b5, NEW b6, NEW b7, NEW b8,
         \/ a1 < b1
         \/ a1 = b1 /\ a2 < b2
         \/ a1 = b1 /\ a2 = b2 /\ a3 < b3
         \/ a1 = b1 /\ a2 = b2 /\ a3 = b3 /\ a4 < b4
         \/ a1 = b1 /\ a2 = b2 /\ a3 = b3 /\ a4 = b4 /\ a5 < b5
         \/ a1 = b1 /\ a2 = b2 /\ a3 = b3 /\ a4 = b4 /\ a5 = b5 /\ a6 < b6
         \/ a1 = b1 /\ a2 = b2 /\ a3 = b3 /\ a4 = b4 /\ a5 = b5 /\ a6 = b6 /\ a7 < b7
         \/ a1 = b1 /\ a2 = b2 /\ a3 = b3 /\ a4 = b4 /\ a5 = b5 /\ a6 = b6 /\ a7 = b7 /\ a8 < b8
  PROVE  Less(<<a1, a2, a3, a4, a5, a6, a7, a8>>, <<b1, b2, b3, b4, b5, b6, b7, b8>>)
<1> DEFINE s == <<a1, a2, a3, a4, a5, a6, a7, a8>>
           t == <<b1, b2, b3, b4, b5, b6, b7, b8>>
<1>1. DOMAIN s = 1..8
  OBVIOUS
<1>2. /\ s[1] = a1 /\ s[2] = a2 /\ s[3] = a3 /\ s[4] = a4 /\ s[5] = a5 /\ s[6] = a6 /\ s[7] = a7
         /\ s[8] = a8
      /\ t[1] = b1 /\ t[2] = b2 /\ t[3] = b3 /\ t[4] = b4 /\ t[5] = b5 /\ t[6] = b6 /\ t[7] = b7
         /\ t[8] = b8
  OBVIOUS
<1> HIDE DEF s, t
<1>3. \E i \in 1..8 : s[i] < t[i] /\ \A j \in 1..(i - 1) : s[j] = t[j]
  <2>1. CASE a1 < b1
    BY <1>2, <2>1
  <2>2. CASE a1 = b1 /\ a2 < b2
    BY <1>2, <2>2
  <2>3. CASE a1 = b1 /\ a2 = b2 /\ a3 < b3
    BY <1>2, <2>3
  <2>4. CASE a1 = b1 /\ a2 = b2 /\ a3 = b3 /\ a4 < b4
    BY <1>2, <2>4
  <2>5. CASE a1 = b1 /\ a2 = b2 /\ a3 = b3 /\ a4 = b4 /\ a5 < b5
    BY <1>2, <2>5
  <2>6. CASE a1 = b1 /\ a2 = b2 /\ a3 = b3 /\ a4 = b4 /\ a5 = b5 /\ a6 < b6
    BY <1>2, <2>6
  <2>7. CASE a1 = b1 /\ a2 = b2 /\ a3 = b3 /\ a4 = b4 /\ a5 = b5 /\ a6 = b6 /\ a7 < b7
    BY <1>2, <2>7
  <2>8. CASE a1 = b1 /\ a2 = b2 /\ a3 = b3 /\ a4 = b4 /\ a5 = b5 /\ a6 = b6 /\ a7 = b7 /\ a8 < b8
    BY <1>2, <2>8
  <2> QED
    BY <2>1, <2>2, <2>3, <2>4, <2>5, <2>6, <2>7, <2>8
<1>4. Less(s, t)
  BY <1>1, <1>3 DEF Less
<1> QED
  BY <1>4 DEF s, t

AtWorkOn == {"next course", "text", "clearing", "deleting", "adding", "creating"}
Going(phase)  == IF phase \in AtWorkOn \cup {"next program"} THEN 1 ELSE 0
Inside(phase) == IF phase \in AtWorkOn THEN 1 ELSE 0
StageOf(phase) ==
  CASE phase = "text" -> 3 [] phase \in {"clearing", "deleting"} -> 2
    [] phase \in {"adding", "creating"} -> 1 [] OTHER -> 0

LEMMA StageDrops ==
  /\ StageOf("clearing") < StageOf("text") /\ StageOf("deleting") < StageOf("text")
  /\ StageOf("next course") < StageOf("clearing") /\ StageOf("adding") < StageOf("deleting")
  /\ StageOf("next course") < StageOf("adding") /\ StageOf("creating") = StageOf("adding")
BY DEF StageOf

LEMMA PrerequisitesRank ==
  ASSUME NEW r \in Runs
  PROVE  /\ Prerequisite!Rank(r) =
              <<Going(prerequisitesPc[r]), Cardinality(programsLeft[r]), Inside(prerequisitesPc[r]),
                Cardinality(prerequisitesLeft[r]), StageOf(prerequisitesPc[r]),
                Cardinality(toDelete[r]), Cardinality(toAdd[r]), Cardinality(adding[r])>>
         /\ Prerequisite!Rank(r)' =
              <<Going(prerequisitesPc'[r]), Cardinality(programsLeft'[r]),
                Inside(prerequisitesPc'[r]),
                Cardinality(prerequisitesLeft'[r]), StageOf(prerequisitesPc'[r]),
                Cardinality(toDelete'[r]), Cardinality(toAdd'[r]), Cardinality(adding'[r])>>
BY SameSizes
DEF Prerequisite!Rank, Prerequisite!Stage, Prerequisite!InProgram, AtWorkOn, Going, Inside, StageOf

(* What a step takes away, the first of the ranks that changes. *)
Removes(before, after) == after \subseteq before /\ after # before
SameProgram(r) ==
  /\ programsLeft'[r] = programsLeft[r]
  /\ prerequisitesPc[r] \in AtWorkOn /\ prerequisitesPc'[r] \in AtWorkOn
SameStage(r) ==
  /\ SameProgram(r) /\ prerequisitesLeft'[r] = prerequisitesLeft[r]
  /\ StageOf(prerequisitesPc'[r]) = StageOf(prerequisitesPc[r])
GetsOn(r) ==
  \/ prerequisitesPc[r] = "next program" /\ prerequisitesPc'[r] \in {"hung", "done"}
  \/ /\ Removes(programsLeft[r], programsLeft'[r])
     /\ prerequisitesPc[r] = "next program"
        /\ prerequisitesPc'[r] \in {"next program", "next course"}
  \/ /\ programsLeft'[r] = programsLeft[r]
     /\ prerequisitesPc[r] \in AtWorkOn /\ prerequisitesPc'[r] = "next program"
  \/ SameProgram(r) /\ Removes(prerequisitesLeft[r], prerequisitesLeft'[r])
  \/ /\ SameProgram(r) /\ prerequisitesLeft'[r] = prerequisitesLeft[r]
     /\ StageOf(prerequisitesPc'[r]) < StageOf(prerequisitesPc[r])
  \/ SameStage(r) /\ Removes(toDelete[r], toDelete'[r])
  \/ SameStage(r) /\ toDelete'[r] = toDelete[r] /\ Removes(toAdd[r], toAdd'[r])
  \/ SameStage(r) /\ toDelete'[r] = toDelete[r] /\ toAdd'[r] = toAdd[r]
     /\ Removes(adding[r], adding'[r])

LEMMA EachGetsOn ==
  ASSUME Prerequisite!TypeOK, NEW r \in Runs, Prerequisite!Step(r)
  PROVE  GetsOn(r)
<1> DEFINE G == GetsOn(r)
<1>t. RunTypes
  BY DEF Prerequisite!TypeOK, RunTypes
<1>2. ASSUME NEW g \in Programs, Prerequisite!ReadPdf(r, g) PROVE G
  BY <1>2, <1>t DEF Prerequisite!ReadPdf, Prerequisite!Goes, RunTypes, GetsOn, Removes
<1>3. ASSUME NEW g \in Programs, Prerequisite!PdfFails(r, g) PROVE G
  BY <1>3, <1>t DEF Prerequisite!PdfFails, RunTypes, GetsOn, Removes
<1>4. ASSUME NEW p \in Prerequisite!Pairs, Prerequisite!LookUp(r, p) PROVE G
  <2>1. /\ prerequisitesPc[r] = "next course"
        /\ prerequisitesPc'[r] \in {"next course", "text", "clearing", "deleting"}
        /\ UNCHANGED programsLeft
        /\ p \in prerequisitesLeft[r] /\ prerequisitesLeft'[r] = prerequisitesLeft[r] \ {p}
    BY <1>4, <1>t, LookedUp
  <2> QED
    BY <2>1 DEF GetsOn, SameProgram, AtWorkOn, Removes
<1>5. ASSUME NEW p \in Prerequisite!Pairs, Prerequisite!UpdateText(r, p) PROVE G
  <2>1. /\ prerequisitesPc[r] = "text" /\ prerequisitesPc'[r] \in {"clearing", "deleting"}
        /\ UNCHANGED <<programsLeft, prerequisitesLeft>>
    BY <1>5, <1>t DEF Prerequisite!UpdateText, Prerequisite!Goes, RunTypes
  <2> QED
    BY <2>1, StageDrops DEF GetsOn, SameProgram, AtWorkOn
<1>6. ASSUME NEW p \in Prerequisite!Pairs, Prerequisite!DeleteAllPrerequisites(r, p) PROVE G
  <2>1. /\ prerequisitesPc[r] = "clearing" /\ prerequisitesPc'[r] \in {"next course"}
        /\ UNCHANGED <<programsLeft, prerequisitesLeft>>
    BY <1>6, <1>t DEF Prerequisite!DeleteAllPrerequisites, Prerequisite!Goes, RunTypes
  <2> QED
    BY <2>1, StageDrops DEF GetsOn, SameProgram, AtWorkOn
<1>7. ASSUME NEW p \in Prerequisite!Pairs, Prerequisite!DeletesDone(r, p) PROVE G
  <2>1. /\ prerequisitesPc[r] = "deleting" /\ prerequisitesPc'[r] \in {"adding"}
        /\ UNCHANGED <<programsLeft, prerequisitesLeft>>
    BY <1>7, <1>t DEF Prerequisite!DeletesDone, Prerequisite!Goes, RunTypes
  <2> QED
    BY <2>1, StageDrops DEF GetsOn, SameProgram, AtWorkOn
<1>8. ASSUME NEW p \in Prerequisite!Pairs, Prerequisite!CallFails(r, p) PROVE G
  BY <1>8, <1>t DEF Prerequisite!CallFails, Prerequisite!InProgram, RunTypes, GetsOn, AtWorkOn
<1>9. ASSUME NEW p \in Prerequisite!Pairs, NEW c \in Prerequisite!AllCourses,
             Prerequisite!DeletePrerequisite(r, p, c)
      PROVE  G
  <2>1. /\ prerequisitesPc[r] = "deleting"
           /\ UNCHANGED <<prerequisitesPc, programsLeft, prerequisitesLeft>>
        /\ c \in toDelete[r] /\ toDelete'[r] = toDelete[r] \ {c}
    BY <1>9, <1>t DEF Prerequisite!DeletePrerequisite, RunTypes
  <2> QED
    BY <2>1 DEF GetsOn, SameStage, SameProgram, AtWorkOn, Removes
<1>10. ASSUME NEW p \in Prerequisite!Pairs, NEW c \in Prerequisite!AllCourses,
              Prerequisite!LookForPrerequisite(r, p, c)
      PROVE  G
  <2>1. /\ prerequisitesPc[r] = "adding" /\ prerequisitesPc'[r] \in {"adding", "creating"}
        /\ UNCHANGED <<programsLeft, prerequisitesLeft, toDelete>>
        /\ c \in toAdd[r] /\ toAdd'[r] = toAdd[r] \ {c}
    BY <1>10, <1>t DEF Prerequisite!LookForPrerequisite, RunTypes
  <2>2. StageOf(prerequisitesPc'[r]) = StageOf(prerequisitesPc[r])
    BY <2>1, StageDrops
  <2> QED
    BY <2>1, <2>2 DEF GetsOn, SameStage, SameProgram, AtWorkOn, Removes
<1>11. ASSUME NEW p \in Prerequisite!Pairs, NEW c \in Prerequisite!AllCourses,
              Prerequisite!CreatePrerequisite(r, p, c)
      PROVE  G
  <2>1. /\ prerequisitesPc[r] = "creating" /\ prerequisitesPc'[r] = "adding"
        /\ UNCHANGED <<programsLeft, prerequisitesLeft, toDelete, toAdd>>
        /\ c \in adding[r] /\ adding'[r] = {}
    BY <1>11, <1>t DEF Prerequisite!CreatePrerequisite, Prerequisite!Goes, RunTypes
  <2>2. StageOf(prerequisitesPc'[r]) = StageOf(prerequisitesPc[r])
    BY <2>1, StageDrops
  <2> QED
    BY <2>1, <2>2 DEF GetsOn, SameStage, SameProgram, AtWorkOn, Removes
<1>12. ASSUME NEW p \in Prerequisite!Pairs, NEW c \in Prerequisite!AllCourses,
              Prerequisite!CreateRefused(r, p, c)
      PROVE  G
  BY <1>12, <1>t DEF Prerequisite!CreateRefused, Prerequisite!Goes, RunTypes, GetsOn, AtWorkOn
<1>13. CASE Prerequisite!AddsDone(r)
  <2>1. /\ prerequisitesPc[r] = "adding" /\ prerequisitesPc'[r] \in {"next course"}
        /\ UNCHANGED <<programsLeft, prerequisitesLeft>>
    BY <1>13, <1>t DEF Prerequisite!AddsDone, Prerequisite!Goes, RunTypes
  <2> QED
    BY <2>1, StageDrops DEF GetsOn, SameProgram, AtWorkOn
<1>14. CASE Prerequisite!ProgramDone(r)
  BY <1>14, <1>t DEF Prerequisite!ProgramDone, Prerequisite!Goes, RunTypes, GetsOn, AtWorkOn
<1>15. CASE Prerequisite!JobDone(r)
  BY <1>15, <1>t DEF Prerequisite!JobDone, Prerequisite!Goes, RunTypes, GetsOn
<1>h. ASSUME NEW g \in Programs, Prerequisite!PdfHangs(r, g) PROVE G
  BY <1>h, <1>t DEF Prerequisite!PdfHangs, Prerequisite!Goes, RunTypes, GetsOn
<1> QED
  BY <1>2, <1>3, <1>4, <1>5, <1>6, <1>7, <1>8, <1>9, <1>10, <1>11, <1>12, <1>13, <1>14, <1>15, <1>h
  DEF Prerequisite!Step, Prerequisite!CourseStep

LEMMA GoingDrops ==
  /\ \A phase \in {"hung", "done"} : Going(phase) < Going("next program")
  /\ \A phase \in {"next program", "next course"} : Going(phase) = Going("next program")
  /\ \A phase \in AtWorkOn : Going("next program") = Going(phase)
     /\ Inside("next program") < Inside(phase)
  /\ \A here, there \in AtWorkOn : Going(here) = Going(there) /\ Inside(here) = Inside(there)
BY DEF Going, Inside, AtWorkOn

LEMMA PrerequisitesRunOut ==
  ASSUME Prerequisite!TypeOK, NEW r \in Runs, Prerequisite!Step(r)
  PROVE  Prerequisite!Before(Prerequisite!Rank(r)', Prerequisite!Rank(r))
<1> DEFINE a1 == Going(prerequisitesPc'[r])         b1 == Going(prerequisitesPc[r])
           a2 == Cardinality(programsLeft'[r])      b2 == Cardinality(programsLeft[r])
           a3 == Inside(prerequisitesPc'[r])        b3 == Inside(prerequisitesPc[r])
           a4 == Cardinality(prerequisitesLeft'[r]) b4 == Cardinality(prerequisitesLeft[r])
           a5 == StageOf(prerequisitesPc'[r])       b5 == StageOf(prerequisitesPc[r])
           a6 == Cardinality(toDelete'[r])          b6 == Cardinality(toDelete[r])
           a7 == Cardinality(toAdd'[r])             b7 == Cardinality(toAdd[r])
           a8 == Cardinality(adding'[r])            b8 == Cardinality(adding[r])
           Lower ==
             \/ a1 < b1
             \/ a1 = b1 /\ a2 < b2
             \/ a1 = b1 /\ a2 = b2 /\ a3 < b3
             \/ a1 = b1 /\ a2 = b2 /\ a3 = b3 /\ a4 < b4
             \/ a1 = b1 /\ a2 = b2 /\ a3 = b3 /\ a4 = b4 /\ a5 < b5
             \/ a1 = b1 /\ a2 = b2 /\ a3 = b3 /\ a4 = b4 /\ a5 = b5 /\ a6 < b6
             \/ a1 = b1 /\ a2 = b2 /\ a3 = b3 /\ a4 = b4 /\ a5 = b5 /\ a6 = b6 /\ a7 < b7
             \/ a1 = b1 /\ a2 = b2 /\ a3 = b3 /\ a4 = b4 /\ a5 = b5 /\ a6 = b6 /\ a7 = b7 /\ a8 < b8
<1> SUFFICES Lower
  <2>1. /\ Prerequisite!Rank(r)' = <<a1, a2, a3, a4, a5, a6, a7, a8>>
        /\ Prerequisite!Rank(r) = <<b1, b2, b3, b4, b5, b6, b7, b8>>
    BY PrerequisitesRank
  <2> HIDE DEF a1, a2, a3, a4, a5, a6, a7, a8, b1, b2, b3, b4, b5, b6, b7, b8
  <2>2. Less(<<a1, a2, a3, a4, a5, a6, a7, a8>>, <<b1, b2, b3, b4, b5, b6, b7, b8>>)
    BY Lexical8
  <2>3. Less(Prerequisite!Rank(r)', Prerequisite!Rank(r))
    BY <2>1, <2>2
  <2> QED
    BY <2>3 DEF Less, Prerequisite!Before
<1>t. RunTypes
  BY DEF Prerequisite!TypeOK, RunTypes
<1>g. GetsOn(r)
  BY EachGetsOn
<1>s. /\ IsFiniteSet(programsLeft[r]) /\ IsFiniteSet(prerequisitesLeft[r])
      /\ IsFiniteSet(toDelete[r]) /\ IsFiniteSet(toAdd[r]) /\ IsFiniteSet(adding[r])
  BY <1>t, FinitePairs, FiniteAssumption, FS_Subset DEF RunTypes
<1>r. ASSUME NEW S, IsFiniteSet(S), NEW T, Removes(S, T) PROVE Cardinality(T) < Cardinality(S)
  BY <1>r, SmallerSet DEF Removes
<1>1. SameProgram(r) => a1 = b1 /\ a2 = b2 /\ a3 = b3
  BY GoingDrops DEF SameProgram
<1>2. SameStage(r) => a1 = b1 /\ a2 = b2 /\ a3 = b3 /\ a4 = b4 /\ a5 = b5
  BY <1>1 DEF SameStage
<1>3. CASE prerequisitesPc[r] = "next program" /\ prerequisitesPc'[r] \in {"hung", "done"}
  <2>1. a1 < b1
    BY <1>3, GoingDrops
  <2> QED
    BY <2>1
<1>4. CASE /\ Removes(programsLeft[r], programsLeft'[r])
           /\ prerequisitesPc[r] = "next program"
              /\ prerequisitesPc'[r] \in {"next program", "next course"}
  <2>1. a1 = b1
    BY <1>4, GoingDrops
  <2>2. a2 < b2
    BY <1>4, <1>r, <1>s
  <2> QED
    BY <2>1, <2>2
<1>5. CASE /\ programsLeft'[r] = programsLeft[r]
           /\ prerequisitesPc[r] \in AtWorkOn /\ prerequisitesPc'[r] = "next program"
  <2>1. a1 = b1 /\ a3 < b3
    BY <1>5, GoingDrops
  <2>2. a2 = b2
    BY <1>5
  <2> QED
    BY <2>1, <2>2
<1>6. CASE SameProgram(r) /\ Removes(prerequisitesLeft[r], prerequisitesLeft'[r])
  <2>1. a4 < b4
    BY <1>6, <1>r, <1>s
  <2> QED
    BY <1>1, <1>6, <2>1
<1>7. CASE /\ SameProgram(r) /\ prerequisitesLeft'[r] = prerequisitesLeft[r]
           /\ StageOf(prerequisitesPc'[r]) < StageOf(prerequisitesPc[r])
  <2>1. a4 = b4 /\ a5 < b5
    BY <1>7
  <2> QED
    BY <1>1, <1>7, <2>1
<1>8. CASE SameStage(r) /\ Removes(toDelete[r], toDelete'[r])
  <2>1. a6 < b6
    BY <1>8, <1>r, <1>s
  <2> QED
    BY <1>2, <1>8, <2>1
<1>9. CASE SameStage(r) /\ toDelete'[r] = toDelete[r] /\ Removes(toAdd[r], toAdd'[r])
  <2>1. a6 = b6
    BY <1>9
  <2>2. a7 < b7
    BY <1>9, <1>r, <1>s
  <2> QED
    BY <1>2, <1>9, <2>1, <2>2
<1>10. CASE /\ SameStage(r) /\ toDelete'[r] = toDelete[r] /\ toAdd'[r] = toAdd[r]
            /\ Removes(adding[r], adding'[r])
  <2>1. a6 = b6 /\ a7 = b7
    BY <1>10
  <2>2. a8 < b8
    BY <1>10, <1>r, <1>s
  <2> QED
    BY <1>2, <1>10, <2>1, <2>2
<1> QED
  BY <1>g, <1>3, <1>4, <1>5, <1>6, <1>7, <1>8, <1>9, <1>10 DEF GetsOn

(* Every step of a run of any of the jobs brings it closer to its end, so  *)
(* that a run ends however the others' writes change what it finds.        *)
THEOREM RunsOut == Spec => StepsRunOut
<1>1. TypeOK /\ [Next]_vars =>
        /\ [\A r \in Runs : Descriptions!Step(r) =>
              Descriptions!Before(Descriptions!Rank(r)', Descriptions!Rank(r))]_(Descriptions!vars)
        /\ [\A r \in Runs : ProgramTable!Step(r) =>
              ProgramTable!Before(ProgramTable!Rank(r)', ProgramTable!Rank(r))]_(ProgramTable!vars)
        /\ [\A r \in Runs : Cheminot!Step(r) =>
              Cheminot!Before(Cheminot!Rank(r)', Cheminot!Rank(r))]_(Cheminot!vars)
        /\ [\A r \in Runs : Prerequisite!Step(r) =>
              Prerequisite!Before(Prerequisite!Rank(r)', Prerequisite!Rank(r))]_(Prerequisite!vars)
  BY DescriptionsRunOut, ProgramsRunOut, CheminotRunsOut, PrerequisitesRunOut DEF TypeOK
<1> QED
  BY <1>1, TypeCorrect, PTL
  DEF Spec, StepsRunOut, Descriptions!StepsRunOut, ProgramTable!StepsRunOut, Cheminot!StepsRunOut,
      Prerequisite!StepsRunOut
==============================================================================
