---------------------- MODULE CourseInstancesSyncProofs ----------------------
(***************************************************************************)
(* Theorems about CourseInstancesSync, for any number of runs, programs,   *)
(* pairs and availabilities.                                               *)
(*                                                                         *)
(* The argument: what a run requires of a pair is what its PDFs list.  As  *)
(* long as no run that disagrees works beside it, the table changes under  *)
(* it only towards what it requires itself.                                *)
(***************************************************************************)
EXTENDS CourseInstancesSync, TLAPS

(* What is required of a pair is listed by a PDF the run could read. *)
ReadOK(r) ==
  \A k \in Keys : \/ required[r][k] \in Listed(r, k)
                  \/ required[r][k] = Absent /\ Listed(r, k) = {}

(* A required pair is either ahead of the loop or marked as processed. *)
LoopOK(r) ==
  phase[r] = "syncing" => \A k \in Keys :
    /\ k \in left[r] => required[r][k] # Absent
    /\ required[r][k] # Absent /\ k \notin left[r] => existing[r][k] = Absent

(* Alone, a run finds the table as its snapshot says. *)
SoloOK(r) ==
  phase[r] = "syncing" /\ overlap[r] = {} => \A k \in Keys :
    /\ existing[r][k] # Absent => table[k] = existing[r][k]
    /\ existing[r][k] = Absent /\ k \in left[r] => table[k] = Absent

(* Undisturbed, a run leaves each processed pair as the PDFs have it. *)
SyncOK(r) ==
  phase[r] = "syncing" /\ Undisturbed(r) => \A k \in Keys :
    /\ required[r][k] # Absent /\ (k \in left[r] => existing[r][k] = required[r][k])
         => table[k] = required[r][k]
    /\ required[r][k] = Absent /\ existing[r][k] = Absent => table[k] = Absent

RunOK(r) ==
  /\ ReadOK(r)
  /\ LoopOK(r)
  /\ SoloOK(r)
  /\ SyncOK(r)
  /\ phase[r] = "aborted" => overlap[r] # {}

(* Two runs under way know of each other, and a run knows of no run that   *)
(* has not begun.                                                          *)
OverlapOK ==
  /\ \A r, s \in Runs : r # s /\ Active(r) /\ Active(s) => s \in overlap[r]
  /\ \A r \in Runs : \A s \in overlap[r] : phase[s] # "idle"

(* The inductive invariant. *)
IInv ==
  /\ TypeOK
  /\ OverlapOK
  /\ \A r \in Runs : RunOK(r)

USE KeysAssumption, MaxChangesAssumption, ValuesAssumption, ParsedAssumption

Phases == {"idle", "reading", "syncing", "done", "aborted", "dead"}

----------------------------------------------------------------------------
LEMMA TypeInit == Init => TypeOK
BY DEF Init, TypeOK, Row

(* The writes keep the table a table. *)
LEMMA TypeStep == TypeOK /\ [Next]_vars => TypeOK'
<1> SUFFICES ASSUME TypeOK, [Next]_vars PROVE TypeOK'
  OBVIOUS
<1> USE DEF TypeOK
<1>1. ASSUME NEW p \in Programs, Publish(p) PROVE TypeOK'
  BY <1>1 DEF Publish, run
<1>2. ASSUME NEW r \in Runs, Begin(r) PROVE TypeOK'
  <2>1. phase' \in [Runs -> Phases]
    BY <1>2 DEF Begin, Phases
  <2>2. overlap' \in [Runs -> SUBSET Runs]
    BY <1>2 DEF Begin
  <2>3. UNCHANGED <<table, published, changes, parsed, required, left, existing>>
    BY <1>2 DEF Begin
  <2> QED
    BY <2>1, <2>2, <2>3 DEF Phases
<1>3. ASSUME NEW r \in Runs, NEW p \in Programs, ParseProgram(r, p) PROVE TypeOK'
  <2>1. Overridden(r, published[p]) \in [Keys -> Row]
    BY DEF Overridden, Row
  <2>2. parsed' \in [Runs -> [Programs -> Publication \cup {Unread, Failed, Pending}]]
    BY <1>3 DEF ParseProgram
  <2>3. required' \in [Runs -> [Keys -> Row]]
    BY <1>3, <2>1 DEF ParseProgram
  <2>4. UNCHANGED <<table, published, changes, phase, left, existing, overlap>>
    BY <1>3 DEF ParseProgram
  <2> QED
    BY <2>2, <2>3, <2>4
<1>4. ASSUME NEW r \in Runs, NEW p \in Programs, NEW outcome \in {Failed, Pending},
             YieldsNothing(r, p, outcome)
      PROVE  TypeOK'
  <2>1. parsed' \in [Runs -> [Programs -> Publication \cup {Unread, Failed, Pending}]]
    BY <1>4 DEF YieldsNothing
  <2>2. UNCHANGED <<table, published, changes, phase, required, left, existing, overlap>>
    BY <1>4 DEF YieldsNothing
  <2> QED
    BY <2>1, <2>2
<1>5. ASSUME NEW r \in Runs, FetchExistingInstances(r) PROVE TypeOK'
  BY <1>5 DEF FetchExistingInstances
<1>6. ASSUME NEW r \in Runs, NEW k \in Keys, KeepInstance(r, k) PROVE TypeOK'
  BY <1>6 DEF KeepInstance, NextRequired, MarkProcessed, Row
<1>7. ASSUME NEW r \in Runs, NEW k \in Keys, UpdateInstance(r, k) PROVE TypeOK'
  BY <1>7 DEF UpdateInstance, NextRequired, MarkProcessed, Write, Row
<1>8. ASSUME NEW r \in Runs, NEW k \in Keys, CreateInstance(r, k) PROVE TypeOK'
  BY <1>8 DEF CreateInstance, NextRequired, Write, Row
<1>9. ASSUME NEW r \in Runs, NEW k \in Keys, DeleteInstance(r, k) PROVE TypeOK'
  BY <1>9 DEF DeleteInstance, MarkProcessed, Write, Row
<1>10. ASSUME NEW r \in Runs, NEW how \in Phases, Stop(r, how) PROVE TypeOK'
  BY <1>10 DEF Stop, Phases
<1>11. ASSUME NEW r \in Runs, Abort(r) \/ Finish(r) \/ ThreadDies(r) PROVE TypeOK'
  BY <1>10, <1>11 DEF Abort, Finish, ThreadDies, Phases
<1>12. CASE UNCHANGED vars
  BY <1>12 DEF vars, run
<1> QED
  BY <1>1, <1>2, <1>3, <1>4, <1>5, <1>6, <1>7, <1>8, <1>9, <1>11, <1>12
     DEF Next, Step, ParseFails, ParseHangs

(* Every variable keeps its type.                                          *)
THEOREM TypeCorrect == Spec => []TypeOK
<1>1. Init => TypeOK
  BY TypeInit
<1>2. TypeOK /\ [Next]_vars => TypeOK'
  BY TypeStep
<1> QED
  BY <1>1, <1>2, PTL DEF Spec

----------------------------------------------------------------------------
LEMMA IInvInit == Init => IInv
<1> SUFFICES ASSUME Init PROVE IInv
  OBVIOUS
<1>1. TypeOK
  BY TypeInit
<1>2. OverlapOK
  BY DEF Init, OverlapOK, Active
<1>3. ASSUME NEW r \in Runs PROVE RunOK(r)
  <2>1. phase[r] = "idle" /\ \A p \in Programs : parsed[r][p] = Unread
    BY DEF Init
  <2>2. ReadOK(r)
    BY <2>1 DEF Init, ReadOK, Listed
  <2> QED
    BY <2>1, <2>2 DEF RunOK, LoopOK, SoloOK, SyncOK
<1> QED
  BY <1>1, <1>2, <1>3 DEF IInv

(* What a run has read does not change once it has read it. *)
LEMMA ListedStays ==
  ASSUME NEW r, parsed'[r] = parsed[r]
  PROVE  \A k \in Keys : Listed(r, k)' = Listed(r, k)
BY DEF Listed

LEMMA ListedAvails ==
  ASSUME NEW r, NEW k \in Keys
  PROVE  Listed(r, k) \subseteq Avails /\ Absent \notin Listed(r, k)
BY DEF Listed

(* A run that is undisturbed after a step was so before it. *)
StaysRead(r) ==
  \A s \in overlap[r] : phase[s] # "reading" =>
    phase'[s] # "reading" /\ parsed'[s] = parsed[s]
LEMMA UndisturbedBefore ==
  ASSUME NEW r, parsed'[r] = parsed[r], overlap[r] \subseteq overlap'[r], StaysRead(r),
         Undisturbed(r)'
  PROVE  Undisturbed(r)
<1> SUFFICES ASSUME NEW s \in overlap[r], phase[s] # "reading" PROVE Agree(r, s)
  BY DEF Undisturbed
<1>1. phase'[s] # "reading" /\ parsed'[s] = parsed[s]
  BY DEF StaysRead
<1>2. Agree(r, s)'
  BY <1>1 DEF Undisturbed
<1>3. \A k \in Keys : Listed(r, k)' = Listed(r, k) /\ Listed(s, k)' = Listed(s, k)
  BY <1>1, ListedStays
<1> QED
  BY <1>2, <1>3 DEF Agree

(* A step that leaves a run and the table alone. *)
LEMMA LeftAlone ==
  ASSUME NEW r, RunOK(r), table' = table,
         phase'[r] = phase[r], parsed'[r] = parsed[r], required'[r] = required[r],
         left'[r] = left[r], existing'[r] = existing[r], overlap[r] \subseteq overlap'[r],
         StaysRead(r)
  PROVE  RunOK(r)'
<1>1. \A k \in Keys : Listed(r, k)' = Listed(r, k)
  BY ListedStays
<1>2. ReadOK(r)'
  BY <1>1 DEF RunOK, ReadOK
<1>3. LoopOK(r)'
  BY DEF RunOK, LoopOK
<1>4. SoloOK(r)'
  <2>1. overlap'[r] = {} => overlap[r] = {}
    OBVIOUS
  <2> QED
    BY <2>1 DEF RunOK, SoloOK
<1>5. SyncOK(r)'
  <2>1. Undisturbed(r)' => Undisturbed(r)
    BY UndisturbedBefore
  <2> QED
    BY <2>1 DEF RunOK, SyncOK
<1>6. phase'[r] = "aborted" => overlap'[r] # {}
  BY DEF RunOK
<1> QED
  BY <1>2, <1>3, <1>4, <1>5, <1>6 DEF RunOK

(* A write of another run: it was under way, so the run is not alone; and  *)
(* if the two agree, the write is what the run itself requires.            *)
LEMMA OtherWrites ==
  ASSUME IInv, NEW q \in Runs, NEW r \in Runs, q # r, NEW k \in Keys, NEW row,
         phase[q] = "syncing", Write(k, row), row = required[q][k],
         UNCHANGED <<phase, parsed, required, overlap>>,
         left'[r] = left[r], existing'[r] = existing[r]
  PROVE  RunOK(r)'
<1> USE DEF IInv
<1>1. \A s \in Runs, x \in Keys : Listed(s, x)' = Listed(s, x)
  BY ListedStays
<1>2. ReadOK(r)' /\ LoopOK(r)' /\ (phase'[r] = "aborted" => overlap'[r] # {})
  BY <1>1 DEF RunOK, ReadOK, LoopOK
<1>3. phase[r] = "syncing" => q \in overlap[r]
  BY DEF OverlapOK, Active
<1>4. SoloOK(r)'
  BY <1>3 DEF SoloOK
<1>5. table'[k] = row /\ \A x \in Keys \ {k} : table'[x] = table[x]
  BY DEF Write, TypeOK
<1>6. SyncOK(r)'
  <2> SUFFICES ASSUME phase[r] = "syncing", Undisturbed(r)',
                      NEW x \in Keys
               PROVE  /\ required[r][x] # Absent /\ (x \in left[r] => existing[r][x] = required[r][x])
                           => table'[x] = required[r][x]
                      /\ required[r][x] = Absent /\ existing[r][x] = Absent => table'[x] = Absent
    BY DEF SyncOK
  <2>1. Undisturbed(r)
    BY UndisturbedBefore DEF StaysRead
  <2>2. CASE x # k
    BY <1>5, <2>1, <2>2 DEF RunOK, SyncOK
  <2>3. CASE x = k
    <3>1. Agree(r, q)
      BY <1>3, <2>1 DEF Undisturbed
    <3>2. /\ required[q][k] \in Listed(q, k) \/ (required[q][k] = Absent /\ Listed(q, k) = {})
          /\ required[r][k] \in Listed(r, k) \/ (required[r][k] = Absent /\ Listed(r, k) = {})
      <4>1. ReadOK(q) /\ ReadOK(r)
        BY DEF RunOK
      <4> QED
        BY <4>1 DEF ReadOK
    <3>3. required[q][k] = required[r][k]
      BY <3>1, <3>2 DEF Agree
    <3> QED
      BY <1>5, <2>3, <3>3
  <2> QED
    BY <2>2, <2>3
<1> QED
  BY <1>2, <1>4, <1>6 DEF RunOK

(* A write of the run itself, for a pair ahead of its loop or an obsolete  *)
(* one: the pair now is as required, and is marked as processed.           *)
LEMMA OwnWrite ==
  ASSUME IInv, NEW r \in Runs, NEW k \in Keys, NEW row,
         phase[r] = "syncing", Write(k, row), row = required[r][k],
         UNCHANGED <<phase, parsed, required, overlap>>,
         left'[r] = left[r] \ {k},
         existing'[r][k] = Absent, \A x \in Keys \ {k} : existing'[r][x] = existing[r][x]
  PROVE  RunOK(r)'
<1> USE DEF IInv
<1>1. \A s \in Runs, x \in Keys : Listed(s, x)' = Listed(s, x)
  BY ListedStays
<1>2. ReadOK(r)' /\ (phase'[r] = "aborted" => overlap'[r] # {})
  BY <1>1 DEF RunOK, ReadOK
<1>3. table'[k] = row /\ \A x \in Keys \ {k} : table'[x] = table[x]
  BY DEF Write, TypeOK
<1>4. LoopOK(r)'
  BY DEF RunOK, LoopOK
<1>5. SoloOK(r)'
  BY <1>3 DEF RunOK, SoloOK
<1>6. SyncOK(r)'
  <2>1. Undisturbed(r)' => Undisturbed(r)
    BY UndisturbedBefore DEF StaysRead
  <2> QED
    BY <1>3, <2>1 DEF RunOK, SyncOK
<1> QED
  BY <1>2, <1>4, <1>5, <1>6 DEF RunOK

----------------------------------------------------------------------------
(* The steps. *)
LEMMA PublishKeeps ==
  ASSUME IInv, TypeOK', NEW p \in Programs, Publish(p)
  PROVE  IInv'
<1>1. UNCHANGED <<table, phase, parsed, required, left, existing, overlap>>
  BY DEF Publish, run
<1>2. ASSUME NEW r \in Runs PROVE RunOK(r)'
  BY <1>1, LeftAlone DEF IInv, StaysRead
<1>3. OverlapOK'
  BY <1>1 DEF IInv, OverlapOK, Active
<1> QED
  BY <1>2, <1>3 DEF IInv

LEMMA BeginKeeps ==
  ASSUME IInv, TypeOK', NEW q \in Runs, Begin(q)
  PROVE  IInv'
<1> USE DEF IInv
<1>1. /\ phase[q] = "idle" /\ phase'[q] = "reading"
      /\ \A s \in Runs \ {q} : phase'[s] = phase[s]
      /\ UNCHANGED <<table, parsed, required, left, existing>>
  BY DEF Begin, TypeOK
<1>2. /\ overlap'[q] = {s \in Runs : Active(s)}
      /\ \A s \in Runs \ {q} : overlap'[s] = IF Active(s) THEN overlap[s] \cup {q} ELSE overlap[s]
  BY DEF Begin
<1>3. OverlapOK'
  <2>1. ~Active(q) /\ \A s \in Runs \ {q} : Active(s)' <=> Active(s)
    BY <1>1 DEF Active
  <2>2. ASSUME NEW r \in Runs, NEW s \in Runs, r # s, Active(r)', Active(s)'
        PROVE  s \in overlap'[r]
    <3>1. CASE r = q
      BY <1>2, <2>1, <2>2, <3>1
    <3>2. CASE s = q
      BY <1>2, <2>1, <2>2, <3>2
    <3>3. CASE r # q /\ s # q
      BY <1>2, <2>1, <2>2, <3>3 DEF OverlapOK
    <3> QED
      BY <3>1, <3>2, <3>3
  <2>3. ASSUME NEW r \in Runs, NEW s \in overlap'[r] PROVE phase'[s] # "idle"
    <3>1. CASE s = q
      BY <1>1, <3>1
    <3>2. CASE s # q /\ r = q
      BY <1>1, <1>2, <2>3, <3>2 DEF Active
    <3>3. CASE s # q /\ r # q
      <4>1. s \in overlap[r] /\ s \in Runs
        BY <1>2, <2>3, <3>3 DEF TypeOK
      <4> QED
        BY <1>1, <3>3, <4>1 DEF OverlapOK
    <3> QED
      BY <3>1, <3>2, <3>3
  <2> QED
    BY <2>2, <2>3 DEF OverlapOK
<1>4. RunOK(q)'
  <2>1. ReadOK(q)
    BY DEF RunOK
  <2>2. ReadOK(q)'
    BY <1>1, <2>1, ListedStays DEF ReadOK
  <2> QED
    BY <1>1, <2>2 DEF RunOK, LoopOK, SoloOK, SyncOK
<1>5. ASSUME NEW r \in Runs \ {q} PROVE RunOK(r)'
  <2>1. overlap[r] \subseteq overlap'[r]
    BY <1>2
  <2>2. StaysRead(r)
    <3>1. \A s \in overlap[r] : s \in Runs /\ s # q
      BY <1>1 DEF OverlapOK, TypeOK
    <3> QED
      BY <1>1, <3>1 DEF StaysRead
  <2> QED
    BY <1>1, <2>1, <2>2, LeftAlone
<1> QED
  BY <1>3, <1>4, <1>5

(* Reading a PDF adds what it lists to what is required, and changes       *)
(* nothing for the others, to whom a run that reads is of no concern yet.  *)
LEMMA ReadsPdf ==
  ASSUME IInv, TypeOK', NEW q \in Runs, phase[q] = "reading",
         UNCHANGED <<table, phase, left, existing, overlap>>,
         \A s \in Runs \ {q} : parsed'[s] = parsed[s] /\ required'[s] = required[s],
         ReadOK(q)'
  PROVE  IInv'
<1> USE DEF IInv
<1>1. OverlapOK'
  BY DEF OverlapOK, Active
<1>2. RunOK(q)'
  BY DEF RunOK, LoopOK, SoloOK, SyncOK
<1>3. ASSUME NEW r \in Runs \ {q} PROVE RunOK(r)'
  <2>1. StaysRead(r)
    <3>1. \A s \in overlap[r] : s \in Runs
      BY DEF TypeOK
    <3> QED
      BY <3>1 DEF StaysRead
  <2> QED
    BY <2>1, LeftAlone
<1> QED
  BY <1>1, <1>2, <1>3

LEMMA ParseProgramKeeps ==
  ASSUME IInv, TypeOK', NEW q \in Runs, NEW p \in Programs, ParseProgram(q, p)
  PROVE  IInv'
<1> USE DEF IInv
<1>1. /\ phase[q] = "reading" /\ parsed[q][p] = Unread
      /\ UNCHANGED <<table, phase, left, existing, overlap>>
      /\ \A s \in Runs \ {q} : parsed'[s] = parsed[s] /\ required'[s] = required[s]
  BY DEF ParseProgram, Reads, TypeOK
<1>2. /\ required'[q] = Overridden(q, published[p])
      /\ parsed'[q][p] = published[p]
      /\ \A x \in Programs \ {p} : parsed'[q][x] = parsed[q][x]
      /\ published[p] \in Publication
  BY DEF ParseProgram, Reads, TypeOK
<1>3. ASSUME NEW k \in Keys
      PROVE  \/ required'[q][k] \in Listed(q, k)'
             \/ required'[q][k] = Absent /\ Listed(q, k)' = {}
  <2>1. ReadOK(q)
    BY DEF RunOK
  <2>2. CASE k \in KnownKeys /\ published[p][k] \in Avails
    <3>1. required'[q][k] = published[p][k]
      BY <1>2, <2>2 DEF Overridden
    <3>2. published[p][k] \in Listed(q, k)'
      BY <1>2, <2>2 DEF Listed
    <3> QED
      BY <3>1, <3>2
  <2>3. CASE ~(k \in KnownKeys /\ published[p][k] \in Avails)
    <3>1. required'[q][k] = required[q][k]
      BY <1>2, <2>3 DEF Overridden
    <3>2. Listed(q, k)' = Listed(q, k)
      <4>1. CASE k \notin KnownKeys
        BY <4>1 DEF Listed
      <4>2. CASE k \in KnownKeys /\ published[p][k] \notin Avails
        <5>1. ASSUME NEW v \in Avails
              PROVE  v \in Listed(q, k)' <=> v \in Listed(q, k)
          <6>1. v \in Listed(q, k)' <=>
                  \E x \in Programs : parsed'[q][x] \in Publication /\ v = parsed'[q][x][k]
            BY <4>2 DEF Listed
          <6>2. v \in Listed(q, k) <=>
                  \E x \in Programs : parsed[q][x] \in Publication /\ v = parsed[q][x][k]
            BY <4>2 DEF Listed
          <6>3. \A x \in Programs :
                  parsed'[q][x] \in Publication /\ v = parsed'[q][x][k]
                    <=> parsed[q][x] \in Publication /\ v = parsed[q][x][k]
            BY <1>1, <1>2, <4>2
          <6> QED
            BY <6>1, <6>2, <6>3
        <5>2. Listed(q, k)' \subseteq Avails /\ Listed(q, k) \subseteq Avails
          BY DEF Listed
        <5> QED
          BY <5>1, <5>2
      <4> QED
        BY <2>3, <4>1, <4>2
    <3> QED
      BY <2>1, <3>1, <3>2 DEF ReadOK
  <2> QED
    BY <2>2, <2>3
<1> QED
  BY <1>1, <1>3, ReadsPdf DEF ReadOK

(* A PDF that yields nothing adds nothing to what is required.             *)
LEMMA YieldsNothingKeeps ==
  ASSUME IInv, TypeOK', NEW q \in Runs, NEW p \in Programs,
         NEW outcome \in {Failed, Pending}, YieldsNothing(q, p, outcome)
  PROVE  IInv'
<1> USE DEF IInv
<1>1. /\ phase[q] = "reading" /\ parsed[q][p] = Unread
      /\ UNCHANGED <<table, phase, required, left, existing, overlap>>
      /\ \A s \in Runs \ {q} : parsed'[s] = parsed[s]
  BY DEF YieldsNothing, Reads, TypeOK
<1>2. /\ parsed'[q][p] = outcome
      /\ \A x \in Programs \ {p} : parsed'[q][x] = parsed[q][x]
  BY DEF YieldsNothing, Reads, TypeOK
<1>3. ASSUME NEW k \in Keys PROVE Listed(q, k)' = Listed(q, k)
  <2>1. \A x \in Programs : parsed'[q][x] \in Publication <=> parsed[q][x] \in Publication
    BY <1>1, <1>2
  <2>2. \A x \in Programs : parsed[q][x] \in Publication => parsed'[q][x] = parsed[q][x]
    BY <1>1, <1>2
  <2> QED
    BY <2>1, <2>2 DEF Listed
<1>4. ReadOK(q)'
  BY <1>1, <1>3 DEF RunOK, ReadOK
<1> QED
  BY <1>1, <1>4, ReadsPdf

LEMMA FetchKeeps ==
  ASSUME IInv, TypeOK', NEW q \in Runs, FetchExistingInstances(q)
  PROVE  IInv'
<1> USE DEF IInv
<1>1. /\ phase[q] = "reading" /\ phase'[q] = "syncing"
      /\ \A s \in Runs \ {q} : phase'[s] = phase[s] /\ existing'[s] = existing[s] /\ left'[s] = left[s]
      /\ existing'[q] = table /\ left'[q] = {k \in Keys : required[q][k] # Absent}
      /\ UNCHANGED <<table, parsed, required, overlap>>
  BY DEF FetchExistingInstances, TypeOK
<1>2. OverlapOK'
  BY <1>1 DEF OverlapOK, Active, TypeOK
<1>3. RunOK(q)'
  <2>1. ReadOK(q)'
    BY <1>1, ListedStays DEF RunOK, ReadOK
  <2>2. LoopOK(q)' /\ SoloOK(q)' /\ SyncOK(q)'
    BY <1>1 DEF LoopOK, SoloOK, SyncOK
  <2> QED
    BY <1>1, <2>1, <2>2 DEF RunOK
<1>4. ASSUME NEW r \in Runs \ {q} PROVE RunOK(r)'
  <2>1. StaysRead(r)
    BY <1>1 DEF StaysRead, TypeOK
  <2> QED
    BY <1>1, <2>1, LeftAlone
<1> QED
  BY <1>2, <1>3, <1>4

(* A step of a run's own loop: the others are left alone, or see a write   *)
(* of what this run requires.                                              *)
LEMMA LoopStep ==
  ASSUME IInv, TypeOK', NEW q \in Runs, NEW k \in Keys, NEW row,
         phase[q] = "syncing", UNCHANGED <<phase, parsed, required, overlap>>,
         \A s \in Runs \ {q} : left'[s] = left[s] /\ existing'[s] = existing[s],
         UNCHANGED table \/ (Write(k, row) /\ row = required[q][k]),
         RunOK(q)'
  PROVE  IInv'
<1> USE DEF IInv
<1>1. OverlapOK'
  BY DEF OverlapOK, Active
<1>2. ASSUME NEW r \in Runs \ {q} PROVE RunOK(r)'
  <2>1. CASE UNCHANGED table
    BY <2>1, LeftAlone DEF StaysRead
  <2>2. CASE Write(k, row) /\ row = required[q][k]
    BY <2>2, OtherWrites
  <2> QED
    BY <2>1, <2>2
<1> QED
  BY <1>1, <1>2

LEMMA NextRequiredTakes ==
  ASSUME TypeOK, NEW q \in Runs, NEW k \in Keys, NextRequired(q, k)
  PROVE  /\ phase[q] = "syncing" /\ k \in left[q] /\ left'[q] = left[q] \ {k}
         /\ \A s \in Runs \ {q} : left'[s] = left[s]
         /\ UNCHANGED <<phase, parsed, required, overlap>>
BY DEF NextRequired, TypeOK

LEMMA MarkProcessedMarks ==
  ASSUME TypeOK, NEW q \in Runs, NEW k \in Keys, MarkProcessed(q, k)
  PROVE  /\ existing'[q][k] = Absent
         /\ \A x \in Keys \ {k} : existing'[q][x] = existing[q][x]
         /\ \A s \in Runs \ {q} : existing'[s] = existing[s]
BY DEF MarkProcessed, TypeOK

LEMMA KeepInstanceKeeps ==
  ASSUME IInv, TypeOK', NEW q \in Runs, NEW k \in Keys, KeepInstance(q, k)
  PROVE  IInv'
<1> USE DEF IInv
<1>1. /\ phase[q] = "syncing" /\ k \in left[q] /\ left'[q] = left[q] \ {k}
      /\ \A s \in Runs \ {q} : left'[s] = left[s]
      /\ UNCHANGED <<phase, parsed, required, overlap>>
  BY NextRequiredTakes DEF KeepInstance
<1>2. /\ existing'[q][k] = Absent
      /\ \A x \in Keys \ {k} : existing'[q][x] = existing[q][x]
      /\ \A s \in Runs \ {q} : existing'[s] = existing[s]
  BY MarkProcessedMarks DEF KeepInstance
<1>3. existing[q][k] = required[q][k] /\ UNCHANGED table
  BY DEF KeepInstance
<1>4. RunOK(q)'
  <2>1. ReadOK(q)'
    BY <1>1, ListedStays DEF RunOK, ReadOK
  <2>2. LoopOK(q)'
    BY <1>1, <1>2 DEF RunOK, LoopOK
  <2>3. SoloOK(q)'
    BY <1>1, <1>2, <1>3 DEF RunOK, SoloOK
  <2>4. Undisturbed(q)' => Undisturbed(q)
    BY <1>1, UndisturbedBefore DEF StaysRead
  <2>5. required[q][k] # Absent
    BY <1>1 DEF RunOK, LoopOK
  <2>6. SyncOK(q)'
    BY <1>1, <1>2, <1>3, <2>4, <2>5 DEF RunOK, SyncOK
  <2> QED
    BY <1>1, <2>1, <2>2, <2>3, <2>6 DEF RunOK
<1> QED
  BY <1>1, <1>2, <1>3, <1>4, LoopStep

LEMMA UpdateInstanceKeeps ==
  ASSUME IInv, TypeOK', NEW q \in Runs, NEW k \in Keys, UpdateInstance(q, k)
  PROVE  IInv'
<1> USE DEF IInv
<1>1. /\ phase[q] = "syncing" /\ k \in left[q] /\ left'[q] = left[q] \ {k}
      /\ \A s \in Runs \ {q} : left'[s] = left[s]
      /\ UNCHANGED <<phase, parsed, required, overlap>>
  BY NextRequiredTakes DEF UpdateInstance
<1>2. /\ existing'[q][k] = Absent
      /\ \A x \in Keys \ {k} : existing'[q][x] = existing[q][x]
      /\ \A s \in Runs \ {q} : existing'[s] = existing[s]
  BY MarkProcessedMarks DEF UpdateInstance
<1>3. Write(k, required[q][k])
  BY DEF UpdateInstance
<1>4. RunOK(q)'
  BY <1>1, <1>2, <1>3, OwnWrite
<1> QED
  BY <1>1, <1>2, <1>3, <1>4, LoopStep

LEMMA CreateInstanceKeeps ==
  ASSUME IInv, TypeOK', NEW q \in Runs, NEW k \in Keys, CreateInstance(q, k)
  PROVE  IInv'
<1> USE DEF IInv
<1>1. /\ phase[q] = "syncing" /\ k \in left[q] /\ left'[q] = left[q] \ {k}
      /\ \A s \in Runs \ {q} : left'[s] = left[s]
      /\ UNCHANGED <<phase, parsed, required, overlap>>
  BY NextRequiredTakes DEF CreateInstance
<1>2. existing[q][k] = Absent /\ UNCHANGED existing /\ Write(k, required[q][k])
  BY DEF CreateInstance
<1>3. RunOK(q)'
  BY <1>1, <1>2, OwnWrite
<1> QED
  BY <1>1, <1>2, <1>3, LoopStep

(* What is obsolete when the loop has ended is not required. *)
LEMMA ObsoleteUnlisted ==
  ASSUME IInv, NEW q \in Runs, NEW k \in Keys, Obsolete(q, k)
  PROVE  required[q][k] = Absent /\ Listed(q, k) = {}
<1>1. ReadOK(q) /\ LoopOK(q)
  BY DEF IInv, RunOK
<1>2. required[q][k] = Absent
  BY <1>1 DEF Obsolete, LoopOK
<1> QED
  BY <1>1, <1>2, ListedAvails DEF ReadOK

LEMMA DeleteInstanceKeeps ==
  ASSUME IInv, TypeOK', NEW q \in Runs, NEW k \in Keys, DeleteInstance(q, k)
  PROVE  IInv'
<1> USE DEF IInv
<1>1. /\ phase[q] = "syncing" /\ left[q] = {}
      /\ UNCHANGED <<phase, parsed, required, left, overlap>>
  BY DEF DeleteInstance, Obsolete
<1>2. /\ existing'[q][k] = Absent
      /\ \A x \in Keys \ {k} : existing'[q][x] = existing[q][x]
      /\ \A s \in Runs \ {q} : existing'[s] = existing[s]
  BY MarkProcessedMarks DEF DeleteInstance
<1>3. required[q][k] = Absent
  BY ObsoleteUnlisted DEF DeleteInstance
<1>4. Write(k, required[q][k])
  BY <1>3 DEF DeleteInstance
<1>5. left'[q] = left[q] \ {k}
  BY <1>1
<1>6. RunOK(q)'
  BY <1>1, <1>2, <1>4, <1>5, OwnWrite
<1> QED
  BY <1>1, <1>2, <1>4, <1>6, LoopStep

LEMMA StopKeeps ==
  ASSUME IInv, TypeOK', NEW q \in Runs, NEW how \in {"done", "aborted", "dead"}, Stop(q, how),
         Active(q), how = "aborted" => overlap[q] # {}
  PROVE  IInv'
<1> USE DEF IInv
<1>1. /\ phase'[q] = how /\ \A s \in Runs \ {q} : phase'[s] = phase[s]
      /\ UNCHANGED <<table, parsed, required, left, existing, overlap>>
  BY DEF Stop, TypeOK
<1>2. OverlapOK'
  BY <1>1 DEF OverlapOK, Active, TypeOK
<1>3. RunOK(q)'
  <2>1. ReadOK(q)'
    BY <1>1, ListedStays DEF RunOK, ReadOK
  <2> QED
    BY <1>1, <2>1 DEF RunOK, LoopOK, SoloOK, SyncOK
<1>4. ASSUME NEW r \in Runs \ {q} PROVE RunOK(r)'
  <2>1. StaysRead(r)
    BY <1>1 DEF StaysRead, TypeOK
  <2> QED
    BY <1>1, <2>1, LeftAlone
<1> QED
  BY <1>2, <1>3, <1>4

(* A run that is alone has nothing to trip over. *)
LEMMA AbortKeeps ==
  ASSUME IInv, TypeOK', NEW q \in Runs, Abort(q)
  PROVE  IInv'
<1>1. phase[q] = "syncing" /\ Stop(q, "aborted")
  BY DEF Abort
<1>2. PICK k \in Keys : CallThrows(q, k)
  BY DEF Abort
<1>3. overlap[q] # {}
  <2> SUFFICES ASSUME overlap[q] = {} PROVE FALSE
    OBVIOUS
  <2>1. SoloOK(q) /\ LoopOK(q)
    BY DEF IInv, RunOK
  <2>2. /\ existing[q][k] # Absent => table[k] = existing[q][k]
        /\ existing[q][k] = Absent /\ k \in left[q] => table[k] = Absent
    BY <1>1, <2>1 DEF SoloOK
  <2> QED
    BY <1>2, <2>2 DEF CallThrows, Obsolete
<1> QED
  BY <1>1, <1>3, StopKeeps DEF Active

LEMMA IInvStep == IInv /\ [Next]_vars => IInv'
<1> SUFFICES ASSUME IInv, [Next]_vars PROVE IInv'
  OBVIOUS
<1>1. TypeOK'
  BY TypeStep DEF IInv
<1>2. ASSUME NEW p \in Programs, Publish(p) PROVE IInv'
  BY <1>1, <1>2, PublishKeeps
<1>3. ASSUME NEW q \in Runs, Step(q) PROVE IInv'
  <2>1. CASE Begin(q)
    BY <1>1, <2>1, BeginKeeps
  <2>2. ASSUME NEW p \in Programs, ParseProgram(q, p) \/ ParseFails(q, p) \/ ParseHangs(q, p)
        PROVE  IInv'
    BY <1>1, <2>2, ParseProgramKeeps, YieldsNothingKeeps DEF ParseFails, ParseHangs
  <2>3. CASE FetchExistingInstances(q)
    BY <1>1, <2>3, FetchKeeps
  <2>4. ASSUME NEW k \in Keys, KeepInstance(q, k) PROVE IInv'
    BY <1>1, <2>4, KeepInstanceKeeps
  <2>5. ASSUME NEW k \in Keys, UpdateInstance(q, k) PROVE IInv'
    BY <1>1, <2>5, UpdateInstanceKeeps
  <2>6. ASSUME NEW k \in Keys, CreateInstance(q, k) PROVE IInv'
    BY <1>1, <2>6, CreateInstanceKeeps
  <2>7. ASSUME NEW k \in Keys, DeleteInstance(q, k) PROVE IInv'
    BY <1>1, <2>7, DeleteInstanceKeeps
  <2>8. CASE Abort(q)
    BY <1>1, <2>8, AbortKeeps
  <2>9. CASE Finish(q)
    BY <1>1, <2>9, StopKeeps DEF Finish, Active
  <2> QED
    BY <1>3, <2>1, <2>2, <2>3, <2>4, <2>5, <2>6, <2>7, <2>8, <2>9 DEF Step
<1>4. ASSUME NEW q \in Runs, ThreadDies(q) PROVE IInv'
  BY <1>1, <1>4, StopKeeps DEF ThreadDies
<1>5. CASE UNCHANGED vars
  <2>1. UNCHANGED <<table, phase, parsed, required, left, existing, overlap>>
    BY <1>5 DEF vars, run
  <2>2. ASSUME NEW r \in Runs PROVE RunOK(r)'
    BY <2>1, LeftAlone DEF IInv, StaysRead
  <2>3. OverlapOK'
    BY <2>1 DEF IInv, OverlapOK, Active
  <2> QED
    BY <1>1, <2>2, <2>3 DEF IInv
<1> QED
  BY <1>2, <1>3, <1>4, <1>5 DEF Next

THEOREM SpecIInv == Spec => []IInv
BY IInvInit, IInvStep, PTL DEF Spec

(* A run that has the table to itself never makes a call that throws.      *)
THEOREM OnlyOverlapAborts == Spec => []AbortsOnlyOnOverlap
<1>1. IInv => AbortsOnlyOnOverlap
  BY DEF IInv, RunOK, AbortsOnlyOnOverlap
<1> QED
  BY <1>1, SpecIInv, PTL

(* Whatever other runs do meanwhile, no run deletes a row that one of the  *)
(* PDFs it read lists.                                                     *)
THEOREM ListedRowsStay == Spec => DeletesOnlyUnlisted
<1>1. IInv => \A r \in Runs, k \in Keys : DeleteInstance(r, k) => Listed(r, k) = {}
  BY ObsoleteUnlisted DEF DeleteInstance
<1>2. IInv /\ [Next]_vars =>
        [\A r \in Runs, k \in Keys : DeleteInstance(r, k) => Listed(r, k) = {}]_vars
  BY <1>1
<1> QED
  BY <1>2, SpecIInv, PTL DEF Spec, DeletesOnlyUnlisted

(* A run that finishes leaves the table as its PDFs call for, even if      *)
(* others worked beside it, provided that they had read the same and the   *)
(* PDFs do not contradict each other.                                      *)
THEOREM Convergence == Spec => ConvergesToPdfs
<1>1. ASSUME IInv, NEW r \in Runs, Finish(r), Undisturbed(r), NEW k \in Keys
      PROVE  IF Listed(r, k) = {} THEN table[k] = Absent ELSE table[k] \in Listed(r, k)
  <2>1. phase[r] = "syncing" /\ left[r] = {} /\ existing[r][k] = Absent
    BY <1>1 DEF Finish
  <2>2. ReadOK(r) /\ SyncOK(r)
    BY <1>1 DEF IInv, RunOK
  <2>3. /\ required[r][k] # Absent => table[k] = required[r][k]
        /\ required[r][k] = Absent => table[k] = Absent
    BY <1>1, <2>1, <2>2 DEF SyncOK
  <2>4. required[r][k] \in Listed(r, k) \/ (required[r][k] = Absent /\ Listed(r, k) = {})
    BY <2>2 DEF ReadOK
  <2> QED
    BY <2>3, <2>4, ListedAvails
<1>2. IInv /\ [Next]_vars =>
        [\A r \in Runs : Finish(r) /\ Undisturbed(r) =>
           \A k \in Keys : IF Listed(r, k) = {} THEN table[k] = Absent
                                                ELSE table[k] \in Listed(r, k)]_vars
  BY <1>1
<1> QED
  BY <1>2, SpecIInv, PTL DEF Spec, ConvergesToPdfs
==============================================================================
