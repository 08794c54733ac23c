------------------------- MODULE JobsPipelineProofs -------------------------
(***************************************************************************)
(* Theorems about JobsPipeline, for any number of jobs and triggers.       *)
(*                                                                         *)
(* The argument: a thread that runs is awaited, at most one job of a       *)
(* trigger is awaited, and it is the last one the loop has reached.  What  *)
(* precedes it has its outcome, what follows is untouched.                 *)
(***************************************************************************)
EXTENDS JobsPipeline, TLAPS

(* The jobs the loop of a trigger has come to. *)
Reached(t) == plan[t] \ todo[t]

(* What holds of each job of a trigger: if the loop has not come to it it  *)
(* is untouched; its thread only runs while it is awaited; and while it is *)
(* awaited and its thread has ended, all events of the thread are there.   *)
Untouched(t, j) == result[t][j] = "none" /\ thread[t][j] = "none" /\ events[t][j] = <<>>
AnswerOf(t, j) ==
  \/ thread[t][j] = "running" /\ events[t][j] = <<>>
  \/ thread[t][j] = "completed" /\ events[t][j] = <<"message", "exit0">>
  \/ thread[t][j] = "failed" /\ events[t][j] = <<"message", "exit1">>
  \/ thread[t][j] = "died" /\ events[t][j] \in {<<"error", "exit1">>, <<"exit1">>}
  \/ thread[t][j] = "drained" /\ events[t][j] \in {<<"exit0">>, <<>>}
JobOK(t, j) ==
  /\ IF j \in Reached(t) THEN result[t][j] # "none" ELSE Untouched(t, j)
  /\ thread[t][j] = "running" => result[t][j] = "awaiting"
  /\ result[t][j] = "awaiting" => AnswerOf(t, j)
  /\ result[t][j] = "error" => thread[t][j] = "died"
  /\ result[t][j] = "success" => thread[t][j] \in {"completed", "failed"}
  /\ result[t][j] \in {"none", "skipped"} => thread[t][j] = "none"

(* The loop of a trigger goes through its jobs in order, and awaits at     *)
(* most the last one it has reached.                                       *)
LoopOK(t) ==
  /\ todo[t] \subseteq plan[t]
  /\ \A i \in Reached(t), j \in todo[t] : i < j
  /\ \A j \in Jobs : result[t][j] = "awaiting" => \A i \in Reached(t) : i <= j
  /\ \A i, j \in Jobs : result[t][i] = "awaiting" /\ result[t][j] = "awaiting" => i = j
  /\ phase[t] = "idle" => plan[t] = {}
  /\ phase[t] = "over" => todo[t] = {} /\ \A j \in Jobs : result[t][j] # "awaiting"

(* The inductive invariant. *)
IInv ==
  /\ TypeOK
  /\ \A t \in Triggers : LoopOK(t)
  /\ \A t \in Triggers, j \in Jobs : JobOK(t, j)

USE NumJobsAssumption, ChatbotAssumption

----------------------------------------------------------------------------
LEMMA TypeInit == Init => TypeOK
BY DEF Init, TypeOK, Phase, Result, ThreadState

(* What a listener leaves of the queue is a queue of events. *)
LEMMA TailOfEvents ==
  ASSUME NEW s \in Seq(Event), s # <<>>
  PROVE  Tail(s) \in Seq(Event)
OBVIOUS

(* All triggers begin alike, with some of the jobs. *)
LEMMA TriggerBegins ==
  ASSUME NEW t, Trigger(t)
  PROVE  \E jobs \in SUBSET Jobs : Begin(t, jobs)
<1>1. Jobs \in SUBSET Jobs
  OBVIOUS
<1> QED
  BY <1>1, Zenon DEF Trigger, RunOnceAfterBoot, CronTick, RunWorkers

(* All listeners handle the head of the queue alike. *)
Noted(t, j, e, outcome) ==
  \/ e = "message" /\ outcome = "success"
  \/ e \in {"error", "exit1"} /\ outcome = "error"
  \/ e = "exit0" /\ outcome = result[t][j]
LEMMA ListenerHandles ==
  ASSUME TypeOK, NEW t \in Triggers, NEW j \in Jobs, Listen(t, j)
  PROVE  \E e \in Event, outcome \in Result :
           Handle(t, j, e, outcome) /\ Noted(t, j, e, outcome)
<1>1. result[t][j] \in Result
  BY DEF TypeOK
<1>2. "success" \in Result /\ "error" \in Result
  BY DEF Result
<1>3. \A e \in {"message", "error", "exit0", "exit1"} : e \in Event
  BY DEF Event
<1>4. CASE Handle(t, j, "message", "success")
  BY <1>2, <1>3, <1>4 DEF Noted
<1>5. CASE Handle(t, j, "error", "error")
  BY <1>2, <1>3, <1>5 DEF Noted
<1>6. CASE Handle(t, j, "exit1", "error")
  BY <1>2, <1>3, <1>6 DEF Noted
<1>7. CASE Handle(t, j, "exit0", result[t][j])
  BY <1>1, <1>3, <1>7 DEF Noted
<1> QED
  BY <1>4, <1>5, <1>6, <1>7, Zenon DEF Listen, OnMessage, OnError, OnExit

LEMMA TypeStep == TypeOK /\ [Next]_vars => TypeOK'
<1> SUFFICES ASSUME TypeOK, [Next]_vars PROVE TypeOK'
  OBVIOUS
<1> USE DEF TypeOK, Phase, Result, ThreadState
<1>1. ASSUME NEW t \in Triggers, Trigger(t) PROVE TypeOK'
  <2>1. PICK jobs \in SUBSET Jobs : Begin(t, jobs)
    BY <1>1, TriggerBegins
  <2> QED
    BY <2>1 DEF Begin
<1>2. ASSUME NEW t \in Triggers, NEW j \in Jobs, SkipJob(t, j) PROVE TypeOK'
  BY <1>2 DEF SkipJob, Reaches
<1>3. ASSUME NEW t \in Triggers, NEW j \in Jobs, RunWorker(t, j) PROVE TypeOK'
  BY <1>3 DEF RunWorker, Reaches
<1>4. ASSUME NEW t \in Triggers, Finish(t) PROVE TypeOK'
  BY <1>4 DEF Finish
<1>5. ASSUME NEW t \in Triggers, NEW j \in Jobs, NEW e, NEW outcome \in Result,
             Handle(t, j, e, outcome)
      PROVE  TypeOK'
  <2>1. Tail(events[t][j]) \in Seq(Event)
    BY <1>5, TailOfEvents DEF Handle
  <2>2. events' \in [Triggers -> [Jobs -> Seq(Event)]]
    BY <1>5, <2>1 DEF Handle
  <2>3. result' \in [Triggers -> [Jobs -> Result]]
    BY <1>5 DEF Handle
  <2>4. UNCHANGED <<config, phase, plan, todo, thread>>
    BY <1>5 DEF Handle
  <2> QED
    BY <2>2, <2>3, <2>4
<1>6. ASSUME NEW t \in Triggers, NEW j \in Jobs, Listen(t, j) PROVE TypeOK'
  <2>1. PICK e \in Event, outcome \in Result : Handle(t, j, e, outcome)
    BY <1>6, ListenerHandles
  <2> QED
    BY <1>5, <2>1
<1>7. ASSUME NEW t \in Triggers, NEW j \in Jobs, NEW how \in ThreadState,
             NEW evs \in Seq(Event), ThreadEnds(t, j, how, evs)
      PROVE  TypeOK'
  BY <1>7 DEF ThreadEnds
<1>8. ASSUME NEW t \in Triggers, NEW j \in Jobs, Thread(t, j) PROVE TypeOK'
  <2>1. /\ <<"message", "exit0">> \in Seq(Event)
        /\ <<"message", "exit1">> \in Seq(Event)
        /\ <<"error", "exit1">> \in Seq(Event)
        /\ <<"exit1">> \in Seq(Event)
        /\ <<"exit0">> \in Seq(Event)
    BY DEF Event
  <2> QED
    BY <1>7, <1>8, <2>1 DEF Thread, JobCompletes, JobFails, ThreadDies, ThreadDrains
<1>9. CASE UNCHANGED vars
  BY <1>9 DEF vars
<1> QED
  BY <1>1, <1>2, <1>3, <1>4, <1>6, <1>8, <1>9 DEF Next, Loop

(* Every variable keeps its type.                                          *)
THEOREM TypeCorrect == Spec => []TypeOK
<1>1. Init => TypeOK
  BY TypeInit
<1>2. TypeOK /\ [Next]_vars => TypeOK'
  BY TypeStep
<1> QED
  BY <1>1, <1>2, PTL DEF Spec

----------------------------------------------------------------------------
LEMMA IInvInit == Init => IInv
<1> SUFFICES ASSUME Init PROVE IInv
  OBVIOUS
<1>1. TypeOK
  BY TypeInit
<1>2. \A t \in Triggers : LoopOK(t)
  BY DEF Init, LoopOK, Reached
<1>3. \A t \in Triggers, j \in Jobs : JobOK(t, j)
  BY DEF Init, JobOK, Untouched, Reached
<1> QED
  BY <1>1, <1>2, <1>3 DEF IInv

(* What a step leaves alone stays in order. *)
LEMMA OtherJob ==
  ASSUME NEW u, NEW i, JobOK(u, i),
         result'[u][i] = result[u][i], thread'[u][i] = thread[u][i],
         events'[u][i] = events[u][i], i \in Reached(u)' <=> i \in Reached(u)
  PROVE  JobOK(u, i)'
BY DEF JobOK, Untouched, AnswerOf

LEMMA OtherLoop ==
  ASSUME NEW u, LoopOK(u), plan'[u] = plan[u], todo'[u] = todo[u],
         phase'[u] = phase[u] \/ phase'[u] = "active",
         \A i \in Jobs : result'[u][i] = "awaiting" => result[u][i] = "awaiting"
  PROVE  LoopOK(u)' /\ Reached(u)' = Reached(u)
<1>1. Reached(u)' = Reached(u)
  BY DEF Reached
<1> QED
  BY <1>1 DEF LoopOK

----------------------------------------------------------------------------
(* A trigger begins: nothing is reached, as before. *)
LEMMA BeginKeeps ==
  ASSUME IInv, TypeOK', NEW t \in Triggers, NEW jobs \in SUBSET Jobs, Begin(t, jobs)
  PROVE  IInv'
<1> USE DEF IInv
<1>1. /\ plan'[t] = jobs /\ todo'[t] = jobs /\ phase'[t] = "active"
      /\ \A u \in Triggers \ {t} : plan'[u] = plan[u] /\ todo'[u] = todo[u] /\ phase'[u] = phase[u]
      /\ UNCHANGED <<result, thread, events>>
  BY DEF Begin, TypeOK
<1>2. plan[t] = {}
  BY DEF Begin, LoopOK
<1>3. \A u \in Triggers : Reached(u)' = Reached(u)
  BY <1>1, <1>2 DEF Reached
<1>4. ASSUME NEW u \in Triggers, NEW i \in Jobs PROVE JobOK(u, i)'
  BY <1>1, <1>3, OtherJob
<1>5. LoopOK(t)'
  <2>1. Reached(t)' = {}
    BY <1>1 DEF Reached
  <2> QED
    BY <1>1, <2>1 DEF LoopOK
<1>6. ASSUME NEW u \in Triggers \ {t} PROVE LoopOK(u)'
  BY <1>1, OtherLoop
<1> QED
  BY <1>4, <1>5, <1>6

(* The loop reaches the first job ahead of it: all that were reached       *)
(* precede it, none of them is awaited, and it was untouched.              *)
LEMMA ReachesNext ==
  ASSUME IInv, NEW t \in Triggers, NEW j \in Jobs, Reaches(t, j), UNCHANGED plan
  PROVE  /\ \A u \in Triggers \ {t} : todo'[u] = todo[u] /\ Reached(u)' = Reached(u)
         /\ Reached(t)' = Reached(t) \cup {j}
         /\ todo'[t] \subseteq plan'[t]
         /\ Untouched(t, j)
         /\ \A i \in Reached(t)' : i <= j
         /\ \A i \in Reached(t)', k \in todo'[t] : i < k
         /\ \A i \in Jobs : result[t][i] # "awaiting"
         /\ phase[t] = "active"
<1> USE DEF IInv, TypeOK
<1>1. /\ todo'[t] = todo[t] \ {j} /\ j \in todo[t] /\ j \in plan[t]
      /\ \A u \in Triggers \ {t} : todo'[u] = todo[u]
      /\ todo[t] \subseteq plan[t]
  BY DEF Reaches, LoopOK
<1>2. /\ \A u \in Triggers \ {t} : Reached(u)' = Reached(u)
      /\ Reached(t)' = Reached(t) \cup {j}
      /\ j \notin Reached(t)
  BY <1>1 DEF Reached
<1>3. Untouched(t, j)
  BY <1>2 DEF JobOK
<1>4. Jobs \subseteq Nat /\ Reached(t) \subseteq Jobs /\ todo[t] \subseteq Jobs
  BY DEF Jobs, Reached
<1>5. \A i \in Reached(t) : i < j
  BY <1>1 DEF LoopOK
<1>6. \A i \in Reached(t)' : i <= j
  <2>1. j \in Nat
    BY <1>4
  <2>2. ASSUME NEW i \in Reached(t) PROVE i <= j
    <3>1. i \in Nat /\ i < j
      BY <1>4, <1>5
    <3> QED
      BY <2>1, <3>1
  <2>3. j <= j
    BY <2>1
  <2> QED
    BY <1>2, <2>2, <2>3
<1>7. \A k \in todo'[t] : j < k
  BY <1>1, <1>4 DEF Reaches
<1>8. \A i \in Reached(t)', k \in todo'[t] : i < k
  BY <1>1, <1>2, <1>7 DEF LoopOK
<1>9. phase[t] = "active" /\ \A i \in Jobs : result[t][i] # "awaiting"
  BY DEF Reaches
<1> QED
  BY <1>1, <1>2, <1>3, <1>6, <1>8, <1>9

LEMMA SkipJobKeeps ==
  ASSUME IInv, TypeOK', NEW t \in Triggers, NEW j \in Jobs, SkipJob(t, j)
  PROVE  IInv'
<1> USE DEF IInv
<1>1. Reaches(t, j) /\ UNCHANGED <<plan, phase, thread, events>>
  BY DEF SkipJob
<1>2. /\ result'[t][j] = "skipped"
      /\ \A i \in Jobs \ {j} : result'[t][i] = result[t][i]
      /\ \A u \in Triggers \ {t} : result'[u] = result[u]
  BY DEF SkipJob, TypeOK
<1>3. /\ \A u \in Triggers \ {t} : todo'[u] = todo[u] /\ Reached(u)' = Reached(u)
      /\ Reached(t)' = Reached(t) \cup {j}
      /\ todo'[t] \subseteq plan'[t]
      /\ Untouched(t, j)
      /\ \A i \in Reached(t)', k \in todo'[t] : i < k
      /\ \A i \in Jobs : result[t][i] # "awaiting"
      /\ phase[t] = "active"
  BY <1>1, ReachesNext
<1>4. JobOK(t, j)'
  BY <1>1, <1>2, <1>3 DEF JobOK, Untouched
<1>5. ASSUME NEW i \in Jobs \ {j} PROVE JobOK(t, i)'
  BY <1>1, <1>2, <1>3, OtherJob
<1>6. ASSUME NEW u \in Triggers \ {t}, NEW i \in Jobs PROVE JobOK(u, i)'
  BY <1>1, <1>2, <1>3, OtherJob
<1>7. LoopOK(t)'
  BY <1>1, <1>2, <1>3 DEF LoopOK
<1>8. ASSUME NEW u \in Triggers \ {t} PROVE LoopOK(u)'
  BY <1>1, <1>2, <1>3, OtherLoop
<1> QED
  BY <1>4, <1>5, <1>6, <1>7, <1>8

LEMMA RunWorkerKeeps ==
  ASSUME IInv, TypeOK', NEW t \in Triggers, NEW j \in Jobs, RunWorker(t, j)
  PROVE  IInv'
<1> USE DEF IInv
<1>1. Reaches(t, j) /\ UNCHANGED <<plan, phase, events>>
  BY DEF RunWorker
<1>2. /\ result'[t][j] = "awaiting" /\ thread'[t][j] = "running"
      /\ \A i \in Jobs \ {j} : result'[t][i] = result[t][i] /\ thread'[t][i] = thread[t][i]
      /\ \A u \in Triggers \ {t} : result'[u] = result[u] /\ thread'[u] = thread[u]
  BY DEF RunWorker, TypeOK
<1>3. /\ \A u \in Triggers \ {t} : todo'[u] = todo[u] /\ Reached(u)' = Reached(u)
      /\ Reached(t)' = Reached(t) \cup {j}
      /\ todo'[t] \subseteq plan'[t]
      /\ Untouched(t, j)
      /\ \A i \in Reached(t)' : i <= j
      /\ \A i \in Reached(t)', k \in todo'[t] : i < k
      /\ \A i \in Jobs : result[t][i] # "awaiting"
      /\ phase[t] = "active"
  BY <1>1, ReachesNext
<1>4. JobOK(t, j)'
  BY <1>1, <1>2, <1>3 DEF JobOK, Untouched, AnswerOf
<1>5. ASSUME NEW i \in Jobs \ {j} PROVE JobOK(t, i)'
  BY <1>1, <1>2, <1>3, OtherJob
<1>6. ASSUME NEW u \in Triggers \ {t}, NEW i \in Jobs PROVE JobOK(u, i)'
  BY <1>1, <1>2, <1>3, OtherJob
<1>7. LoopOK(t)'
  BY <1>1, <1>2, <1>3 DEF LoopOK
<1>8. ASSUME NEW u \in Triggers \ {t} PROVE LoopOK(u)'
  BY <1>1, <1>2, <1>3, OtherLoop
<1> QED
  BY <1>4, <1>5, <1>6, <1>7, <1>8

LEMMA FinishKeeps ==
  ASSUME IInv, TypeOK', NEW t \in Triggers, Finish(t)
  PROVE  IInv'
<1> USE DEF IInv
<1>1. /\ phase'[t] = "over" /\ todo[t] = {} /\ \A j \in Jobs : result[t][j] # "awaiting"
      /\ \A u \in Triggers \ {t} : phase'[u] = phase[u]
      /\ UNCHANGED <<plan, todo, result, thread, events>>
  BY DEF Finish, TypeOK
<1>2. \A u \in Triggers : Reached(u)' = Reached(u)
  BY <1>1 DEF Reached
<1>3. ASSUME NEW u \in Triggers, NEW i \in Jobs PROVE JobOK(u, i)'
  BY <1>1, <1>2, OtherJob
<1>4. LoopOK(t)'
  BY <1>1, <1>2 DEF LoopOK
<1>5. ASSUME NEW u \in Triggers \ {t} PROVE LoopOK(u)'
  BY <1>1, OtherLoop
<1> QED
  BY <1>3, <1>4, <1>5

----------------------------------------------------------------------------
(* A listener notes the outcome of a job that is awaited, and no other; if *)
(* it notes nothing although the job is awaited, the event was the exit    *)
(* with code 0 of a thread that drained.                                   *)
LEMMA HandleKeeps ==
  ASSUME IInv, TypeOK', NEW t \in Triggers, NEW j \in Jobs, NEW e, NEW outcome \in Result,
         Handle(t, j, e, outcome), Noted(t, j, e, outcome)
  PROVE  IInv'
<1> USE DEF IInv
<1>1. /\ events[t][j] # <<>> /\ Head(events[t][j]) = e
      /\ UNCHANGED <<phase, plan, todo, thread>>
  BY DEF Handle
<1>2. /\ result'[t][j] = IF result[t][j] = "awaiting" THEN outcome ELSE result[t][j]
      /\ \A i \in Jobs \ {j} : result'[t][i] = result[t][i]
      /\ \A u \in Triggers \ {t} : result'[u] = result[u]
  BY DEF Handle, TypeOK
<1>3. /\ \A i \in Jobs \ {j} : events'[t][i] = events[t][i]
      /\ \A u \in Triggers \ {t} : events'[u] = events[u]
  BY DEF Handle, TypeOK
<1>4. \A u \in Triggers : Reached(u)' = Reached(u)
  BY <1>1 DEF Reached
<1>5. JobOK(t, j) /\ j \in Reached(t)
  BY <1>1 DEF JobOK, Untouched
<1>6. JobOK(t, j)'
  <2>1. CASE result[t][j] # "awaiting"
    BY <1>1, <1>2, <1>4, <1>5, <2>1 DEF JobOK
  <2>2. CASE result[t][j] = "awaiting"
    <3>1. AnswerOf(t, j)
      BY <1>5, <2>2 DEF JobOK
    <3>2. CASE thread[t][j] = "completed" /\ events[t][j] = <<"message", "exit0">>
      <4>1. e = "message" /\ outcome = "success"
        BY <1>1, <3>2 DEF Noted
      <4> QED
        BY <1>1, <1>2, <1>4, <1>5, <2>2, <3>2, <4>1 DEF JobOK
    <3>3. CASE thread[t][j] = "failed" /\ events[t][j] = <<"message", "exit1">>
      <4>1. e = "message" /\ outcome = "success"
        BY <1>1, <3>3 DEF Noted
      <4> QED
        BY <1>1, <1>2, <1>4, <1>5, <2>2, <3>3, <4>1 DEF JobOK
    <3>4. CASE thread[t][j] = "died" /\ events[t][j] \in {<<"error", "exit1">>, <<"exit1">>}
      <4>1. e \in {"error", "exit1"}
        BY <1>1, <3>4
      <4>2. outcome = "error"
        BY <4>1 DEF Noted
      <4> QED
        BY <1>1, <1>2, <1>4, <1>5, <2>2, <3>4, <4>2 DEF JobOK
    <3>5. CASE thread[t][j] = "drained" /\ events[t][j] \in {<<"exit0">>, <<>>}
      <4>1. e = "exit0" /\ events[t][j] = <<"exit0">>
        BY <1>1, <3>5
      <4>2. outcome = result[t][j]
        BY <4>1 DEF Noted
      <4>3. events'[t][j] = <<>>
        BY <4>1 DEF Handle, TypeOK
      <4>4. AnswerOf(t, j)'
        BY <1>1, <3>5, <4>3 DEF AnswerOf
      <4> QED
        BY <1>1, <1>2, <1>4, <1>5, <2>2, <3>5, <4>2, <4>4 DEF JobOK
    <3> QED
      BY <1>1, <3>1, <3>2, <3>3, <3>4, <3>5 DEF AnswerOf
  <2> QED
    BY <2>1, <2>2
<1>7. ASSUME NEW i \in Jobs \ {j} PROVE JobOK(t, i)'
  BY <1>1, <1>2, <1>3, <1>4, OtherJob
<1>8. ASSUME NEW u \in Triggers \ {t}, NEW i \in Jobs PROVE JobOK(u, i)'
  BY <1>1, <1>2, <1>3, <1>4, OtherJob
<1>9. ASSUME NEW u \in Triggers PROVE LoopOK(u)'
  <2>1. ASSUME NEW i \in Jobs, result'[u][i] = "awaiting" PROVE result[u][i] = "awaiting"
    <3>1. CASE u = t /\ i = j
      <4>1. CASE result[t][j] = "awaiting"
        BY <3>1, <4>1
      <4>2. CASE result[t][j] # "awaiting"
        BY <1>2, <2>1, <3>1, <4>2
      <4> QED
        BY <4>1, <4>2
    <3>2. CASE u # t \/ i # j
      BY <1>2, <2>1, <3>2
    <3> QED
      BY <3>1, <3>2
  <2> QED
    BY <1>1, <2>1, OtherLoop
<1> QED
  BY <1>6, <1>7, <1>8, <1>9

(* A thread ends and leaves the events that answer for it. *)
LEMMA ThreadEndsKeeps ==
  ASSUME IInv, TypeOK', NEW t \in Triggers, NEW j \in Jobs, NEW how, NEW evs,
         ThreadEnds(t, j, how, evs),
         \/ how = "completed" /\ evs = <<"message", "exit0">>
         \/ how = "failed" /\ evs = <<"message", "exit1">>
         \/ how = "died" /\ evs \in {<<"error", "exit1">>, <<"exit1">>}
         \/ how = "drained" /\ evs = <<"exit0">>
  PROVE  IInv'
<1> USE DEF IInv
<1>1. thread[t][j] = "running" /\ UNCHANGED <<phase, plan, todo, result>>
  BY DEF ThreadEnds
<1>2. /\ thread'[t][j] = how
      /\ \A i \in Jobs \ {j} : thread'[t][i] = thread[t][i]
      /\ \A u \in Triggers \ {t} : thread'[u] = thread[u]
  BY DEF ThreadEnds, TypeOK
<1>3. /\ events'[t][j] = evs
      /\ \A i \in Jobs \ {j} : events'[t][i] = events[t][i]
      /\ \A u \in Triggers \ {t} : events'[u] = events[u]
  BY DEF ThreadEnds, TypeOK
<1>4. \A u \in Triggers : Reached(u)' = Reached(u)
  BY <1>1 DEF Reached
<1>5. result[t][j] = "awaiting" /\ j \in Reached(t)
  BY <1>1 DEF JobOK, Untouched
<1>6. AnswerOf(t, j)'
  BY <1>2, <1>3 DEF AnswerOf
<1>7. JobOK(t, j)'
  BY <1>1, <1>2, <1>4, <1>5, <1>6 DEF JobOK
<1>8. ASSUME NEW i \in Jobs \ {j} PROVE JobOK(t, i)'
  BY <1>1, <1>2, <1>3, <1>4, OtherJob
<1>9. ASSUME NEW u \in Triggers \ {t}, NEW i \in Jobs PROVE JobOK(u, i)'
  BY <1>1, <1>2, <1>3, <1>4, OtherJob
<1>10. ASSUME NEW u \in Triggers PROVE LoopOK(u)'
  BY <1>1, OtherLoop
<1> QED
  BY <1>7, <1>8, <1>9, <1>10

LEMMA IInvStep == IInv /\ [Next]_vars => IInv'
<1> SUFFICES ASSUME IInv, [Next]_vars PROVE IInv'
  OBVIOUS
<1>1. TypeOK /\ TypeOK'
  BY TypeStep DEF IInv
<1>2. ASSUME NEW t \in Triggers, Trigger(t) PROVE IInv'
  BY <1>1, <1>2, TriggerBegins, BeginKeeps
<1>3. ASSUME NEW t \in Triggers, NEW j \in Jobs, SkipJob(t, j) PROVE IInv'
  BY <1>1, <1>3, SkipJobKeeps
<1>4. ASSUME NEW t \in Triggers, NEW j \in Jobs, RunWorker(t, j) PROVE IInv'
  BY <1>1, <1>4, RunWorkerKeeps
<1>5. ASSUME NEW t \in Triggers, Finish(t) PROVE IInv'
  BY <1>1, <1>5, FinishKeeps
<1>6. ASSUME NEW t \in Triggers, NEW j \in Jobs, Listen(t, j) PROVE IInv'
  BY <1>1, <1>6, ListenerHandles, HandleKeeps
<1>7. ASSUME NEW t \in Triggers, NEW j \in Jobs, Thread(t, j) PROVE IInv'
  BY <1>1, <1>7, ThreadEndsKeeps DEF Thread, JobCompletes, JobFails, ThreadDies, ThreadDrains
<1>8. CASE UNCHANGED vars
  <2>1. \A u \in Triggers : Reached(u)' = Reached(u)
    BY <1>8 DEF vars, Reached
  <2> QED
    BY <1>1, <1>8, <2>1 DEF vars, IInv, LoopOK, JobOK, Untouched, AnswerOf
<1> QED
  BY <1>2, <1>3, <1>4, <1>5, <1>6, <1>7, <1>8 DEF Next, Loop

THEOREM SpecIInv == Spec => []IInv
BY IInvInit, IInvStep, PTL DEF Spec

(* Within a trigger jobs run one at a time and in order, for any number of *)
(* jobs and of triggers beside it, whatever late events are delivered.     *)
THEOREM Ordered == Spec => []OrderedWithinTrigger
<1>1. ASSUME IInv PROVE OrderedWithinTrigger
  <2> SUFFICES ASSUME NEW t \in Triggers, NEW j \in Jobs, thread[t][j] = "running",
                      NEW i \in plan[t] \ {j}
               PROVE  IF i < j THEN /\ thread[t][i] # "running"
                                    /\ result[t][i] \notin {"none", "awaiting"}
                               ELSE thread[t][i] = "none" /\ result[t][i] = "none"
    BY DEF OrderedWithinTrigger
  <2>1. JobOK(t, i) /\ JobOK(t, j) /\ LoopOK(t) /\ i \in Jobs /\ i # j
    BY <1>1 DEF IInv, TypeOK
  <2>2. result[t][j] = "awaiting" /\ j \in Reached(t) /\ result[t][i] # "awaiting"
    BY <2>1 DEF JobOK, LoopOK, Untouched
  <2>3. CASE i \in Reached(t)
    <3>1. i < j
      BY <2>1, <2>2, <2>3 DEF LoopOK, Jobs
    <3> QED
      BY <2>1, <2>2, <2>3, <3>1 DEF JobOK
  <2>4. CASE i \notin Reached(t)
    <3>1. i \in todo[t]
      BY <2>4 DEF Reached
    <3>2. ~(i < j)
      BY <2>1, <2>2, <3>1 DEF LoopOK, Jobs
    <3> QED
      BY <2>1, <2>4, <3>2 DEF JobOK, Untouched
  <2> QED
    BY <2>3, <2>4
<1> QED
  BY <1>1, SpecIInv, PTL

(* A trigger that is over has an outcome for each job it was asked to run, *)
(* and no thread of its own is still at work.                              *)
THEOREM Accounted == Spec => []NothingLeftBehind
<1>1. ASSUME IInv PROVE NothingLeftBehind
  <2> SUFFICES ASSUME NEW t \in Triggers, phase[t] = "over"
               PROVE  /\ plan[t] = {j \in Jobs : result[t][j] \in {"success", "error", "skipped"}}
                      /\ \A j \in Jobs : thread[t][j] # "running"
    BY DEF NothingLeftBehind
  <2>1. LoopOK(t) /\ (\A j \in Jobs : JobOK(t, j)) /\ plan[t] \subseteq Jobs
    BY <1>1 DEF IInv, TypeOK
  <2>2. \A j \in Jobs : result[t][j] # "awaiting" /\ result[t][j] \in Result
    BY <1>1, <2>1 DEF LoopOK, IInv, TypeOK
  <2>3. Reached(t) = plan[t]
    BY <2>1 DEF LoopOK, Reached
  <2>4. \A j \in Jobs : j \in plan[t] <=> result[t][j] \in {"success", "error", "skipped"}
    BY <2>1, <2>2, <2>3 DEF JobOK, Untouched, Result
  <2>5. \A j \in Jobs : thread[t][j] # "running"
    BY <2>1, <2>2 DEF JobOK
  <2> QED
    BY <2>1, <2>4, <2>5
<1> QED
  BY <1>1, SpecIInv, PTL

(* An outcome is that of the job's own thread: no late or foreign event    *)
(* is taken for it.                                                        *)
THEOREM OwnOutcome == Spec => []OutcomeIsOfThread
<1>1. IInv => OutcomeIsOfThread
  BY DEF IInv, JobOK, OutcomeIsOfThread
<1> QED
  BY <1>1, SpecIInv, PTL

(* The loop never awaits a thread that has ended without an answer, unless *)
(* that thread drained.                                                    *)
THEOREM AnswerComes == Spec => []AwaitedHasAnswer
<1>1. ASSUME IInv PROVE AwaitedHasAnswer
  <2> SUFFICES ASSUME NEW t \in Triggers, NEW j \in Jobs, result[t][j] = "awaiting"
               PROVE  \/ thread[t][j] \in {"running", "drained"}
                      \/ events[t][j] # <<>> /\ Head(events[t][j]) # "exit0"
    BY DEF AwaitedHasAnswer
  <2>1. AnswerOf(t, j)
    BY <1>1 DEF IInv, JobOK
  <2> QED
    BY <2>1 DEF AnswerOf
<1> QED
  BY <1>1, SpecIInv, PTL
=============================================================================
