---------------------------- MODULE JobsPipeline ----------------------------
(***************************************************************************)
(* JobsService (src/jobs/jobs.service.ts), the development-only controller *)
(* in front of it (src/jobs/jobs.controller.ts) and the worker threads     *)
(* that run the jobs (src/jobs/workers/jobRunner.worker.ts).               *)
(*                                                                         *)
(* A trigger (the boot timer, a cron tick, a developer's request) walks    *)
(* through its jobs one after the other: it spawns a worker thread, awaits *)
(* the first of the thread's message, error and exit events, notes the     *)
(* outcome and goes on.  Nothing keeps two triggers apart, and the events  *)
(* of a thread may be delivered long after its trigger has moved on.       *)
(***************************************************************************)
EXTENDS Naturals, Sequences

CONSTANTS
  NumJobs,          \* the length of the jobs array of processJobs()
  ChatbotJobs,      \* the jobs isChatbotJob() recognises
  BootRuns,         \* firings of @Timeout: at most one per process
  CronRuns,         \* firings of @Cron considered: a bound
  DevRequests       \* POST /jobs/run-workers requests considered: a bound

ASSUME NumJobsAssumption == NumJobs \in Nat
ASSUME ChatbotAssumption == ChatbotJobs \subseteq 1..NumJobs

Jobs     == 1..NumJobs
Triggers == BootRuns \cup CronRuns \cup DevRequests

VARIABLES
  config,   \* the process's configuration: APP_ENV and chatbot.enabled
  phase,    \* each trigger: idle | active | over
  plan,     \* the jobs a trigger was asked to run
  todo,     \* those it has not reached yet
  result,   \* what the trigger noted of each job; "awaiting" while it awaits it
  thread,   \* the worker thread of each job of each trigger
  events    \* events of that thread the main thread has not handled, in order

vars == <<config, phase, plan, todo, result, thread, events>>

Config      == [appEnv : {"production", "development", "other"},
                chatbotEnabled : BOOLEAN]
Phase       == {"idle", "active", "over"}
Result      == {"none", "awaiting", "success", "error", "skipped"}
ThreadState == {"none", "running", "completed", "failed", "died", "drained"}
Event       == {"message", "error", "exit0", "exit1"}

Init ==
  /\ config \in Config
  /\ phase = [t \in Triggers |-> "idle"]
  /\ plan = [t \in Triggers |-> {}]
  /\ todo = [t \in Triggers |-> {}]
  /\ result = [t \in Triggers |-> [j \in Jobs |-> "none"]]
  /\ thread = [t \in Triggers |-> [j \in Jobs |-> "none"]]
  /\ events = [t \in Triggers |-> [j \in Jobs |-> <<>>]]

----------------------------------------------------------------------------
(* The triggers. *)

Begin(t, jobs) ==
  /\ phase[t] = "idle"
  /\ phase' = [phase EXCEPT ![t] = "active"]
  /\ plan' = [plan EXCEPT ![t] = jobs]
  /\ todo' = [todo EXCEPT ![t] = jobs]
  /\ UNCHANGED <<config, result, thread, events>>

RunOnceAfterBoot(t) == t \in BootRuns /\ config.appEnv = "production" /\ Begin(t, Jobs)
CronTick(t)         == t \in CronRuns /\ Begin(t, Jobs)

(* runWorkers(): all jobs, or those whose flags are set, in the same order *)
(* (without any flag the request is answered at once).                     *)
RunWorkers(t) ==
  /\ t \in DevRequests
  /\ config.appEnv = "development"
  /\ \E selected \in SUBSET Jobs : Begin(t, selected)

----------------------------------------------------------------------------
(* The loop of processJobs() and runSelectedJobs(). *)

CanRunJob(j) == j \in ChatbotJobs => config.chatbotEnabled

(* Mutant: the loop does not await the worker. *)
MutReaches(t, j) ==
  /\ phase[t] = "active"
  /\ j \in todo[t]
  /\ \A i \in todo[t] : j <= i
  /\ todo' = [todo EXCEPT ![t] = @ \ {j}]

(* j is the next job of the loop and the previous one is no longer awaited. *)
Reaches(t, j) ==
  /\ phase[t] = "active"
  /\ j \in todo[t]
  /\ \A i \in todo[t] : j <= i
  /\ \A i \in Jobs : result[t][i] # "awaiting"
  /\ todo' = [todo EXCEPT ![t] = @ \ {j}]

SkipJob(t, j) ==
  /\ Reaches(t, j)
  /\ ~CanRunJob(j)
  /\ result' = [result EXCEPT ![t][j] = "skipped"]
  /\ UNCHANGED <<config, phase, plan, thread, events>>

RunWorker(t, j) ==
  /\ Reaches(t, j)
  /\ CanRunJob(j)
  /\ result' = [result EXCEPT ![t][j] = "awaiting"]
  /\ thread' = [thread EXCEPT ![t][j] = "running"]
  /\ UNCHANGED <<config, phase, plan, events>>

Finish(t) ==
  /\ phase[t] = "active"
  /\ todo[t] = {}
  /\ \A i \in Jobs : result[t][i] # "awaiting"
  /\ phase' = [phase EXCEPT ![t] = "over"]
  /\ UNCHANGED <<config, plan, todo, result, thread, events>>

(* Mutants: the message itself is stored as the outcome; a later event     *)
(* overrides an earlier one.                                               *)
MutHandleRaw(t, j, e, outcome) ==
  /\ events[t][j] # <<>>
  /\ Head(events[t][j]) = e
  /\ events' = [events EXCEPT ![t][j] = Tail(@)]
  /\ result' = [result EXCEPT ![t][j] = IF @ = "awaiting" THEN e ELSE @]
  /\ UNCHANGED <<config, phase, plan, todo, thread>>
MutHandleLast(t, j, e, outcome) ==
  /\ events[t][j] # <<>>
  /\ Head(events[t][j]) = e
  /\ events' = [events EXCEPT ![t][j] = Tail(@)]
  /\ result' = [result EXCEPT ![t][j] = outcome]
  /\ UNCHANGED <<config, phase, plan, todo, thread>>

(* The three listeners of runWorker(): the first of resolve() and reject() *)
(* settles the promise, later ones do nothing.                             *)
Handle(t, j, e, outcome) ==
  /\ events[t][j] # <<>>
  /\ Head(events[t][j]) = e
  /\ events' = [events EXCEPT ![t][j] = Tail(@)]
  /\ result' = [result EXCEPT ![t][j] = IF @ = "awaiting" THEN outcome ELSE @]
  /\ UNCHANGED <<config, phase, plan, todo, thread>>

OnMessage(t, j) == Handle(t, j, "message", "success")
OnError(t, j) == Handle(t, j, "error", "error")

(* Mutant: the exit code is not looked at. *)
MutOnExit(t, j) == \E e \in {"exit0", "exit1"} : Handle(t, j, e, result[t][j])

OnExit(t, j) ==
  \/ Handle(t, j, "exit1", "error")
  \/ Handle(t, j, "exit0", result[t][j])

----------------------------------------------------------------------------
(* The worker thread: runJobWorker() ends, its failure is caught and sent  *)
(* as a message like any other, and process.exit() ends the thread.        *)
ThreadEnds(t, j, how, evs) ==
  /\ thread[t][j] = "running"
  /\ thread' = [thread EXCEPT ![t][j] = how]
  /\ events' = [events EXCEPT ![t][j] = evs]
  /\ UNCHANGED <<config, phase, plan, todo, result>>

JobCompletes(t, j) == ThreadEnds(t, j, "completed", <<"message", "exit0">>)
JobFails(t, j)     == ThreadEnds(t, j, "failed", <<"message", "exit1">>)

(* The thread dies outside that try block: an uncaught exception or a full *)
(* heap (error, then exit), a bootstrap that calls process.exit(1).        *)
ThreadDies(t, j) ==
  \/ ThreadEnds(t, j, "died", <<"error", "exit1">>)
  \/ ThreadEnds(t, j, "died", <<"exit1">>)

(* The job awaits a promise that nothing will settle (parsePdfBuffer() on  *)
(* a PDF it cannot read) and nothing else keeps the thread's event loop    *)
(* busy: the thread ends with code 0, having sent no message.              *)
ThreadDrains(t, j) == ThreadEnds(t, j, "drained", <<"exit0">>)

----------------------------------------------------------------------------
Trigger(t)     == RunOnceAfterBoot(t) \/ CronTick(t) \/ RunWorkers(t)
Loop(t)        == (\E j \in Jobs : SkipJob(t, j) \/ RunWorker(t, j)) \/ Finish(t)
Listen(t, j)   == OnMessage(t, j) \/ OnError(t, j) \/ OnExit(t, j)
Thread(t, j)   ==
  JobCompletes(t, j) \/ JobFails(t, j) \/ ThreadDies(t, j) \/ ThreadDrains(t, j)

Next ==
  \E t \in Triggers :
    \/ Trigger(t)
    \/ Loop(t)
    \/ \E j \in Jobs : Listen(t, j) \/ Thread(t, j)

(* The event loop runs continuations and delivers events.  Nothing makes a *)
(* job end: runWorker() has no timeout.                                    *)
Fairness ==
  \A t \in Triggers : WF_vars(Loop(t)) /\ \A j \in Jobs : WF_vars(Listen(t, j))

Spec     == Init /\ [][Next]_vars
FairSpec == Spec /\ Fairness

----------------------------------------------------------------------------
TypeOK ==
  /\ config \in Config
  /\ phase \in [Triggers -> Phase]
  /\ plan \in [Triggers -> SUBSET Jobs]
  /\ todo \in [Triggers -> SUBSET Jobs]
  /\ result \in [Triggers -> [Jobs -> Result]]
  /\ thread \in [Triggers -> [Jobs -> ThreadState]]
  /\ events \in [Triggers -> [Jobs -> Seq(Event)]]

(* Within one trigger a job never runs beside another, nor before one that *)
(* precedes it has ended: the courses a job reads were written by the jobs *)
(* before it.  A late event of an earlier thread cannot break this.        *)
OrderedWithinTrigger ==
  \A t \in Triggers : \A j \in Jobs : thread[t][j] = "running" =>
    \A i \in plan[t] \ {j} :
      IF i < j THEN thread[t][i] # "running" /\ result[t][i] \notin {"none", "awaiting"}
               ELSE thread[t][i] = "none" /\ result[t][i] = "none"

(* A trigger that is over has an outcome for every job it was asked to run *)
(* (a failure does not end the pipeline), and left no job running behind.  *)
NothingLeftBehind ==
  \A t \in Triggers : phase[t] = "over" =>
    /\ plan[t] = {j \in Jobs : result[t][j] \in {"success", "error", "skipped"}}
    /\ \A j \in Jobs : thread[t][j] # "running"

(* What a trigger notes is about the thread of that job: an error is noted *)
(* only for a thread that died, a success only for one that sent an answer.*)
OutcomeIsOfThread ==
  \A t \in Triggers, j \in Jobs :
    /\ result[t][j] = "error" => thread[t][j] = "died"
    /\ result[t][j] = "success" => thread[t][j] \in {"completed", "failed"}
    /\ result[t][j] \in {"none", "skipped"} => thread[t][j] = "none"

(* An awaited job is not stranded but by a thread that drained: its thread *)
(* runs or an event that will settle the promise is on its way.            *)
AwaitedHasAnswer ==
  \A t \in Triggers, j \in Jobs : result[t][j] = "awaiting" =>
    \/ thread[t][j] \in {"running", "drained"}
    \/ events[t][j] # <<>> /\ Head(events[t][j]) # "exit0"

(* A trigger whose own jobs all end with an answer, an error or a failure  *)
(* code comes to an end, whatever the jobs of the other triggers do: one   *)
(* that hangs there, for want of a timeout, blocks its own trigger only.   *)
JobsAnswer(t) ==
  \A j \in Jobs : []<>(thread[t][j] \notin {"running", "drained"})
TriggersEnd ==
  \A t \in Triggers : JobsAnswer(t) => (phase[t] = "active" ~> phase[t] = "over")

(* "should return an error result when a selected job fails with an Error" *)
(* (test/jobs/jobs.controller.test.ts): a job that failed is not noted as  *)
(* a success.                                                              *)
FailureIsReported ==
  \A t \in Triggers, j \in Jobs : thread[t][j] = "failed" => result[t][j] # "success"
=============================================================================
