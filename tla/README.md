# A formal model of the PlanifÉTS backend

TLA+ modules for the parts of this repository where order, failure and
concurrency decide whether the result is right, the TLC configurations that
check them on small instances, and theorems TLAPS proves for every instance.
Paths below are relative to the repository root (`src/...` is its source tree).

- [Inventory](#inventory)
- [Plan](#plan)
- [The modules](#the-modules)
- [The runs](#the-runs)
- [Fairness](#fairness)
- [What is proved](#what-is-proved)
- [Where the code and its documents disagree](#where-the-code-and-its-documents-disagree)
- [Not modelled](#not-modelled)

## Inventory

The backend is one NestJS process in front of PostgreSQL (through Prisma) and
Qdrant. It has two halves. A *data pipeline* fills the tables from the outside
(the ÉTS API and website, PDFs, the Cheminot file) by jobs that each run in a
worker thread. A *chatbot* embeds texts in a forked process, searches them in
Qdrant and asks an LLM for recommendations. The rest is read-only endpoints.

| Component | State it keeps | Operations | Interacts with |
| --- | --- | --- | --- |
| Jobs pipeline (`jobs/`) | position in the list of jobs, the awaited promise, the thread's events | boot timer, cron tick, developer's request, the three listeners of a thread | spawns every job; two triggers share the database |
| Programs job (`jobs/workers/programs.worker.ts`, `program/`) | `Program`, `ProgramType` tables | create the missing types, upsert the programs, flag seeding | writes the programs the other jobs read |
| Courses jobs (`jobs/workers/courses.worker.ts`, `course/`, `program-course/`) | `Course`, `ProgramCourse` tables | upsert and backfill from the API, descriptions from the pages, types and sessions from Cheminot's file | reads programs, feeds instances, prerequisites and the indexer |
| Course instances job (`jobs/workers/course-instances.worker.ts`, `course-instance/`) | `CourseInstance` table, a snapshot of it | read PDFs, keep, update, create, delete | planification parser, sessions by code |
| Sessions job (`jobs/workers/sessions.worker.ts`, `prerequisite/`, `session/`) | `Session`, prerequisite tables | current session, prerequisites from the horaire PDFs | session calendar, horaire parser |
| Session calendar (`common/utils/session/`) | none: functions of the date | trimester, index, date range | every job that needs a session |
| Parsers (planification, horaire, Cheminot) | position in the text, the row or the group being built | one step per text fragment or line | outcome is an input of the jobs |
| Course indexer (`embedding/embedding-course-indexer.service.ts`, `qdrant-course-index.service.ts`) | Qdrant points and their hashes | ensure collection, embed in batches, one by one after a failure, upsert with retries | embedding worker client, Qdrant |
| Embedding worker client (`embedding/embedding-worker.client.ts`) | one child reference, a Map of pending requests, a timer for each | `embed()`, message, error, exit, timer, shutdown | forks `bge-m3.worker.ts`; used by the indexer and by searches |
| Embedding worker (`embedding/workers/bge-m3.worker.ts`) | the model it has loaded or is loading | load once for all waiting requests, forget a failed load, infer | answers the client over IPC |
| Retrieval (`embedding/course-retriever.service.ts`) | none | embed the query, search, deduplicate, cut | embedding client, Qdrant |
| LLM recommendation (`llm-generation/`) | text streamed so far, text held back, provider in use | generate, stream, fall back, leave | retrieval, providers, the client's connection |
| Health (`app.controller.ts`) | none | parallel probes | everything |

What makes each of them hard, and the lines where it bites, is the list
`hazards` of `PROJECT.json`. In short:

- *Callbacks in any order.* The embedding client reacts to five kinds of event
  that name no child, while it may have replaced the child they are about. The
  listeners of a job's thread fire after the pipeline has moved on. Requests to
  the embedding worker share one promise of a model, which another request may
  have replaced when it settles.
- *Triggers overlap.* Nothing keeps the boot run, the cron tick and a
  developer's request apart, so two runs of one job write the same tables with
  no transaction. Every job decides on rows it read before its first write, or
  looks for a row and then creates it; some errors this causes end a run, some
  end a program, some are swallowed.
- *Partial failure.* A PDF that cannot be fetched, a page that cannot be fetched, a
  batch that cannot be embedded, a provider that dies after it has streamed
  text, a job that fails half-way: in each case the code goes on, and what it
  does next must be right with half of its inputs. A PDF that `pdf2json` refuses
  is worse: its promise never settles, and whoever awaits it hangs.
- *Position is meaning.* The PDFs and Cheminot's file are read text by text, and
  a text belongs to the last heading, which may be a page, a group or a section
  back.
- *Boundaries.* The winter session begins in December of the year before; the
  LLM's delimiter may be split across two chunks; a search for ten courses asks
  for fifty points.

What makes a component correct, and hence what its module states:

- embedding client: a promise resolves with the vectors of its own texts, once;
  the Map and the promises agree; nobody waits for a child that is known to be
  gone; every call settles;
- embedding worker: a request runs on the model it asked for, and a model that
  is loaded or loading is not loaded a second time;
- jobs pipeline: within a trigger a job never starts before the ones before it
  have ended; every job asked for has an outcome, which is that of its own
  thread; every trigger ends whose own jobs answer, whatever the others' do;
- jobs that write tables (instances, programs, descriptions, Cheminot,
  prerequisites): a run that completes leaves its table as its source calls for,
  unless a changed source or a run with another answer disturbed it; overlapping
  runs do not undo each other's work, and never refuse each other all; every run
  comes to an end, unless a PDF's parse never settles;
- indexer: the collection holds the text of every row, each row is accounted for
  once, and nothing is embedded that is already there;
- parsers: what they return is what is printed, nothing lost and nothing under
  another heading;
- retrieval: the courses with the best points, each once;
- LLM request: the client sees the beginning of one answer, never the delimiter,
  and all of it on success; a provider is replaced only before anything was seen;
- calendar: every day in exactly one trimester, sessions in order across the
  new year.

## Plan

Modules, in the order in which they matter to the system. All are in this
directory.

| Module | Question | Composes |
| --- | --- | --- |
| `EmbeddingWorker` | do promises, Map and child stay consistent over any event order? | implements `EmbedService` |
| `JobsPipeline` | what do order, outcome and end of a trigger depend on? | |
| `CourseInstancesSync` | does the table converge to the PDFs over failures and overlaps? | runs started as in `JobsPipeline` |
| `SessionCalendar` | does a date name the right session everywhere? | |
| `LlmStream` | is the text the client sees the answer's, once and without the delimiter, whichever provider fails where? | |
| `EmbeddingIndexer` | does the collection converge to the rows, at no more cost than their changes? | the worker as `EmbedService` promises it |
| `CourseDescriptions` | do the API's texts and the pages' leave each other alone in one column? | in `MCTables` |
| `CheminotSync` | does check-then-write against a snapshot apply the file? | in `MCTables` |
| `ProgramsJob` | do swallowed errors cost a program its types? | in `MCTables` |
| `Prerequisites` | delete-unmatched and add-new over a row read before | in `MCTables` |
| `HoraireParser`, `PlanificationParser`, `CheminotParser` | is what was read what was printed? | in `MCReaders` |
| `Retrieval` | does oversampling find the best courses? | in `MCReaders` |
| `ExtractorCache` | do requests share a model, and get their own? | in `MCReaders`; the far side of `EmbeddingWorker` |

Abstract specifications: `EmbedService` is what callers of the embedding client
rely on. For a job the specification is a function, "the table is what the
sources say", and its convergence property states it.

What could come next: the queries behind the controllers, which change no state,
and what the vectors of the embedding worker are.

Every module is written to be proved about as well as checked: parameters are
`CONSTANTS` with named assumptions, there is one action per operation, no
`RECURSIVE` operator, and each proof lives in a module of its own.

## The modules

### EmbeddingWorker

`embedding-worker.client.ts` and the protocol of `bge-m3.worker.ts`. The state
is the client's fields (`worker`, `workerTerminating`, `pending`,
`nextRequestId`), the promise each call returned and what it resolved with, the
operating system's view of every child, and the two IPC channels, which are
sets: an answer may be delivered after any later one. Each callback of the code
runs to completion on the event loop, so each is one action.

| Action | Code |
| --- | --- |
| `EmbedReusesWorker`, `EmbedForksWorker`, `EmbedCannotFork` | `embed()` and `getWorker()`, by what `createWorker()` does: nothing, fork, throw |
| `Timeout` | the callback of the request's timer |
| `HandleWorkerMessage` | `handleWorkerMessage()`: dropped, resolved or rejected |
| `OnError`, `OnExit` | the listeners of `createWorker()` |
| `OnModuleDestroy` | `onModuleDestroy()` |
| `WorkerAnswers`, `WorkerCrashes` | the child: an answer of any kind, in any order; a death of its own |

A child goes from `unborn` to `up` (or `unspawned`, when the system could not
start it), then `killed` or `crashed`, and is `gone` once its exit was handled.
`EventLoopTurn` says that an `error` Node queues with `process.nextTick` is
emitted before any timer, message or exit; every other order is possible.
`sentTo` is a history variable: the child each request was posted to.
The timer exists exactly while the entry does, so it is not a variable of its
own. `EmbedService` is what callers rely on: one settlement for each call, with
its own vectors or a rejection.

### JobsPipeline

`jobs.service.ts`, `jobs.controller.ts` and `jobRunner.worker.ts`. A trigger has
a phase, the jobs it was asked to run, those it has not reached and what it
noted of each; a thread has a state and a queue of events the main thread has
not handled. `config` (`APP_ENV` and `chatbot.enabled`) is chosen in `Init` and
never changes. `Reaches` is the `for` loop with its `await`; `Handle` is the
promise of `runWorker()`, settled by the first of three listeners.
`ThreadDies` is the end of a thread outside the job runner's `try`: an uncaught
exception, a full heap, or a bootstrap that calls `process.exit(1)`.
`ThreadDrains` is the end of a thread whose job awaits a promise nothing will
settle: the exit code is 0 and no message was sent, so no listener settles the
promise of `runWorker()` and the trigger waits for ever. A thread may also run
for ever.

### CourseInstancesSync

`course-instances.worker.ts` over the writes of `course-instance.service.ts`.
The table is a function from (course, session) pairs to an availability or
`Absent`. Each PDF read and each database call is a step, since other runs of
the job act between them. `required`, `existing` and `left` are the two maps of
the code and the position of its loop; a key is removed from `existing` where
the code removes it, so that what remains is what `deleteObsoleteInstances()`
deletes. A call on a row that appeared or vanished since the snapshot throws,
and `Abort` is the end of the job it causes. The PDFs are awaited one after the
other. `ParseFails` is a PDF that could not be fetched or whose processing threw,
which the job logs before it goes on. `ParseHangs` is one that `pdf2json` cannot
read: `parsePdfBuffer()` logs the error and settles nothing, so the run reads no
further (`Hangs`) and never ends, unless its thread does. `Publish` is the school changing
a PDF, and `ThreadDies` the loss of a run between any two calls; the next run
starts on the table it left. `overlap` is a history variable.

### SessionCalendar

`sessionUtil.ts` and `session.service.ts`. The state is a date that walks
through the days and the `Session` table, to which the sessions job
(`ProcessSessions`) and the planification job (`ProcessPlanification`) add
rows. The date rules are operators with the code's names. Only dates in
Toronto's calendar are considered, as in the code; the time zone conversion is
not modelled.

### LlmStream

`llm.service.ts` for one request, with the reader of `llm-provider.ts` and the
controller that writes the events. A text is a sequence of letters of which the
delimiter, as the real one, may overlap itself; a list of courses is a sequence
of codes that ends with `Close`, so that a list cut short does not parse.

| Action | Code |
| --- | --- |
| `Retrieve`, `RetrieveFails` | `buildEnrichedPrompt()` and the two status events |
| `Delta` | one turn of the `for await` in `streamFromProvider()`, with `consumeStreamChunk()` (`Consume`) |
| `EndOfStream` | what follows that loop: the rest, the list, its filter |
| `ProviderFails`, `TimerFires` | any error of a provider, `controller.abort()` included, and the `catch` (`OnProviderError`) |
| `Complete` | the success of `recommend()`, the endpoint that does not stream |
| `ClientLeaves` | the `close` of the connection: `generator.return()` |

The controller asks the generator for its next event as soon as it has written
one, so a `return()` always waits behind a `next()`: `ReturnQueued` takes effect
at the next `yield`. `said`, all that the provider in use has sent, and `late`,
the events written after the client left, are history variables. `timers` is
kept apart from `provider` because the code clears a timer in a `finally` of its
own. All the deltas of one read are consumed before any other event; as each is
an action here, the model allows more interleavings than the code.

### EmbeddingIndexer

`embedding-course-indexer.service.ts` and `qdrant-course-index.service.ts`. A
run creates the collection (or finds it, or is refused because another just
did), reads the rows of the view while it scrolls through the points, and takes
the rows whose text changed in batches. Both reads are of one `Promise.all`, so
`ReadRows` and `ScrollPage` come in any order, and the collection is read page
by page while others write it. A point carries the text it was embedded from
where the code compares a SHA-256 of it.

| Action | Code |
| --- | --- |
| `Start`, `CreateCollection`, `CreateRefused` | `ensureCollection()`: look, then create |
| `ReadRows`, `ScrollPage`, `FilterRows` | `findAll()`, `getExistingTextHashes()`, the comparison of hashes |
| `NextBatch`, `Complete` | the loop over the batches |
| `Embedded`, `EmbedBatchFails`, `NextSingle`, `EmbedOneFails` | `embed()` of a batch, or of its rows one by one after it failed |
| `Upserted`, `UpsertRetried`, `UpsertFails` | `upsertPoints()` in `retryTransient()`; a failed upsert may have taken effect |
| `Stops` | a call that throws, or a killed thread |
| `ViewChanges` | another job changes a row of the view |

`indexed` and `errors` are sets where the code counts. `disturbed` is a history
variable: the runs whose rows or points another run, or a change of the view,
made out of date.

### CourseDescriptions

The column `Course.description`, which two of the jobs of `courses.worker.ts`
write. `processCourses()` (`FetchCourses`, `UpsertCourse`, `Backfill`,
`UpsertsDone`) upserts each course of the API; an upsert leaves an old
description alone, and a second write replaces a blank one. What the second write
replaces is what the first returned, so a page's text put there in between is
overwritten. `syncCourseDescriptionsFromEtsWebsite()` (`ReadCourses`, `Batches`,
`FetchPages`, `WriteDescriptions`, `RetryFailed`, `SyncDone`) asks for the
pages of a batch at once, writes those it got, and tries the failed ones once
more at PlanETS. `Fetched` is what `fetchCourseDescription()` answers with. A
description is blank, truncated (the API's) or a page's text.
`lost` and `overtaken` are history variables that name the race.

### CheminotSync

`syncCourseDetailsWithCheminotData()`, over `ProgramCourse`. A run reads the
programs with their rows (`ReadPrograms`), then downloads and parses the file
(`ParseFile`), and matches pair by pair: `MatchCourse` compares with the rows
read at the start, `UpdateProgramCourse` and `CreateProgramCourse` write, and
`CreateRefused` is the unique key that ends a run when another created the row
after it looked.

### ProgramsJob

`programs.worker.ts` and the writes of `program.service.ts`. `FindTypes` and
`CreateTypes` are the two calls of `createProgramTypes()`, whose errors are only
logged (`TypesFail`, and a `createMany()` that writes nothing because one row is
there). The upserts of all programs run at once. As each connects relations, it
is a look (`UpsertLooks`) and then a write (`UpsertWrites`), refused if a type
is missing or if another run created the row in between (`UpsertRefused`).

### Prerequisites

The prerequisites half of `sessions.worker.ts` with `prerequisite.service.ts`.
For each program a run parses the PDF (`ReadPdf`; `PdfFails`, logged;
`PdfHangs`, the parse that never settles, after which the run does nothing more,
though its thread may still end); for each of its
courses it looks up the row (`LookUp`), writes the text if it changed
(`UpdateText`), and then either deletes all its prerequisites
(`DeleteAllPrerequisites`, the text is no list) or deletes what the text does
not list and adds what the row did not have (`DeletePrerequisite`,
`LookForPrerequisite`, `CreatePrerequisite`). Errors of a delete are swallowed;
any other ends the program and not the job (`CallFails`, `CreateRefused`).

### The parsers

`HoraireParser` reads the timetables, `PlanificationParser` the tables of
sessions and `CheminotParser` the lines of `Cheminements.txt`. One action is one
text or line, of any kind the code tells apart by place, font or pattern; the
state is the code's (current course, group, periods; current row; current
program, `skipSection`). The text read so far is a history variable, and the
property of each compares the result with a definition over that whole text: a
text belongs to the last heading before it. In `CheminotParser` a `CHOIX` line of
fewer than eleven fields throws where it is parsed (`ShortChoiceLine`): the parse
ends there and returns nothing. The module also covers a second call on the same
service, which adds to the same list of programs.

### Retrieval

`retrieveCourses()`. The points of the collection have any scores; Qdrant's
answer is any set of best ones, since ties have no order; then the best point of
each course, sorted and cut.

### ExtractorCache

`getExtractor()` of `bge-m3.worker.ts`. `state` is `extractorState`, and a load
is named after the request that started it. A load settles at any time, and a
failed one is forgotten only if the state is still for the same model
(`Forgets`).

## The runs

| Run | Instance | Shows |
| --- | --- | --- |
| `EmbeddingWorker_calls` | 2 calls, 3 children, fairness | promises resolve with their own vectors, the Map agrees with them, nobody waits for a child known to be gone; the client implements `EmbedService` with its fairness, so every call settles |
| `EmbeddingWorker_foreign_exit` | 2 calls, 2 children | *violated*: an exit only rejects the requests of that child |
| `JobsPipeline_triggers` | 2 jobs (the first needs the chatbot), one trigger of each kind, all six configurations, fairness | order and outcomes within each trigger; every trigger whose own jobs answer ends, whatever the others' do |
| `JobsPipeline_failure_reported` | the same, the second job needs the chatbot | *violated*: a job that failed is not noted as a success |
| `CourseInstancesSync_runs` | 2 runs, the PDFs of 2 programs of which one may change once, 1 pair, 2 availabilities, any table at the start, fairness | convergence, also when two PDFs list a pair differently or one of them fails, deletions, aborts; every run ends provided that the PDF parser answers it |
| `CourseInstancesSync_outage` | 1 run, 1 PDF, 1 pair | *violated*: a published instance is not deleted |
| `SessionCalendar_days` | every day of 2024 and 2025 | every day in one trimester, and sessions that follow each other, over a leap day and a new year |
| `SessionCalendar_december` | the same | *violated*: the sessions job works on the session of `getCurrentSessionIndex()` |
| `LlmStream_request` | 2 providers, a delimiter of 3 letters, 8 deltas, answers of up to 7 letters, either endpoint, fairness | one answer shown, whole, once and without the delimiter; silence once the client left; every request ends |
| `EmbeddingIndexer_runs` | 2 runs, 2 rows, 2 texts, batches of 2, 2 attempts, one change of the view, any collection at the start | rows accounted for, the collection up to date, nothing embedded twice, no run in circles |
| `Tables_runs` | 2 runs of each job, 1 program, 2 courses (of the prerequisites: 1 scheduled, 2 others), 2 types, details and pages, one change of the sources, any tables at the start | each job leaves its table as its source calls for; what a race costs; every step brings a run closer to its end, or to a PDF that hangs |
| `Readers_results` | timetables of 7 texts, tables of 4, files of 5 lines; 2 courses in 3 programs, limit 1, oversampling 2; 4 requests for 2 models | the results are what was printed, found or asked for |

The last two instantiate several modules at once (`MCTables`, `MCReaders`).
Their parts have no variable in common: no two of the four jobs write the same
column, and what one reads of another's table is an external source in its
module. So nothing is learned from their product, and `Init` says which part is
at work, with the others idle on empty tables. The state space is the sum of
the parts', and a property of a part is checked on all of its behaviours.

Why the bounds are enough. Three children allow the interesting chain in the
embedding client: one whose exit is still to come, one that replaced it, and
one forked after both; two calls are one that waits and one that forks. The
safety claims do not rest on these numbers, being proved for any. In the
pipeline a job only depends on those before it and on its own thread, so two
jobs show order, skipping and a late event of the first during the second;
two triggers may overlap entirely. In the other jobs that write tables one call
concerns one row: with two rows a run can abort, be refused or die after the
first and before the second, and two runs are the overlap. Two availabilities,
types, details or texts tell an update from a keep. In
`CourseInstancesSync` two programs with one pair between them are the least in
which one PDF overrides the other, or fails while the other is read; the steps
for one pair touch no other, and that pairs of unknown courses are skipped is
left to the proof, which is for any pairs. The sources change once,
which is before, during or after each call of a run. In the indexer a batch of
two is the least that can be taken apart, and two attempts the least that can be
retried. In `LlmStream` seven letters hold an explanation, a delimiter and a
list; the deltas cut the delimiter at both of its seams or bring all of it at
once, and contain its letters where it does not stand. Two providers are one to
fall back from and one that is the last. Seven texts hold a timetable with a
course, two groups or a page break between them, and a period on each side;
five lines a program, a section, two lines in it and what ends it. Limit 1 with
an oversampling of 2 and three programs puts a course both within and beyond
what the search allows. Four requests for two models are the first load, one
that replaces it, one that comes back, and one that waits. A leap year and the
year after hold every day there is and one new year.

`CHECK_DEADLOCK FALSE` stands where the system may stop for good: all calls
settled, all triggers over, all runs ended, the document read. The calendar can
always add a session it already has, so it never deadlocks and the check is on.

Symmetry is used in `EmbeddingIndexer_runs`, `Tables_runs` and
`Readers_results`, which check invariants and action properties only: runs,
rows, programs, courses and texts are interchangeable there. `CHOOSE` picks the
first or the greatest of some numbers there, and once a model of the embedding
worker, which is in no symmetry set.

Each property of a passing run has a mutant in `PROJECT.json`: an operator
`Mut...` beside the definition it replaces, a plausible slip in that code
(a Map that is not cleared, a skipped `await`, a row not marked as processed),
under which the property fails.

## Fairness

- `EmbeddingWorker`: timers fire and queued errors are emitted (weak fairness of
  each call's `Timeout` and each child's `OnError`; a running Node process does
  both). Nothing is assumed of a child: it may never answer and never exit.
- `JobsPipeline`: the loop goes on when its promise has settled, and events are
  delivered. Nothing is assumed of the jobs: `runWorker()` has no timeout, so
  `TriggersEnd` has the hypothesis `JobsAnswer`, of each trigger about its own
  jobs: none of them runs for ever or ends without a word. A job of another
  trigger may.
- `CourseInstancesSync`: a run whose next call is possible makes it (weak
  fairness of `Step`). Its thread may die instead; nothing is assumed of that,
  nor of the other run. A read of a PDF may fail or never settle: `RunsEnd` says
  that a run ends unless it awaits a PDF that is never answered for.
- `LlmStream`: the search settles (an embedding has its timer, the Qdrant client
  its own) and an armed timer fires. Nothing is assumed of the providers.
- `EmbeddingIndexer` and the four jobs of `MCTables` need no fairness for what
  they state: each has a rank, a tuple of naturals ordered lexicographically, and
  `StepsRunOut` says that every step of a run decreases that run's rank,
  whatever the others do. A run therefore takes finitely many steps, with the
  loops, retries and second passes in the code. Its last step may be `PdfHangs`,
  after which it takes none; that the other calls settle is left to the
  libraries.

## What is proved

`EmbeddingWorkerProofs`, for any set of calls and any set of children.
The invariants of `EmbeddingWorker_calls` are not inductive by themselves: that an
answer settles the call it was made for depends on ids. The strengthening
`IInv` adds that ids are handed out in increasing order (`IdsTaken`), that an id
names one caller wherever it is found, in the Map, at a child or in an answer
(`IdNamesCaller`), that a caller has one entry (`OneEntryPerCaller`), that a
call not made was not sent (`NotYetSent`), and that `workerTerminating` is only
set after shutdown began (`TerminatingOnlyAtEnd`), without which an exit could
spare requests that wait on the child that ended. From `IInv`:

- `TypeCorrect`, `OwnVectors`, `MapAgrees`, `WorkerAlive`, `NoForgottenWait`:
  the five invariants;
- `Refinement`: the client implements `EmbedService`, each step mapping to a
  step of the service or to a stutter.

The only assumptions are that `NoChild` is not a child and `NoVectors` not a
caller.

`SessionCalendarProofs`, for any span of years: `RangesPartition` (the three
date ranges cover each day exactly once, the one that wraps around the new year
included), hence `CalendarIsTotal`, `TypeCorrect`, and `SessionsFollow`: from one
day to the next `getCurrentSessionIndex()`, which is ten times the year plus the
place of the range, stays or names the session that follows.

`JobsPipelineProofs`, for any number of jobs and triggers: `TypeCorrect` and the
four invariants (`Ordered`, `Accounted`, `OwnOutcome`, `AnswerComes`). Order
within a trigger rests on facts about two things at once, hence the invariant's
two halves. `LoopOK`: the jobs the loop has reached precede those ahead of it,
and at most one job is awaited, the last one reached. `JobOK`: a thread runs
only while it is awaited, a job not reached is untouched, and while a thread
that has ended is still awaited all its events are there (`AnswerOf`), so that
the first one handled is the one that tells how it ended.

`CourseInstancesSyncProofs`, for any number of runs, programs, pairs and
availabilities: `TypeCorrect`, `OnlyOverlapAborts`, `ListedRowsStay` and
`Convergence`. The invariant says of each run that what it requires is what its
PDFs list (`ReadOK`), that a required pair is ahead of the loop or marked
(`LoopOK`), that a run alone finds the table as its snapshot says (`SoloOK`),
and that an undisturbed run leaves each processed pair as required (`SyncOK`).
The crux is `OtherWrites`: a run that writes while this one is under way is in
its overlap, so if the two agree the write is one this run would make itself.

`LlmStreamProofs`, for any number of providers, any delimiter that is not empty
and any deltas: `TypeCorrect`, the five invariants (`ShowsExplanation`,
`WholeAnswer`, `FailsForAReason`, `OneTimer`, `Quiet`) and `NoFallback`. The
invariant's core is `Reading`. Before the delimiter has come, what was said is
what was shown followed by what is held back, the delimiter stands nowhere in
it, and as soon as anything was shown a whole delimiter's length is held back.
Hence a delimiter that a new delta completes begins in the part that was not
shown (`PlacesOfUnshown`), and the first place in the window the code searches
is the first place in the whole answer (`ConsumeDelimiter`). The lemmas on texts
come first: slices, joins, and that a text that grows keeps its first delimiter.
That there is a first place (`Least`) comes from the well-foundedness of
inclusion on finite sets, since the induction rules take operators.

`EmbeddingIndexerProofs`, for any number of runs, rows, texts and payloads, any
batch size and any number of attempts: `TypeCorrect`, `Accounts`, `Indexes`,
`EmbedsChanges` and `RunsOut`. The invariant has two ideas. Each row to index is
at any time in one place only: ahead of the batches, in one, behind it, indexed
or an error (`OnePlace`, `PlacesOK`), which is what the fallback could break. And
in an undisturbed run a row is in the view as it was read and its point in the
collection as it was scrolled past, until the run itself writes it (`SightOK`,
`PointOK`); a write of another run either agrees or disturbs. `RunsOut` is the
termination argument: `Smaller` and `Lexical` turn one step's effect on the seven
components of `Rank` into an order, and it needs the rows to be finitely many.

`TablesProofs` proves everything the run `Tables_runs` checks, of the same
specification `MCTables`, for any number of runs and any tables:

- `LostOnlyInRace`, `Described` and `Synced` rest on `KeepsDescription`: no step
  of any job removes a row of the courses or replaces a text by nothing, and a
  page's text is replaced by the API's only in a backfill, which then counts it.
- `Matched`: in an undisturbed run of Cheminot's job a row is as the run read it
  or as the file says, and the pairs behind the loop are as the file says. A
  write of another run either agrees with the file or disturbs.
- `ProgramsMatch`: as long as an undisturbed run has not looked at the types in
  vain, they are all missing or all there, which is why the error that
  `createProgramTypes()` swallows costs no program its types.
- `PrerequisitesMatch`: a course behind the loop is as the PDF says (`InSync`),
  and of the course a run is at, what is still to be deleted or added is in its
  lists or is its next write (`Underway`). The others' writes only bring a row
  closer to the PDF, or disturb.
- `OneGetsOn`: a run that finds its row created is doomed; the run that created
  the last row is not, so the runs never refuse all of each other.
- `TypeCorrect`, and with it that each row has the rows it refers to.
- `RunsOut`: each step of a run takes something away from the first component
  of its rank that it touches (`GetsOn` for the prerequisites), and the order is
  lexicographic over natural numbers.

`ReadersProofs` proves everything the run `Readers_results` checks, of the same
specification `MCReaders`: for documents, tables and files of any length, any
codes, programs, scores and models. As the parts share nothing, each has an
invariant of its own, and a step of one leaves that of the others alone. What
the readers are compared with are definitions over the whole text read so far,
so an invariant says what the code's few variables remember of that text.

- `TimetableReadAsPrinted`, from `DocumentInv`. The courses listed are those of
  all headings but the open one (`ListOK`); the current course and the page's
  periods hold what the document said since and is not stored yet (`CourseHeld`,
  `PeriodsHeld`); with the document over, nothing is held. One more text changes
  nothing of what was said under the earlier ones, except that a detail may
  replace that of its row (`DocumentGrown`). Each way to store what is held is
  then a lemma: a heading met for the first time, one that comes back, a page
  that ends in the middle of a course.
- `PlanificationReadAsPrinted`, from `TableInv`: every row read so far has the
  code of its heading, and each of its cells lists what stood under it.
- `CheminementsReadAsPrinted`, from `FileInv`: each program opened has the
  courses the lines under it describe (`CoursesOK`), the list has the programs
  closed so far in order (`ListedOK`), and the current program and `skipSection`
  are those of the last header lines.
- `SearchFindsTheBest`, from `SearchInv`: what Qdrant returned is a set of best
  points of those that match, and the answer is cut from a ranking of the
  courses found. That oversampling suffices is counting: as many points as
  `LIMIT` times the factor, no course having more than the factor, are those of
  `LIMIT` courses at least. The lemmas on the sizes of such classes, on
  the greatest of a set of numbers and on rankings come first.
- `LoadsOfModelsShared`, from `ModelInv`: a request that is under way has a load
  of the model it asked for, the load `extractorState` names has not failed,
  and, if one model only is asked for, there is no other load that has not
  failed.

Assumptions: the named `ASSUME`s of the modules, which only keep marker values
apart (`Absent` is not an availability, a failed PDF is not a PDF, `None` is no
text, no score and no load, a page never shows the markers of `MCTables`, no
session is called "code"), bounds and scores in `Nat`, finitely many rows to
index, programs and courses, a batch that is not empty, and a delimiter that is
not empty.

With this every invariant and action property that a passing run checks is
proved. Only model-checked: liveness (`ImplementsFairService`, `TriggersEnd`,
`RunsEnd`, `RequestEnds`), which is out of the prover's reach; of the first, the
safety half is proved as `Refinement`.

## Where the code and its documents disagree

Each of these is a run that TLC must find violated, listed under `findings`.

- `EmbeddingWorker_foreign_exit`: the exit and error listeners do not look at
  which child they belong to. After a timeout killed the first child and a new
  call forked the second, the exit of the first rejects the request the second
  is working on and drops the only reference to it; it stays alive.
- `JobsPipeline_failure_reported`: the job runner posts a failure as an ordinary
  message, on which `runWorker()` resolves.
- `CourseInstancesSync_outage`: a PDF that cannot be fetched, or whose
  processing throws, counts as one that lists nothing, and its instances are
  deleted.
- `SessionCalendar_december`: from December 20 to 31 the sessions job creates
  and processes the winter session of the year that is ending.

Behaviours met while modelling that contradict a document, and that no run
checks because one line shows them or because a property already admits them:

- the database's enum lists the trimesters alphabetically and the query for the
  latest session orders by it, so the winter of a year comes after its autumn
  (`session.service.ts:112` against `session.controller.ts:20`);
- on a PDF that `pdf2json` cannot read, `parsePdfBuffer()` logs the error and
  neither resolves nor rejects (`pdfParserUtil.ts:14`): the `catch` of the job is
  never reached, and job and pipeline wait for ever, where
  `docs/jobs/jobs-pipeline.md:44` says "Errors are logged and processing
  continues." (`ParseHangs`, `PdfHangs`, `ThreadDrains`; `RunsEnd` says that a
  run of the instances job has no other way not to end);
- oversampling finds the wanted number of courses only while no course has more
  than five points among the matches (the comment at
  `course-retriever.service.ts:20` has no such condition; `BestCoursesFound`
  has it);
- a backfill overwrites a page's text that was written after its upsert returned
  (`course.service.ts:237` against the comment at line 225; `PageLostOnlyInRace`
  says that this is the only way);
- `docs/jobs/jobs-pipeline.md` gives 30 seconds and a monthly schedule where the
  code has ten minutes and twelve hours, and says that jobs run sequentially,
  which holds within a trigger (`OrderedWithinTrigger`) and not between two.

Behaviours that no document speaks of, and that a reader may not expect:

- a `CHOIX` line of fewer than eleven fields ends the parse of Cheminot's whole
  file, and with it the job, where other malformed lines are skipped;
- in a timetable, a period cut by a page break becomes two, and a group that a
  repeated course code brings is stored without its periods;
- in Cheminot's file, a line of `.HORS-PROGRAMME` without a comma at its end is
  also read as a list of one course, mandatory in session 1, and a `.PROGRAMME`
  line without a number lists the program before it twice;
- two overlapping runs of the programs job may each create a row the other is
  about to create, so that both are refused; the next run repairs it
  (`NotAllRefused` is stated of the other jobs only);
- rows of `ProgramCourse` whose course the file no longer lists stay.

## Not modelled

Left out for good: health probes, controllers that only read, transfer objects,
logging and monitoring, bootstrap and configuration (the two flags that change
behaviour are the `config` of `JobsPipeline`), the HTTP clients (their outcome
is an input of the jobs), the text that is cut out of a page's HTML, the
coordinates from which the PDF readers tell the kind of a text, the wording of
prompts and embedded texts, and the numerical content of the embeddings. The
seeder, which sets two flags of a fixed list of programs before the jobs that
read them, `checkStatus()` of the LLM component, which changes nothing, and
`deleteProgramCourse()`, which no code calls, are left out too. For these a
model would restate its own definition: they keep no state that another step can
find changed.

The components of `PROJECT.json` marked *partly* are those of which such a part
is left out.
