# A verification model of JevTrace

JevTrace records the runs of LLM agents: an SDK in the agent sends the steps of a
run to a FastAPI service, which stores them in PostgreSQL, asks the external Jev
API which component failed and which repair would help, and serves the result to a
dashboard. This directory holds TLA+ modules that model the parts of it that act
concurrently, TLC configurations that check them, and TLAPS proofs about them.
Source paths below are relative to `src/`.

## Inventory

| part | state | operations | hard behaviours | what makes it correct |
|---|---|---|---|---|
| Runs API (`apps/api/app/api/runs.py`) | `runs`, `failures` rows | create, complete, list, get | check-then-insert of `failures` against analyses; a status written over a stale load | a failed run has a failures row; only a completion clears it |
| Attributions API (`attributions.py`) | `attributions`, `failures` rows | analyze, get attribution | a long await between the trace it read and the row it writes; two analyses on one row | both rows or neither; the verdict is one of an answered analysis |
| Recommendations API (`recommendations.py`) | `recommendations` rows | generate, get | delete-and-insert, twice at once | never empty once filled |
| Steps API (`steps.py`) | `steps`, `runs.total_steps` | add, list, get | read-modify-write of the counter; pages by a non-unique number | counter bounded by the steps; no page skips a step |
| Ingestion (`ingest.py`) | the same, in batches | ingest | autoflush locks in batch order, key conflicts, rollback of the whole batch, numbering of uncommitted steps | a batch is atomic and appends to the log |
| OTLP receiver (`otlp.py`) | the same | receive_traces | one span aborts the export | spans of an answered export are stored |
| Jev service (`services/jev_service.py`, `packages/jev-client`) | none | analyze_trace, recommend_repair | slow, fails | failure_step indexes the trace |
| Database (`db/models.py`, `db/session.py`, alembic) | all tables | one session and transaction per request | unique keys, row locks, READ COMMITTED | |
| Tracer SDK (`packages/tracer`) | run id, step counter, batch list | observe, span, aspan, flush, complete, analyze, close; LangChain callbacks | lost replies and requeue, threads, a flush interval nobody watches | every observed step is stored once, in order |
| Worker (`apps/worker`, `worker_bridge.py`) | Celery queue, `attributions`, `failures` | enqueue, analyze_run task | imports that fail, outside the retry | an accepted analysis leaves the tables as they are or complete |
| Projects and keys (`projects.py`, `ingest.py`) | `projects`, `api_keys` | create project and key, delete key, resolve a key | check-then-insert of a unique name; a key deleted while a batch is under way | one project per name; a run is of its key's project; a deleted key is refused |
| Authentication (`auth.py`, `core/security.py`, `core/deps.py`) | none | tokens of a demo user | | |
| Component names (`packages/schemas`, `schemas/step.py`, tracer, otlp, ingest) | none | four mappers of a name to a component | they differ in strip, alias order, default | the same step has the same component by every path |
| Pagination (`schemas/pagination.py`) | cursors | encode, decode | inserts between pages | no row twice, none skipped |
| Limiter and application (`core/limiter.py`, `main.py`, `internal.py`) | per-process windows | limits, routes | several worker processes | a limit is a limit |
| Analytics (`analytics.py`) | none | aggregates | | reads only |
| Trace parser, attribution and analytics packages | none | normalize_trace | | formatting |
| Dashboard: settings page (`app/settings/page.tsx`, `lib/api.ts`) | projects, the selected one, its keys | load, select, create project and key | answers that come after the selection changed | shows the selected project's keys |
| Dashboard: other pages | page state | load pages, analyze, reload | stale closures | shows what it loaded |
| Benchmark (`scripts/benchmark_whowhen.py`, `drop_results.py`) | a results file | benchmark with resume, drop | a crash in an append, two invocations, a rewrite between them | every record counted once |
| Adapter (`scripts/whowhen_adapter.py`) | none | steps of a trajectory, the step its ground truth blames | five ways to name a step, numbered from 0 and 1 | a label is a step the ground truth names |
| Other scripts (`seed.py`, ...) | none | one-shot clients | | |
| Infrastructure, tests, docs | | | | |

How they interact: the SDK and OTLP exporters call the API over HTTP; every request
handler is a coroutine with a session and a transaction of its own, and the requests
share nothing but the tables. `infra/docker/Dockerfile.api` starts several worker
processes, so a crash of one ends some of the requests in flight. The handlers of
attributions and recommendations await Jev inside the transaction. The worker, when
enabled, runs the analysis of `attributions.py` outside the API.

`PROJECT.json` lists the same parts with their status, and the hazards with the line
where each one bites and the properties that cover it.

## What is modelled

### RunLifecycle

One run in the database with its `failures`, `attributions` and `recommendations`
rows, and any number of completions, analyses and repairs of it in flight. Each
handler is split at its database statements and at the await of Jev, because a
coroutine switch (and another process) may come between any two of them:

| code | actions |
|---|---|
| `create_run`, a `trace-create` event | `CreateRun` |
| `add_step` (only that the trace grows) | `AddStep` |
| `complete_run`: `session.get`, `select(Failure)`, commit | `CompleteLoad`, `CompleteSelectFailure`, `CompleteCommit` |
| `analyze_run`: load of run and steps, Jev, `select(Attribution)`, `select(Failure)`, commit | `AnalyzeLoad`, `AnalyzeAnswered`, `AnalyzeSelectAttribution`, `AnalyzeSelectFailure`, `AnalyzeCommit` |
| `USE_WORKER`: `enqueue_analyze`; the Celery task | `AnalyzeEnqueued`; `WorkerTask` |
| `generate_recommendations`: load, Jev and select, commit | `RepairLoad`, `RepairSelect`, `RepairCommit` |
| Jev raises; a worker process dies | `JevFails`, `Crash` |

What a handler read stays in `readStatus`, `snapshot`, `readAttr`, `sawFailure` and
`sawRecs`, and is used, however stale, when it writes. The database is modelled as
the code uses it: READ COMMITTED; the autoflush before a `SELECT` writes pending
changes and so takes the lock of the row (`runLock`, `attrLock`) or claims its unique
key; an `UPDATE` carries only the columns that differ from the loaded row; a unique
violation rolls the transaction back. The load of a run and of its steps is one
action: nothing deletes a run and steps are only added, so splitting it shows nothing
more. With `USE_WORKER` an analysis may end as "accepted" (the client is told to poll);
which requests do is left open, because `enqueue_analyze` raises, and the synchronous path
goes on, wherever the worker's package cannot be imported or the broker is down. The
worker's task then writes nothing: its own package is named `app`, so the import of
`app.db.session` (`celery_app.py:29`) fails before a session is opened, and outside the
`try` whose `except` would retry. So no analysis answered with 202 "pending" is attributed
by it, although `attributions.py:39` says the attribution "will be available after worker
completes"; the body of the task after its imports is never reached and is not
modelled. Jev's answer is any component, any category and any step `Verdicts` allows.

### StepStore and StepLog

The tables `runs` (key and `total_steps`) and `steps` under concurrent `add_step`,
`ingest` and `receive_traces` requests on several runs. A request has a session: the
counts it has loaded (`session`), the runs it inserts (`fresh`), its unflushed changes
(`dirty`) and its new steps (`added`). `GetRun` is `session.get` of a run that is not
in the session: autoflush, `SELECT`, and a new run when there is none.
`AddObservation` is the rest of an observation: autoflush, the `SELECT` of the last
number, the new step, the count. `AddSpan` is an OTLP span with a spanId, whose
`.astext` raises. `Commit` flushes what is left and publishes everything;
`FlushFails`, `DeadlockDetected` and `Crash` roll back. A trace id that is missing or
malformed gives a random run id and is represented by a run id no other event uses.
The first `session.get` of a batch flushes nothing and the `SELECT`s of a batch that
only read are not separated from the flush before them.

`StepLog` is the abstract specification: a log per run to which a request appends all
of its steps at once or none, and a counter that is at most the length of the log and
zero only for an empty one. It does not promise that the counter is exact: the code
does not keep that (see the findings). `LogSpec` in StepStore states the refinement.

### Tracer and TraceLog

A `JevTrace` object, a host that calls it from one thread, the network, and what the API
stores of it. A tracer with a public key (`batched`) names its run itself and queues
events; one without posts the run and each step on its own.

| code (`packages/tracer/jev_trace`) | actions |
|---|---|
| `span`, `observe`, `aspan`, the callbacks of `langchain.py` | `Record`, then `EnsureRun` and `AppendStep` for the two halves of `_post_step` |
| `flush` | `Flush`, an operator that those and `Call` use: it empties the queue and posts it |
| `complete`, `analyze`, `flush`, `close` | `Call`, and `PostCall` for the post after the flush; `shutdown` is a flush and a close |
| the return of a post, or its exception | `Answered`, `Raised` |
| the API | `Arrive`, `ArriveLate`, `Reject`; `Serve` is the effect of a request |

Calls are synchronous, so the interleaving that matters is with the network: a post raises
because the request was lost, because it was rejected, or because its reply was, and a request
whose client gave up may be processed at any later time, behind newer ones (`late`), or never.
`span` and `observe` record a success inside the `try` whose handler records the failure, so an
exception of the first `_post_step` starts a second one (`again`). The time since the last flush
is any. A batch is one transaction: that is what StepStore shows (`BatchAllOrNothing`), and a
batch that fails there is a `Reject` here. A step without a queue is counted when `_step` is
incremented, before its post.

`TraceLog` says what a tracer promises of the stored steps: they stay stored, and a queueing
tracer stores them in order and without gaps. It does not promise that they are stored at all,
or once: `NothingLost` and `CopiesNeedFailures` say what is kept of that.

Events are numbered by `_step`, so that the two payload formats need not be told apart; the
server numbers a row as the event says (StepStore treats the events without a number). A host
that goes on after `close` is not modelled; threads that share a tracer are in TracerThreads.

### TracerThreads

The same object used by several threads, which nothing in it prevents and nothing guards: no
field has a lock. Every access of `run_id` and of `_batch` is an action, because the interpreter
may switch threads between any two, and one call of a list method is atomic:

| code (`tracer.py`) | actions |
|---|---|
| `_ensure_run`: the test, the assignment, the event or the post | `TestRun`, `NameRun`, `Announce` or `CreateRun` |
| `_post_step`: the append, or the post without a queue | `AppendStep` |
| `_maybe_flush`: the test of the size | `TestSize` |
| `flush`: the test, the copy, the clear, the post, the requeue | `TestEmpty`, `CopyBatch`, `ClearBatch`, `PostBatch`, `ForgetBatch`, `Requeue` |
| the host | `Record`, `CallFlush` |

`raced` says that something was queued between another thread's copy and clear, `overlapped`
that the queue was copied there: the two races the code has. What the network does to a batch
after its post is Tracer's subject; here a post stores its events or not, and raises or not.

### Pages

The rows of `runs` and of the `steps` of one run, and a client that reads a listing of each
from its first page to its last (`ListRuns`, `ListSteps`: one `SELECT` each, so one action)
while others create and complete runs and add steps. `runSeen` and `stepSeen` count how often
a row was on a page, `runsOwed` and `stepsOwed` keep the rows that were there at the first
page and, of the runs, matched the status filter ever since. `started_at` is the time the
inserting transaction began, so a run may appear behind newer ones. `RunsBehind` compares
`(started_at, id)` as `list_runs` does; a cursor of steps carries the number and the id, and
`DecodedCursor` is what is read of it again, the number. The order of rows with the same
number is any.

### Projects

The tables `projects` and `api_keys`, and of `runs` the project of each row, under concurrent
requests. A row is named by the request that inserts it. Each handler is split between what it
reads and its commit:

| code | actions |
|---|---|
| `create_project`: `select(Project)`, commit | `CreateSelect` (409), `CreateCommit` (a unique violation is a 500) |
| `create_key`: `session.get(Project)`, commit | `CreateKeyLoad` (404), `CreateKeyCommit` |
| `delete_key`: `session.get(ApiKey)`, commit | `DeleteKeyLoad` (404), `DeleteKeyCommit` |
| `ingest`: `_resolve_project`, `session.get(Run)`, commit | `IngestResolve` (401), `IngestGetRun`, `IngestCommit` |
| a worker process dies | `Crash` |

`Resolved` is `_resolve_project`: no key means the default project of migration 002, a public key
alone is enough, a secret that comes with it is compared. The batch has one trace-create event;
StepStore models what batches do to runs and steps.

`Registry` is the abstract specification: each request takes effect, or is turned away for a reason
that holds, in one step, and an ingestion in two, because its key is checked long before its run is
stored. It says what an answer may claim: a name that collided is taken, a key is of a project that
is there, a batch is granted only a key that is there when it is checked, for the project it had
then, and the first to store a run has it. `RegistrySpec` in Projects states the refinement, with
`Told` and `Granted` as what clients have been told and which keys were accepted; a request that
dies in its process has told nothing and changed nothing. ProjectsMC declares the symmetry of the
run.

### Settings

The dashboard's settings page in one tab, composed with Projects (which it EXTENDS): the page's
requests are Projects' requests, and other clients' go on beside it. `User` is what the user may
do (`Pick`, `ClickCreate`, `ClickCreateKey`), `Answered` is the return of a handler's awaited
request, `ServeLoad`/`ApplyLoad` and `ServeFetch`/`ApplyFetch` are the two halves of a load of the
projects and of a fetch of keys, because other requests commit in between, and `Lose` is an
answer that does not come. An answer is applied whenever it arrives; the page cancels nothing.
A handler's closure holds the state of the render that made it, so the load of the first effect
selects a project even if another has been selected meanwhile. `hasty` says that the user acted
before the page had all its answers; then the keys of another project may be shown, and stay
shown, which the property does not deny until a project is selected with nothing under way: that
makes the user patient again. `failed` says that an answer was lost.

### WhoWhen

`scripts/whowhen_adapter.py` as operators: `StepsOf` is `convert_record` (which messages of a
trajectory become steps, and what their sources remember), `MapStep` is `_map_step` (which of
them a ground truth blames: by number, by a dotted pair, by round, by stage with its fallback to
a position, by round and position). Texts, components and speakers are left out, and of values that
are no integers only that they are none: a stage written as a string of digits, and a step that is
a Boolean, are not modelled.

### Benchmark

The results file of `scripts/benchmark_whowhen.py` under several invocations of it (`Procs`),
one after the other or at once, and `scripts/drop_results.py`. An invocation reads the ids in
the file (`Start`), takes the other records of its sample one by one (`NextRecord`), asks Jev
up to four times (`JevAnswers`, `JevFails`), appends a line (`AppendLine`: one write) and at the
end computes its summary from the file (`Metrics`).

`drop_results`, of which one runs at a time, reads the file (`DropRead`); its `write_text` opens
the file, which truncates it (`DropTruncate`), and writes its text from the beginning
(`DropWrite`). What is appended before the truncation is lost. What is appended after it is written
over: the lines that the text covers are gone, the one that it covers in part is `Broken`, and those
beyond it stay (`Over`); `raced` says that something was appended while `drop_results` was under
way. A summary or an invocation that reads the truncated file finds no lines, and `blind` says that
an invocation did.

A process may die anywhere: in its append it may leave a `Torn` line (`Die`), while it rewrites the
file nothing or a part of the text (`DropDies`). A Torn or a Broken line cannot be parsed, and the
code does what the model does: every later invocation fails when it reads the file. A line that is
appended is one write, and so is the text of `drop_results`: nobody reads a part of either unless
the writer died. The sample is any set of records in any order; the formulas of the metrics are left
out.

Benchmark EXTENDS WhoWhen: a record has a trajectory and a ground truth, one without steps is
passed over, and a line carries the label that its answer is compared with. BenchmarkMC holds the
records of the run.

## Runs

| run | shows | bounds |
|---|---|---|
| `run_lifecycle` | type, four row invariants, the failure step and the recommendations | two completions, analyses and repairs each (a race needs two), two components so that verdicts differ, traces of up to two steps, one category, a run created as running or as failed |
| `run_lifecycle_live` | every request is answered | the locks involve completions and analyses only: two each, one repair |
| `run_worker` | violation: an accepted analysis is never attributed | one completion, one analysis, a fair worker |
| `step_store` | type, counter bounds, atomic batches, numbering, refinement of StepLog, every request answered | two adders and two batches over two runs; batches with opposite run orders (the deadlock), with a trace-create, with a span, with and without step numbers |
| `step_totals` | violation: a lost increment | three single-event batches on one run |
| `tracer` | type, queue, order, copies, early completion, refinement of TraceLog, every call returns | three steps, so that a requeued batch may be followed by an older and a newer one; `flush_at` 1 to 3 (at once, with the first step, later); two failures (one lost reply, one more while the first request is still under way) |
| `tracer_threads` | type, what a lost step and what a copy need | two threads that record twice each, so that each may fill, copy and clear the queue while the other appends; `flush_at` 1 (every event is flushed) and 3 (both queue first); one failure |
| `pages` | type, no row twice, no run and no step number skipped | three runs with two times (a tie and an older or newer one) and both filters, three steps with two numbers, pages of one and two rows, so that a listing has up to three |
| `pages_steps` | violation: a step that no page shows | one run, three steps with two numbers |
| `benchmark` | type, no second line, no lost answer (each but for the races that the property names), complete summaries with labels that fit, every invocation ends | two invocations (one resumes the other, or both run at once), a record of each kind (one that is kept and blamed by a stage, one that is dropped and blamed by a dotted pair, one without steps), two attempts, one process that dies, one `drop_results` at a time, any number of times, with every part of its text and every rest of the lines it is written over |
| `projects` | unique names and true answers, runs of their key's project, deleted keys refused, refinement of Registry | two requests of each kind (a race needs two), the default name and another, one run that both batches name |
| `settings` | type, the selection is an option, the panel is of a selection made at rest, the page settles | two creations of projects, one of a key and one deletion by another client; three fetches (of the mount, of a selection, of a handler); one lost answer |

The requests are finite, so the behaviours end; `CHECK_DEADLOCK FALSE` says so. Symmetry is used
only in `run_lifecycle` and `projects`, whose properties are invariants, action properties and a
refinement without fairness; Registry treats the requests alike as Projects does. `Ingests` and
`RunIds` are empty in the settings run, because the page ingests nothing. `MaxSteps` bounds the
trace in RunLifecycle; it exceeds the one value (0 or 1 step) that `LastStep` treats apart.

### Properties

`RunLifecycle`: `FailedRunHasFailure`, `AttributedRunHasFailure` (a row inserted after a check, with
two writers; a run that was created as failed is excepted until a completion ends it),
`ClearedOnlyByCompletion`, `ColumnsFromAnalyses` (no column of a rolled-back analysis survives,
though updates are per column), `FailureStepInTrace` (an index computed on an old trace),
`RecommendationsNeverVanish` (an action property), `EveryRequestAnswered`.
`StepStore`: `TotalAtMostSteps` (a lost update never overcounts), `BatchAllOrNothing`,
`AutoNumbersIncrease`, `LogSpec` (which also says that it never leaves zero),
`EveryRequestAnswered`.
`Tracer`: `NothingLost` (a requeue against every failure), `RunIsNamed` (the trace-create
is the first event of the first batch to be processed, late ones included),
`CopiesNeedFailures` (a duplicate has a failed post as its cause), `CompletedWhenStored` (an
action property: without a failure a completion, and the closing of the tracer, come after every
step has been stored), `LogSpec`, `CallsReturn`.
`TracerThreads`: `LossNeedsRace` (a step is stored, queued or being flushed unless something was
queued between a copy and a clear), `CopiesNeedRaces` (a step is stored once, and once more for
each post that raised, unless two flushes overlapped; if none raised, at most once per thread; and
there are at most as many runs as threads and posts that raised).
`Pages`: `ListedOnce`, `RunsAllListed` (a run that stops matching the filter between pages is
not owed), `NumbersAllListed`.
`Benchmark`: `NoDuplicates` (a resume against crashes and drops; excepted are overlapping
invocations and one that began on the truncated file), `AnswersKept` (excepted are a death and an
append that raced), `SummaryComplete` (an action property: no answered record is left out, with
those exceptions and that of a summary read from the truncated file; and a label is a step the
ground truth names, or none where it names nothing or a stage is no number or past the steps),
`BenchmarkEnds`. Without the exceptions for the truncated file TLC finds `NoDuplicates` and
`SummaryComplete` violated.
`Projects`: `NamesAnswered` (also what a refused client was told is true), `RunsFollowTheirKey`
(even if the key is deleted before the batch commits), `RevokedKeysRefused` (an action property),
`RegistrySpec`.
`Settings`: `PanelOfSelection` (the selection is an option however loads overlap; a user who waits,
or selects a project at rest, is shown its keys), `PageSettles`. `RunLifecycle` in `run_worker`:
`AcceptedIsAttributed`, which is refuted. Each has a mutant next to the definition it changes: an
operator named for the bug and marked "Mutant" that no action uses.

### Fairness

`FairSpec` asks weak fairness of the steps of each request that has arrived: the event
loop runs every ready task, PostgreSQL grants a free lock and detects deadlocks, and the
Jev client answers or raises (it has a timeout). Weak fairness is enough because a
waiter's action is enabled continuously once the lock is free and no new request comes
for ever. `WorkerTask` is among them: the Celery worker takes what is in its queue.
Nothing is assumed of clients: creating a run, adding a step and sending a
request are not fair; nor is a crash.

In Tracer the steps inside a call (`Progress`) and the processing of the awaited request are
weakly fair: the host's thread runs, and httpx ends every post, with a reply or by its timeout
of 5 seconds. The host's calls, rejections and late requests are not fair.

In Benchmark the steps of an invocation that has begun (`Work`) are weakly fair: its process
runs and the Jev client answers or raises. Starting one, `drop_results` and a death are not.

In Settings the answers (`Page`) and the API's requests that have arrived (`Serving`) are weakly
fair: the browser runs its callbacks and the API its tasks. The user, other clients, crashes and
lost answers are not; a request whose process died counts as answered, because the browser sees
its connection end.

## Proofs

Eight modules, each named for the one it proves about (`RunLifecycleProofs`, `StepStoreProofs`,
`TracerProofs`, `TracerThreadsProofs`, `PagesProofs`, `BenchmarkProofs`, `ProjectsProofs`,
`SettingsProofs`), prove for every value of the constants that satisfies the named assumptions
(disjoint sets of requests; sentinel values outside the data; batches are non-empty sequences;
finitely many threads and records; natural bounds) what the runs check on small instances. All use
the same argument: an inductive invariant, one lemma per action, and a lemma that an action of one
request, thread or call leaves what belongs to another alone.

* RunLifecycle, `IInv`: who holds a row lock is past the flush that takes it; a load that found a
  row implies the row is there for ever; a completion that has answered wrote its rows; stored
  columns are those of answered analyses; a stored step is at most the trace. The properties alone
  are not inductive: the commit of an analysis keeps the columns it did not change, which needs what
  its load saw; and a failed status is kept by an UPDATE that skips it, which needs that the status
  it loaded had its failures row. Theorems: `TypeCorrect`, `Invariance`, `FailedRuns`,
  `FailedRunsAlways` (without the exception, if no request creates a run as failed),
  `AttributedRuns`, `ClearedRuns`, `AttributionColumns`, `FailureSteps`, `RecommendationsStay`. And
  of the locks: one is held from the statement that takes it to the commit (`LocksHeldToCommit`);
  each request can take its next step or waits for one that is at its commit and can go
  (`DeadlockFree`), so that no chain of waits, let alone a cycle, arises; and no request is back at
  a point it has left (`RequestsMoveForward`).
* StepStore, `IInv`: rows are finite in number and belong to answered requests; for each request
  (`RequestInv`) the session is empty unless it is in flight, the count it will write is at most the
  stored steps and its own (`SessionCounts`), and it writes every run it added steps to, each with a
  non-zero count, and otherwise only runs it inserts (`SessionWrites`). `SessionCounts` survives the
  commits of others because the log only grows. `SessionWrites` is what makes `SteppedRunIsCounted`
  (a run with steps has a row and a count that is not zero) inductive: a zero is written only for a
  run that the key check shows to be new. `LastRow` shows that a finite set of rows has a last one,
  from the well-foundedness of strict inclusion. Theorems: `TypeCorrect`, `Invariance`,
  `TotalsAreBounded`, `SteppedRunsAreCounted`, `BatchesAreAtomic` (with a second invariant,
  `BatchInv`: the positions added so far are the observations passed), `NumbersIncrease` (with a
  third, `OrderInv`, of the steps a batch has added as of those it has stored: the number that is
  taken next is above every uncommitted one because the autoflush has made it visible),
  `ImplementsLog` (a commit appends, everything else stutters), `DeadlocksAreBroken` (requests that
  can only wait for one another wait for locks, each held by one of them, so that the database finds
  a cycle and aborts a victim) and `RequestsMoveForward` (every step of a request shortens what it
  has left to do).
* Tracer, `IInv`: the queue, or the flush under way, is a suffix of the events (`IsSpan`) whose
  predecessors are all stored (`StoredBefore`), and every batch that is awaited or late is a stretch
  of events whose predecessors were stored when it was posted (`WellFormed`). Storing such a batch,
  at whatever time, extends a prefix by a prefix (`ServeStores`). The properties alone say nothing
  of what is still under way, which is what breaks them. Theorems: `TypeCorrect`, `Invariance`,
  `NoStepIsLost`, `RunsAreNamed`, `ImplementsLog`. Copies need more, `CInv`: the rows of a step, the
  late requests that hold it and the one that will be made of it, counted together (`Weight`), are
  at most one and one per post that raised, because a post that raises keeps its request late and
  queues its events again; the runs are counted alike. While nothing has raised, nothing is late and
  a step that is not stored is queued or in the post that is awaited (`Undisturbed`). Theorems:
  `CountInvariance`, `CopiesHaveFailures`, `CompletesWhenStored`. A call returns because `Left`, a
  number of steps, falls with each of its steps (`CallsMoveForward`), the second recording of an
  exception included, and because no wait is without an end (`WaitsCanEnd`).
* TracerThreads, `IInv`: where each thread may be (`Control`); without a race, what is queued when a
  thread clears the queue is what it copied (`Snapshots`); the runs and the threads about to make
  one are at most the threads and the failures (`RunsMade`); an event that nobody has issued is
  nowhere (`UnissuedNowhere`); unless flushes overlapped it is in one place, the queue (with the
  thread that is about to clear it) or one thread's flush, and while it is there each row of it is
  due to a failure (`InOnePlace`); without a failure its rows and the flushes that hold it number at
  most one per thread (`Copying`); without a queue it is posted once (`PostedOnce`). The two
  properties count rows only, and a batch that a thread has in hand is a row to come. Theorems:
  `Invariance`, `TypeCorrect`, `LossesNeedRaces`, `CopiesNeedOverlaps`.
* Pages, `IInv`: a row that was listed is the cursor's or before it, a row that is owed was
  listed or is behind the cursor (`RunsUpToCursor`, `StepsUpToCursor`); of steps the latter
  holds up to a twin with the same number (`HasTwin`). Uniqueness of ids makes a row count
  once on its page (`CountOnPage`), and `NewerOrder` that the runs are strictly ordered.
  Theorems: `Invariance`, `TypeCorrect`, `RowsAreListedOnce`, `NoRunIsSkipped`,
  `NoNumberIsSkipped`.

* WhoWhen: a label is no step or one of the trajectory (`MappedStepExists`), and the first of those
  the ground truth matches, if it matches any (`MappedStepMatches`; a stage that is no number or
  past the steps gives none); `StepsAreNumbered` is that `StepsOf` makes a sequence, from the
  cardinality of the messages that are steps.
* Benchmark, `IInv`: only the last line is torn, and only a death or a race leaves a line that
  cannot be parsed (`Shape`); what `drop_results` is about to write was in the file until it
  truncated it, once if nothing overlapped, is all that it should keep if nothing was appended
  meanwhile, and is of other records than what has been appended to the truncated file (`Dropping`);
  an invocation that is alone and read the whole file has in hand only records without a line, in
  the file or about to be written back (`Held`, `Alone`). `NoDuplicates` needs the last two: a line
  is added by a process that looked at the file long ago. `Slice`, `Concatenated`, `JoinedLines` and
  `OverWritten` say which lines are left when a text is written after a torn line or over others.
  `KeptLines` says what the recursive function `Kept` returns; induction over the natural numbers is
  derived from the well-foundedness of `<` (`LeastNumber`, `Induction`), since the library's own
  theorem has an operator as its parameter. Theorems: `Invariance`, `TypeCorrect`, `OneLineEach`,
  `NoAnswerLost`, `SummariesComplete`. An invocation ends because what it has left (`Left`, from the
  records it has not taken and the attempts at the one in hand) is bounded when it has begun
  (`InvocationsAreBounded`) and falls with each of its steps (`InvocationsMoveForward`); that the
  records are finite is used only there.
* Projects, `IInv`: a row has the name its request asked for and is there exactly when that was
  answered (`NamesWanted`), a key is of the project it was wanted for and a deletion that was
  answered is final (`KeysWanted`), what an ingestion resolved is its key's project even when the
  key is gone (`IngestsResolved`). Theorems: `Invariance`, `TypeCorrect`, `NamesAreAnswered`,
  `RunsAreOfTheirKey`, `RevokedKeysAreRefused`, `ImplementsRegistry`: one lemma per kind of request
  shows its steps as an operation of Registry or none. A key that is there is of a project that is
  listed (`InProject`), because projects stay.
* Settings: every step of the composition is a step of the API or leaves it alone
  (`PageImplementsApi`: `Spec => ApiSpec`), so the theorems about Projects hold beside the page
  (`PageSeesRegistry`). `PageInv` adds that a user who waits has one call, load or fetch under way
  (`OneAtATime`), that it and what is shown are of the selected project (`PanelFollows`), and that a
  load for a new project lists it (`LoadsListed`), which keeps the selection among the options.
  Theorems: `PageInvariance`, `PageTypeCorrect`, `PanelIsOfSelection`. The page settles because its
  calls, loads and fetches only move on and each of its steps moves one (`PageMovesForward`; a load
  begins with the answer to its call, so it never begins twice), and no call waits for anything but
  a commit that nothing blocks (`PageCallsCanEnd`).

Only model-checked: the liveness properties (`EveryRequestAnswered` twice, `CallsReturn`,
`BenchmarkEnds`, `PageSettles`), because fairness and ENABLED are out of the prover's reach. Their
safety halves are proved for every value of the constants: no wait is closed (an invocation of the
benchmark waits for nobody), and each step comes closer to the end. What is left to the runs is that
fair steps are then taken. The three violated properties are false, so there is nothing to prove.

## Findings

* `run_worker`: an analysis answered with 202 is never attributed, although the worker runs its
  task: the task's import of `app.db.session` finds the worker's own package
  (`celery_app.py:29`, against the comment on `attributions.py:39`).
* `step_totals`: `total_steps` loses increments (`ingest.py:156`, `steps.py:31`,
  `otlp.py:127`).
* `pages_steps`: a page of `list_steps` that ends between two steps with the same number
  loses the rest of them, because the cursor's id is dropped (`steps.py:50`,
  `pagination.py:32`, against `README.md:78`).

Also noticed, and left without a run:

* a run that is completed as failed, then completed, then failed again keeps `failure_detected`
  FALSE: `complete_run` inserts a missing row and never sets the flag of one that is there
  (`runs.py:85`, against the comment on line 82);
* two overlapping analyses of a run that has an attribution can leave a row that neither of them
  returned, because an `UPDATE` carries the columns that changed (`attributions.py:69`);
* `Step.input["spanId"].astext` does not exist for the generic JSON type (`otlp.py:113`,
  `models.py:68`), so an export with a spanId fails; with tracing enabled, `main.py:28` names an
  exporter `otlp`, over the module whose router line 116 includes;
* nothing flushes the tracer's queue in the background (`tracer.py:134`, against `tracer.py:1`):
  the last steps of a host that neither flushes nor closes are not sent;
* the adapter's docstring (`whowhen_adapter.py:21`) states a rule for stages that the range check
  and the fallback to a position (lines 190 to 201) do not follow: a stage past the steps gives no
  label even if a step says that stage, which `LabelFits` states as an exception;
* `drop_results` truncates the file before it writes it (`drop_results.py:13`): an invocation that
  reads the file in between (`benchmark_whowhen.py:202`) asks about the kept records again and
  appends second lines of them, and a summary read in between (line 227) leaves them out; a line
  appended in between is written over, and what is left of it may make every later invocation fail;
* the run explorer sends a missing filter as the text `undefined`, and its Clear button reloads
  with the status of the render before it.

## Not modelled, and the plan

* Component names (`packages/schemas`, `schemas/step.py`, the tracer, OTLP): functions of strings
  without state, whose result depends on substrings and on the order of a dictionary. A model
  would be the same tables again.
* Rate limiter (`core/limiter.py`): the windows are the library's, in each process's memory; the
  code names the limits only.
* Authentication: tokens of a demo user, without state.
* Dashboard pages other than the settings: they load and show; no state of theirs outlives a load.
* Analytics queries (they read what RunLifecycle models), the trace parser (formatting), seeds,
  migrations other than the default project's, deployment.
* What the questions sent to Jev say, and the external API itself: any answer or an exception.

What could come next: a host that goes on after `close` (its posts raise), and a batch that the API
always rejects, in Tracer; several trace-create events of one batch in Projects; the run page, which
loads once more after a 202, composed with RunLifecycle.
