---------------------------- MODULE RunLifecycle ----------------------------
(***************************************************************************)
(* One run of JevTrace in the database, and the requests that complete it, *)
(* analyse it and ask for repairs, all in flight at once.                  *)
(*                                                                         *)
(* A handler is a sequence of database statements with an await between    *)
(* any two, so every read is a step of its own and what it returned may be *)
(* stale when it is used.  PostgreSQL runs the transactions at READ        *)
(* COMMITTED.  SQLAlchemy flushes a pending row change before the next     *)
(* SELECT, which takes the row lock (or claims the unique key) there and   *)
(* holds it until the commit, and its UPDATE carries only the columns      *)
(* whose value differs from the one that was loaded.                       *)
(***************************************************************************)
EXTENDS Naturals

CONSTANTS
    Completes,       \* POST /runs/{id}/complete requests
    Analyses,        \* POST /runs/{id}/analyze requests
    Repairs,         \* POST /runs/{id}/recommendations requests
    Components,      \* values of responsible_component
    Categories,      \* values of failure_category
    CreateStatuses,  \* statuses a request creating the run may carry
    MaxSteps,        \* bound on the steps stored for the run
    NoRow,           \* the row does not exist
    NoOne            \* nobody holds the lock

Requests == Completes \cup Analyses \cup Repairs

Status == {"running", "completed", "failed"}

RunRow == [status: Status, ended: BOOLEAN]

FailureRow == [detected: BOOLEAN, reason: Categories \cup {"run marked failed"}]

LastStep(n) == IF n = 0 THEN 1 ELSE n

(* Mutant: enumerate(steps, start=1) continued past the last step. *)
VerdictsPastEnd(n) ==
    [component: Components, category: Categories, step: 1 .. n + 1]

(* What jev_service.analyze_trace returns for a trace of n steps: Jev's two *)
(* choices and the index of a failed step, 1 when there is none.            *)
Verdicts(n) ==
    [component: Components, category: Categories, step: 1 .. LastStep(n)]

AttributionRow == [component: Components, category: Categories, step: Nat \ {0}]

ASSUME DisjointRequests ==
    /\ Completes \cap Analyses = {}
    /\ Completes \cap Repairs = {}
    /\ Analyses \cap Repairs = {}

ASSUME NoOneAssumption == NoOne \notin Requests

ASSUME NoRowAssumption == NoRow \notin RunRow \cup FailureRow \cup AttributionRow

ASSUME CreateStatusesAssumption == CreateStatuses \subseteq Status

ASSUME MaxStepsAssumption == MaxSteps \in Nat

VARIABLES
    run,         \* the row of table runs, or NoRow
    trace,       \* number of rows of table steps for the run
    failure,     \* the row of table failures, or NoRow
    attr,        \* the row of table attributions, or NoRow
    recs,        \* the rows of table recommendations, named by their request
    runLock,     \* the transaction that has updated the runs row
    attrLock,    \* the transaction that has written the attributions row
    pc,          \* how far each request has come
    payload,     \* the status each complete request carries
    readStatus,  \* run.status as each complete request loaded it
    snapshot,    \* number of steps each analyze request selected
    verdict,     \* Jev's answer to each analyze request
    readAttr,    \* the attribution each analyze request loaded
    sawFailure,  \* whether each request's SELECT found a failures row
    sawRecs      \* the recommendations each repair request selected

tables       == <<run, trace, failure, attr, recs>>
locks        == <<runLock, attrLock>>
completeVars == <<payload, readStatus>>
analyzeVars  == <<snapshot, verdict, readAttr>>
vars == <<tables, locks, pc, completeVars, analyzeVars, sawFailure, sawRecs>>

(* How a request ends; "accepted" leaves the analysis to the worker, which  *)
(* has "abandoned" it when its task has failed.                             *)
Outcomes == {"ok", "missing", "error", "accepted", "abandoned"}

InFlight(r) == pc[r] \notin Outcomes \cup {"idle"}

Advance(r, label) == pc' = [pc EXCEPT ![r] = label]

(* Mutant: the end of a transaction keeps its row lock. *)
LockKept(lock, r) == lock

(* The end of r's transaction. *)
Unlocked(lock, r) == IF lock = r THEN NoOne ELSE lock

(* The columns that UPDATE sets, over the row as it is at the commit. *)
UpdatedColumns(old, new, row) ==
    [component |-> IF new.component # old.component
                   THEN new.component ELSE row.component,
     category  |-> IF new.category # old.category
                   THEN new.category ELSE row.category,
     step      |-> IF new.step # old.step THEN new.step ELSE row.step]

(* The transaction inserts a failures row that another one has committed    *)
(* since its SELECT: unique violation on run_id.                            *)
FailureTaken(r) == ~sawFailure[r] /\ failure # NoRow

Init ==
    /\ run = NoRow
    /\ trace = 0
    /\ failure = NoRow
    /\ attr = NoRow
    /\ recs = {}
    /\ runLock = NoOne
    /\ attrLock = NoOne
    /\ pc = [r \in Requests |-> "idle"]
    /\ payload = [c \in Completes |-> "running"]
    /\ readStatus = [c \in Completes |-> "running"]
    /\ snapshot = [a \in Analyses |-> 0]
    /\ verdict = [a \in Analyses |-> NoRow]
    /\ readAttr = [a \in Analyses |-> NoRow]
    /\ sawFailure = [r \in Completes \cup Analyses |-> FALSE]
    /\ sawRecs = [p \in Repairs |-> {}]

(***************************************************************************)
(* The run and its steps.                                                  *)
(***************************************************************************)

(* create_run, or a trace-create of the ingestion endpoint, which takes the *)
(* status from the event.                                                   *)
CreateRun ==
    /\ run = NoRow
    /\ \E s \in CreateStatuses : run' = [status |-> s, ended |-> FALSE]
    /\ UNCHANGED <<trace, failure, attr, recs, locks, pc, completeVars,
                   analyzeVars, sawFailure, sawRecs>>

(* The commit of an add_step request: it updates runs.total_steps, so it    *)
(* waits for the row lock.  StepStore models the counter.                   *)
AddStep ==
    /\ run # NoRow
    /\ trace < MaxSteps
    /\ runLock = NoOne
    /\ trace' = trace + 1
    /\ UNCHANGED <<run, failure, attr, recs, locks, pc, completeVars,
                   analyzeVars, sawFailure, sawRecs>>

(***************************************************************************)
(* complete_run.                                                           *)
(***************************************************************************)

(* session.get(Run): 404 without a row. *)
CompleteLoad(c) ==
    /\ pc[c] = "idle"
    /\ \/ /\ run = NoRow
          /\ Advance(c, "missing")
          /\ UNCHANGED completeVars
       \/ /\ run # NoRow
          /\ \E s \in Status :
                /\ payload' = [payload EXCEPT ![c] = s]
                /\ Advance(c, IF s = "running" THEN "commit" ELSE "flush")
          /\ readStatus' = [readStatus EXCEPT ![c] = run.status]
    /\ UNCHANGED <<tables, locks, analyzeVars, sawFailure, sawRecs>>

(* select(Failure): the autoflush before it issues the UPDATE of the run.   *)
CompleteSelectFailure(c) ==
    /\ pc[c] = "flush"
    /\ runLock = NoOne
    /\ runLock' = c
    /\ sawFailure' = [sawFailure EXCEPT ![c] = failure # NoRow]
    /\ Advance(c, "commit")
    /\ UNCHANGED <<tables, attrLock, completeVars, analyzeVars, sawRecs>>

(* Mutant: "failed" leaves the failures table to analyze_run. *)
CompletedWithoutInsert(c) ==
    IF payload[c] = "completed" /\ sawFailure[c]
    THEN [failure EXCEPT !.detected = FALSE]
    ELSE failure

(* Mutant: the test for "completed" is lost, any completion clears the flag. *)
CompletedAlwaysClears(c) ==
    CASE payload[c] = "failed" /\ ~sawFailure[c] ->
            [detected |-> TRUE, reason |-> "run marked failed"]
      [] sawFailure[c] -> [failure EXCEPT !.detected = FALSE]
      [] OTHER -> failure

(* Mutant: the status of the request becomes the reason of the failure. *)
CompletedStatusAsReason(c) ==
    IF payload[c] = "failed" /\ ~sawFailure[c]
    THEN [detected |-> TRUE, reason |-> payload[c]]
    ELSE failure

(* The failures row a completion inserts (failed) or updates (completed).   *)
CompletedFailure(c) ==
    CASE payload[c] = "failed" /\ ~sawFailure[c] ->
            [detected |-> TRUE, reason |-> "run marked failed"]
      [] payload[c] = "completed" /\ sawFailure[c] ->
            [failure EXCEPT !.detected = FALSE]
      [] OTHER -> failure

(* session.commit.  An INSERT into failures loses to a row committed since  *)
(* the SELECT (unique run_id): the transaction rolls back and the client    *)
(* gets a 500.                                                              *)
CompleteCommit(c) ==
    /\ pc[c] = "commit"
    /\ runLock \in {c, NoOne}
    /\ IF payload[c] = "failed" /\ FailureTaken(c)
       THEN /\ Advance(c, "error")
            /\ UNCHANGED <<run, failure>>
       ELSE /\ Advance(c, "ok")
            /\ run' = [status |-> IF payload[c] # readStatus[c]
                                  THEN payload[c] ELSE run.status,
                       ended  |-> TRUE]
            /\ failure' = CompletedFailure(c)
    /\ runLock' = NoOne
    /\ UNCHANGED <<trace, attr, recs, attrLock, completeVars, analyzeVars,
                   sawFailure, sawRecs>>

(***************************************************************************)
(* analyze_run, with USE_WORKER and its synchronous path.                  *)
(***************************************************************************)

(* session.get(Run), then select(Step). *)
AnalyzeLoad(a) ==
    /\ pc[a] = "idle"
    /\ IF run = NoRow
       THEN Advance(a, "missing") /\ UNCHANGED snapshot
       ELSE Advance(a, "jev") /\ snapshot' = [snapshot EXCEPT ![a] = trace]
    /\ UNCHANGED <<tables, locks, completeVars, verdict, readAttr, sawFailure,
                   sawRecs>>

(* USE_WORKER, where the worker's package can be imported and the broker    *)
(* takes the task: the client gets a 202 with a pending answer.  Any other  *)
(* outcome of enqueue_analyze is the synchronous path.                      *)
AnalyzeEnqueued(a) ==
    /\ pc[a] = "jev"
    /\ Advance(a, "accepted")
    /\ UNCHANGED <<tables, locks, completeVars, analyzeVars, sawFailure, sawRecs>>

(* The worker's analyze_run: `app` is the worker's own package there, so    *)
(* the import of app.db.session raises, before the session is opened and    *)
(* outside the try that retries.  The failed task is acknowledged.          *)
WorkerTask(a) ==
    /\ pc[a] = "accepted"
    /\ Advance(a, "abandoned")
    /\ UNCHANGED <<tables, locks, completeVars, analyzeVars, sawFailure, sawRecs>>

(* await jev_service.analyze_trace returns. *)
AnalyzeAnswered(a) ==
    /\ pc[a] = "jev"
    /\ \E v \in Verdicts(snapshot[a]) : verdict' = [verdict EXCEPT ![a] = v]
    /\ Advance(a, "select")
    /\ UNCHANGED <<tables, locks, completeVars, snapshot, readAttr, sawFailure,
                   sawRecs>>

(* select(Attribution). *)
AnalyzeSelectAttribution(a) ==
    /\ pc[a] = "select"
    /\ readAttr' = [readAttr EXCEPT ![a] = attr]
    /\ Advance(a, "flush")
    /\ UNCHANGED <<tables, locks, completeVars, snapshot, verdict, sawFailure,
                   sawRecs>>

(* select(Failure): the autoflush before it issues the INSERT or the UPDATE *)
(* of the attribution, or nothing when no column differs.                   *)
AnalyzeSelectFailure(a) ==
    /\ pc[a] = "flush"
    /\ \/ /\ readAttr[a] = verdict[a]
          /\ UNCHANGED attrLock
          /\ Advance(a, "commit")
       \/ /\ readAttr[a] # verdict[a]
          /\ attrLock = NoOne
          /\ readAttr[a] = NoRow => attr = NoRow
          /\ attrLock' = a
          /\ Advance(a, "commit")
       \/ /\ readAttr[a] = NoRow       \* unique violation: 500
          /\ attrLock = NoOne
          /\ attr # NoRow
          /\ UNCHANGED attrLock
          /\ Advance(a, "error")
    /\ sawFailure' = [sawFailure EXCEPT ![a] = failure # NoRow]
    /\ UNCHANGED <<tables, runLock, completeVars, analyzeVars, sawRecs>>

(* The attributions row as the commit leaves it. *)
WrittenAttribution(a) ==
    IF readAttr[a] = NoRow
    THEN verdict[a]
    ELSE UpdatedColumns(readAttr[a], verdict[a], attr)

(* Mutant: a failures row is left to complete_run. *)
AnalyzedWithoutFailure(a) == failure

(* "Ensure failures row": the one that is there, or a new one. *)
AnalyzedFailure(a) ==
    IF sawFailure[a]
    THEN failure
    ELSE [detected |-> TRUE, reason |-> verdict[a].category]

(* Mutant: the attribution is committed before the failures row is tried. *)
AnalyzeCommitTwice(a) ==
    /\ pc[a] = "commit"
    /\ Advance(a, IF FailureTaken(a) THEN "error" ELSE "ok")
    /\ attr' = WrittenAttribution(a)
    /\ failure' = IF FailureTaken(a) THEN failure ELSE AnalyzedFailure(a)
    /\ attrLock' = Unlocked(attrLock, a)
    /\ UNCHANGED <<run, trace, recs, runLock, completeVars, analyzeVars,
                   sawFailure, sawRecs>>

(* session.commit: both rows, or on a unique violation neither. *)
AnalyzeCommit(a) ==
    /\ pc[a] = "commit"
    /\ IF FailureTaken(a)
       THEN /\ Advance(a, "error")
            /\ UNCHANGED <<attr, failure>>
       ELSE /\ Advance(a, "ok")
            /\ attr' = WrittenAttribution(a)
            /\ failure' = AnalyzedFailure(a)
    /\ attrLock' = Unlocked(attrLock, a)
    /\ UNCHANGED <<run, trace, recs, runLock, completeVars, analyzeVars,
                   sawFailure, sawRecs>>

(***************************************************************************)
(* generate_recommendations.                                               *)
(***************************************************************************)

(* select(Attribution): 404 without a row. *)
RepairLoad(p) ==
    /\ pc[p] = "idle"
    /\ Advance(p, IF attr = NoRow THEN "missing" ELSE "jev")
    /\ UNCHANGED <<tables, locks, completeVars, analyzeVars, sawFailure, sawRecs>>

(* await jev_service.recommend_repair returns its one action; then          *)
(* select(Recommendation).                                                  *)
RepairSelect(p) ==
    /\ pc[p] = "jev"
    /\ sawRecs' = [sawRecs EXCEPT ![p] = recs]
    /\ Advance(p, "commit")
    /\ UNCHANGED <<tables, locks, completeVars, analyzeVars, sawFailure>>

(* Mutant: the deletions and the new row are committed one after the other. *)
RepairCommitTwice(p) ==
    /\ pc[p] = "commit"
    /\ IF recs \cap sawRecs[p] # {}
       THEN recs' = recs \ sawRecs[p] /\ UNCHANGED pc
       ELSE recs' = recs \cup {p} /\ Advance(p, "ok")
    /\ UNCHANGED <<run, trace, failure, attr, locks, completeVars, analyzeVars,
                   sawFailure, sawRecs>>

(* Delete every selected row (one already gone only warns), insert one.     *)
RepairCommit(p) ==
    /\ pc[p] = "commit"
    /\ recs' = (recs \ sawRecs[p]) \cup {p}
    /\ Advance(p, "ok")
    /\ UNCHANGED <<run, trace, failure, attr, locks, completeVars, analyzeVars,
                   sawFailure, sawRecs>>

(***************************************************************************)
(* Failures.                                                               *)
(***************************************************************************)

(* The call to Jev raises: 500. *)
JevFails(r) ==
    /\ r \in Analyses \cup Repairs
    /\ pc[r] = "jev"
    /\ Advance(r, "error")
    /\ UNCHANGED <<tables, locks, completeVars, analyzeVars, sawFailure, sawRecs>>

(* The worker process serving r dies: the connection closes, the            *)
(* transaction rolls back and its locks go.                                 *)
Crash(r) ==
    /\ InFlight(r)
    /\ Advance(r, "error")
    /\ runLock' = Unlocked(runLock, r)
    /\ attrLock' = Unlocked(attrLock, r)
    /\ UNCHANGED <<tables, completeVars, analyzeVars, sawFailure, sawRecs>>

CompleteStep(c) ==
    CompleteLoad(c) \/ CompleteSelectFailure(c) \/ CompleteCommit(c)

AnalyzeStep(a) ==
    \/ AnalyzeLoad(a)
    \/ AnalyzeEnqueued(a)
    \/ AnalyzeAnswered(a)
    \/ AnalyzeSelectAttribution(a)
    \/ AnalyzeSelectFailure(a)
    \/ AnalyzeCommit(a)

RepairStep(p) == RepairLoad(p) \/ RepairSelect(p) \/ RepairCommit(p)

Next ==
    \/ CreateRun
    \/ AddStep
    \/ \E c \in Completes : CompleteStep(c)
    \/ \E a \in Analyses : AnalyzeStep(a) \/ WorkerTask(a)
    \/ \E p \in Repairs : RepairStep(p)
    \/ \E r \in Requests : JevFails(r) \/ Crash(r)

Spec == Init /\ [][Next]_vars

(* The event loop runs every ready task, PostgreSQL hands a released lock   *)
(* to a waiter, Jev's client answers or raises and a Celery worker takes    *)
(* every task of its queue.  Nothing makes a client create the run, add a   *)
(* step or call again.                                                      *)
Fairness ==
    /\ \A c \in Completes : WF_vars(CompleteStep(c))
    /\ \A a \in Analyses : WF_vars(AnalyzeStep(a) \/ JevFails(a))
    /\ \A a \in Analyses : WF_vars(WorkerTask(a))
    /\ \A p \in Repairs : WF_vars(RepairStep(p) \/ JevFails(p))

FairSpec == Spec /\ Fairness

(***************************************************************************)
(* Properties.                                                             *)
(***************************************************************************)

TypeOK ==
    /\ run \in RunRow \cup {NoRow}
    /\ trace \in 0 .. MaxSteps
    /\ failure \in FailureRow \cup {NoRow}
    /\ attr \in AttributionRow \cup {NoRow}
    /\ recs \in SUBSET Repairs
    /\ runLock \in Completes \cup {NoOne}
    /\ attrLock \in Analyses \cup {NoOne}
    /\ pc \in [Requests -> Outcomes \cup
                  {"idle", "jev", "select", "flush", "commit"}]
    /\ payload \in [Completes -> Status]
    /\ readStatus \in [Completes -> Status]
    /\ snapshot \in [Analyses -> 0 .. MaxSteps]
    /\ verdict \in [Analyses -> AttributionRow \cup {NoRow}]
    /\ readAttr \in [Analyses -> AttributionRow \cup {NoRow}]
    /\ sawFailure \in [Completes \cup Analyses -> BOOLEAN]
    /\ sawRecs \in [Repairs -> SUBSET Repairs]

(* A run that was completed and whose status is failed has a failures row,  *)
(* whatever analyses and completions race with the one that failed it       *)
(* (complete_run: "Auto-create failure row"), also when the request that    *)
(* created it said failed: only until its first completion has it none.     *)
FailedRunHasFailure ==
    run # NoRow /\ run.status = "failed" => failure # NoRow \/ ~run.ended

(* An attributed run has a failures row: analyze_run commits both or, when  *)
(* the insert of either loses a race, neither ("Ensure failures row").      *)
AttributedRunHasFailure == attr # NoRow => failure # NoRow

(* Only a completion as "completed" clears failure_detected; an analysis or *)
(* a completion as failed that loaded the row earlier never does.           *)
ClearedOnlyByCompletion ==
    failure # NoRow /\ ~failure.detected =>
        \E c \in Completes : pc[c] = "ok" /\ payload[c] = "completed"

(* Every column of the attribution is one an analysis that answered success *)
(* got from Jev: an analysis that ends in an error leaves nothing behind,   *)
(* not even where another one's UPDATE skipped an unchanged column.         *)
ColumnsFromAnalyses ==
    attr # NoRow =>
        LET answers == {verdict[a] : a \in {x \in Analyses : pc[x] = "ok"}} IN
        /\ \E v \in answers : v.component = attr.component
        /\ \E v \in answers : v.category = attr.category
        /\ \E v \in answers : v.step = attr.step

(* failure_step is an index into the steps the run still has, although it   *)
(* was computed before the await on a trace that may have grown since and   *)
(* its column may come from an older analysis than the others.              *)
FailureStepInTrace ==
    attr # NoRow => attr.step <= LastStep(trace)

(* Recommendations, once there, are never gone: the replacement deletes and *)
(* inserts in one transaction, also when two of them overlap.               *)
RecommendationsNeverVanish == [][recs # {} => recs' # {}]_recs

(* Every request that reaches the API is answered: no pair of requests      *)
(* waits for each other's row locks and a crash frees those it held.        *)
EveryRequestAnswered ==
    \A r \in Requests : pc[r] # "idle" ~> pc[r] \in Outcomes

(* What analyze_run says with its 202: "attribution will be available after *)
(* worker completes".  A request that was accepted leads to an attribution. *)
AcceptedIsAttributed ==
    \A a \in Analyses : pc[a] = "accepted" ~> attr # NoRow
=============================================================================
