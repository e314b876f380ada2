------------------------- MODULE RunLifecycleProofs -------------------------
(***************************************************************************)
(* Proofs that RunLifecycle keeps its safety invariants for any number of  *)
(* requests, steps and verdicts.                                           *)
(***************************************************************************)
EXTENDS RunLifecycle, TLAPS

(* A transaction never relies on a row that may be gone: what it has read   *)
(* as present stays present, as no request deletes a row of runs, failures  *)
(* or attributions.                                                         *)
ReadRowsStay ==
    /\ \A c \in Completes : pc[c] \in {"flush", "commit"} => run # NoRow
    /\ \A r \in Completes \cup Analyses : sawFailure[r] => failure # NoRow
    /\ \A a \in Analyses : readAttr[a] # NoRow => attr # NoRow

(* An analysis has Jev's answer when it comes to writing it. *)
VerdictReady ==
    \A a \in Analyses : pc[a] \in {"select", "flush", "commit"} => verdict[a] # NoRow

IInv == TypeOK /\ ReadRowsStay /\ VerdictReady

USE DisjointRequests, NoOneAssumption, NoRowAssumption, CreateStatusesAssumption,
    MaxStepsAssumption

LEMMA InitIInv == Init => IInv
  BY DEF Init, IInv, TypeOK, ReadRowsStay, VerdictReady, Requests, Outcomes, Status

LEMMA CompleteLoadIInv ==
  ASSUME IInv, NEW c \in Completes, CompleteLoad(c)
  PROVE  IInv'
  BY DEF IInv, TypeOK, ReadRowsStay, VerdictReady, CompleteLoad, tables, locks,
         analyzeVars, completeVars, Advance, Requests, Outcomes, RunRow, Status

LEMMA CompleteSelectFailureIInv ==
  ASSUME IInv, NEW c \in Completes, CompleteSelectFailure(c)
  PROVE  IInv'
  BY DEF IInv, TypeOK, ReadRowsStay, VerdictReady, CompleteSelectFailure, tables,
         analyzeVars, completeVars, Advance, Requests, Outcomes

(* What a completion writes is a row, and it writes one over a row. *)
LEMMA CompletedFailureRow ==
  ASSUME IInv, NEW c \in Completes
  PROVE  /\ CompletedFailure(c) \in FailureRow \cup {NoRow}
         /\ failure # NoRow => CompletedFailure(c) # NoRow
  <1>1. CASE payload[c] = "failed" /\ ~sawFailure[c]
    <2> DEFINE marked == [detected |-> TRUE, reason |-> "run marked failed"]
    <2>1. CompletedFailure(c) = marked
      BY <1>1 DEF CompletedFailure
    <2>2. marked \in FailureRow
      BY DEF FailureRow
    <2> QED
      BY <2>1, <2>2
  <1>2. CASE payload[c] = "completed" /\ sawFailure[c]
    <2>1. failure \in FailureRow
      BY <1>2 DEF IInv, TypeOK, ReadRowsStay
    <2>2. [failure EXCEPT !.detected = FALSE] \in FailureRow
      BY <2>1 DEF FailureRow
    <2>3. CompletedFailure(c) = [failure EXCEPT !.detected = FALSE]
      BY <1>2 DEF CompletedFailure
    <2> QED
      BY <2>2, <2>3
  <1>3. CASE /\ ~(payload[c] = "failed" /\ ~sawFailure[c])
             /\ ~(payload[c] = "completed" /\ sawFailure[c])
    <2>1. CompletedFailure(c) = failure
      BY <1>3 DEF CompletedFailure
    <2> QED
      BY <2>1 DEF IInv, TypeOK
  <1> QED
    BY <1>1, <1>2, <1>3

LEMMA CompleteCommitIInv ==
  ASSUME IInv, NEW c \in Completes, CompleteCommit(c)
  PROVE  IInv'
  <1>1. run' \in RunRow
    <2>1. run \in RunRow
      BY DEF IInv, TypeOK, ReadRowsStay, CompleteCommit
    <2>2. CASE run' = run
      BY <2>1, <2>2
    <2>3. CASE run' = [status |-> IF payload[c] # readStatus[c]
                                  THEN payload[c] ELSE run.status,
                       ended  |-> TRUE]
      <3>1. payload[c] \in Status /\ run.status \in Status
        BY <2>1 DEF IInv, TypeOK, RunRow
      <3> QED
        BY <2>3, <3>1 DEF RunRow
    <2> QED
      BY <2>2, <2>3 DEF CompleteCommit
  <1>2. failure' \in FailureRow \cup {NoRow} /\ (failure # NoRow => failure' # NoRow)
    BY CompletedFailureRow DEF IInv, TypeOK, CompleteCommit
  <1> QED
    BY <1>1, <1>2
    DEF IInv, TypeOK, ReadRowsStay, VerdictReady, CompleteCommit, completeVars,
        analyzeVars, Advance, Requests, Outcomes

LEMMA AnalyzeLoadIInv ==
  ASSUME IInv, NEW a \in Analyses, AnalyzeLoad(a)
  PROVE  IInv'
  BY DEF IInv, TypeOK, ReadRowsStay, VerdictReady, AnalyzeLoad, tables, locks,
         analyzeVars, completeVars, Advance, Requests, Outcomes

LEMMA WorkerIInv ==
  ASSUME IInv, NEW a \in Analyses, AnalyzeEnqueued(a) \/ WorkerTask(a)
  PROVE  IInv'
  BY DEF IInv, TypeOK, ReadRowsStay, VerdictReady, AnalyzeEnqueued, WorkerTask,
         tables, locks, analyzeVars, completeVars, Advance, Requests, Outcomes

LEMMA AnalyzeAnsweredIInv ==
  ASSUME IInv, NEW a \in Analyses, AnalyzeAnswered(a)
  PROVE  IInv'
  BY DEF IInv, TypeOK, ReadRowsStay, VerdictReady, AnalyzeAnswered, tables, locks,
         completeVars, Advance, Requests, Outcomes, Verdicts, LastStep, AttributionRow

LEMMA AnalyzeSelectAttributionIInv ==
  ASSUME IInv, NEW a \in Analyses, AnalyzeSelectAttribution(a)
  PROVE  IInv'
  BY DEF IInv, TypeOK, ReadRowsStay, VerdictReady, AnalyzeSelectAttribution, tables,
         locks, completeVars, Advance, Requests, Outcomes

LEMMA AnalyzeSelectFailureIInv ==
  ASSUME IInv, NEW a \in Analyses, AnalyzeSelectFailure(a)
  PROVE  IInv'
  BY DEF IInv, TypeOK, ReadRowsStay, VerdictReady, AnalyzeSelectFailure, tables,
         locks, completeVars, analyzeVars, Advance, Requests, Outcomes

(* What an analysis writes is a row, also when only some columns change. *)
LEMMA WrittenAttributionRow ==
  ASSUME IInv, NEW a \in Analyses, pc[a] = "commit"
  PROVE  WrittenAttribution(a) \in AttributionRow
  <1>1. verdict[a] \in AttributionRow
    BY DEF IInv, TypeOK, VerdictReady
  <1>2. CASE readAttr[a] = NoRow
    BY <1>1, <1>2 DEF WrittenAttribution
  <1>3. CASE readAttr[a] # NoRow
    <2>1. attr \in AttributionRow
      BY <1>3 DEF IInv, TypeOK, ReadRowsStay
    <2>2. UpdatedColumns(readAttr[a], verdict[a], attr) \in AttributionRow
      BY <1>1, <2>1 DEF UpdatedColumns, AttributionRow
    <2> QED
      BY <1>3, <2>2 DEF WrittenAttribution
  <1> QED
    BY <1>2, <1>3

LEMMA AnalyzedFailureRow ==
  ASSUME IInv, NEW a \in Analyses, pc[a] = "commit"
  PROVE  AnalyzedFailure(a) \in FailureRow
  BY DEF IInv, TypeOK, VerdictReady, ReadRowsStay, AnalyzedFailure, FailureRow,
         AttributionRow

LEMMA AnalyzeCommitIInv ==
  ASSUME IInv, NEW a \in Analyses, AnalyzeCommit(a)
  PROVE  IInv'
  <1>1. attr' \in AttributionRow \cup {NoRow} /\ (attr # NoRow => attr' # NoRow)
    BY WrittenAttributionRow DEF IInv, TypeOK, AnalyzeCommit
  <1>2. failure' \in FailureRow \cup {NoRow} /\ (failure # NoRow => failure' # NoRow)
    BY AnalyzedFailureRow DEF IInv, TypeOK, AnalyzeCommit
  <1>3. attrLock' \in Analyses \cup {NoOne}
    BY DEF IInv, TypeOK, AnalyzeCommit, Unlocked
  <1> QED
    BY <1>1, <1>2, <1>3
    DEF IInv, TypeOK, ReadRowsStay, VerdictReady, AnalyzeCommit, completeVars,
        analyzeVars, Advance, Requests, Outcomes

LEMMA RepairIInv ==
  ASSUME IInv, NEW p \in Repairs, RepairStep(p)
  PROVE  IInv'
  <1>1. CASE RepairLoad(p)
    BY <1>1 DEF IInv, TypeOK, ReadRowsStay, VerdictReady, RepairLoad, tables, locks,
                completeVars, analyzeVars, Advance, Requests, Outcomes
  <1>2. CASE RepairSelect(p)
    BY <1>2 DEF IInv, TypeOK, ReadRowsStay, VerdictReady, RepairSelect, tables, locks,
                completeVars, analyzeVars, Advance, Requests, Outcomes
  <1>3. CASE RepairCommit(p)
    BY <1>3 DEF IInv, TypeOK, ReadRowsStay, VerdictReady, RepairCommit, locks,
                completeVars, analyzeVars, Advance, Requests, Outcomes
  <1> QED
    BY <1>1, <1>2, <1>3 DEF RepairStep

LEMMA FaultIInv ==
  ASSUME IInv, NEW r \in Requests, JevFails(r) \/ Crash(r)
  PROVE  IInv'
  <1>1. CASE JevFails(r)
    BY <1>1 DEF IInv, TypeOK, ReadRowsStay, VerdictReady, JevFails, tables, locks,
                completeVars, analyzeVars, Advance, Requests, Outcomes
  <1>2. CASE Crash(r)
    BY <1>2 DEF IInv, TypeOK, ReadRowsStay, VerdictReady, Crash, Unlocked, tables,
                completeVars, analyzeVars, Advance, Requests, Outcomes
  <1> QED
    BY <1>1, <1>2

LEMMA NextIInv == IInv /\ [Next]_vars => IInv'
  <1> SUFFICES ASSUME IInv, [Next]_vars
               PROVE  IInv'
    OBVIOUS
  <1>1. CASE CreateRun
    BY <1>1 DEF IInv, TypeOK, ReadRowsStay, VerdictReady, CreateRun, locks,
                completeVars, analyzeVars, RunRow
  <1>2. CASE AddStep
    BY <1>2 DEF IInv, TypeOK, ReadRowsStay, VerdictReady, AddStep, locks,
                completeVars, analyzeVars
  <1>3. ASSUME NEW c \in Completes, CompleteStep(c) PROVE IInv'
    BY <1>3, CompleteLoadIInv, CompleteSelectFailureIInv, CompleteCommitIInv
    DEF CompleteStep
  <1>4. ASSUME NEW a \in Analyses, AnalyzeStep(a) \/ WorkerTask(a) PROVE IInv'
    BY <1>4, AnalyzeLoadIInv, WorkerIInv, AnalyzeAnsweredIInv,
       AnalyzeSelectAttributionIInv, AnalyzeSelectFailureIInv, AnalyzeCommitIInv
    DEF AnalyzeStep
  <1>5. ASSUME NEW p \in Repairs, RepairStep(p) PROVE IInv'
    BY <1>5, RepairIInv
  <1>6. ASSUME NEW r \in Requests, JevFails(r) \/ Crash(r) PROVE IInv'
    BY <1>6, FaultIInv
  <1>7. CASE UNCHANGED vars
    BY <1>7 DEF IInv, TypeOK, ReadRowsStay, VerdictReady, vars, tables, locks,
                completeVars, analyzeVars
  <1> QED
    BY <1>1, <1>2, <1>3, <1>4, <1>5, <1>6, <1>7 DEF Next

(* Whatever is in flight, every variable of RunLifecycle stays in its type. *)
THEOREM TypeCorrect == Spec => []TypeOK
  <1>1. IInv => TypeOK
    BY DEF IInv
  <1> QED
    BY InitIInv, NextIInv, <1>1, PTL DEF Spec

(* The locks, payloads and rows of the handlers stay as IInv says.          *)
THEOREM Invariance == Spec => []IInv
  BY InitIInv, NextIInv, PTL DEF Spec
-----------------------------------------------------------------------------
(* Only the two commits write the failures and the attributions row. *)
LEMMA OnlyCommitsWrite ==
  ASSUME [Next]_vars
  PROVE  \/ UNCHANGED <<failure, attr>>
         \/ \E c \in Completes : CompleteCommit(c)
         \/ \E a \in Analyses : AnalyzeCommit(a)
  BY DEF Next, vars, tables, CreateRun, AddStep, CompleteStep, CompleteLoad,
         CompleteSelectFailure, AnalyzeStep, AnalyzeLoad, AnalyzeEnqueued,
         WorkerTask, AnalyzeAnswered, AnalyzeSelectAttribution, AnalyzeSelectFailure,
         RepairStep, RepairLoad, RepairSelect, RepairCommit, JevFails, Crash

(* An attributed run has a failures row: the analysis that inserts the      *)
(* attribution commits with the failures row it found or a new one.         *)
LEMMA AttributedStep ==
  ASSUME IInv, AttributedRunHasFailure, [Next]_vars
  PROVE  AttributedRunHasFailure'
  <1>1. CASE UNCHANGED <<failure, attr>>
    BY <1>1 DEF AttributedRunHasFailure
  <1>2. ASSUME NEW c \in Completes, CompleteCommit(c)
        PROVE  AttributedRunHasFailure'
    BY <1>2, CompletedFailureRow DEF AttributedRunHasFailure, CompleteCommit
  <1>3. ASSUME NEW a \in Analyses, AnalyzeCommit(a)
        PROVE  AttributedRunHasFailure'
    BY <1>3, AnalyzedFailureRow
    DEF AttributedRunHasFailure, AnalyzeCommit, FailureTaken
  <1> QED
    BY <1>1, <1>2, <1>3, OnlyCommitsWrite

(* A run with an attribution has a failures row, whichever handler was      *)
(* first to insert it.                                                      *)
THEOREM AttributedRuns == Spec => []AttributedRunHasFailure
  <1>1. Init => AttributedRunHasFailure
    BY DEF Init, AttributedRunHasFailure
  <1>2. IInv /\ AttributedRunHasFailure /\ [Next]_vars => AttributedRunHasFailure'
    BY AttributedStep
  <1> QED
    BY <1>1, <1>2, Invariance, PTL DEF Spec

(* Until its first completion commits, a run has the status it was created  *)
(* with, and every completion at work has loaded that one: the column is in *)
(* the UPDATE of each that carries another.                                 *)
StatusUntilEnded ==
    run # NoRow /\ ~run.ended =>
        /\ run.status \in CreateStatuses
        /\ \A c \in Completes : pc[c] \in {"flush", "commit"} => readStatus[c] = run.status

FailedInv == FailedRunHasFailure /\ StatusUntilEnded

(* A step of one request leaves where every other one is. *)
LEMMA OthersStay ==
  ASSUME IInv, NEW r \in Requests, NEW label, Advance(r, label)
  PROVE  \A s \in Requests : s # r => pc'[s] = pc[s]
  BY DEF Advance, IInv, TypeOK

(* A completion that carries "failed" leaves a failures row: its own, or    *)
(* the one its SELECT found.                                                *)
LEMMA FailedCommit ==
  ASSUME IInv, NEW c \in Completes, CompleteCommit(c), payload[c] = "failed",
         ~FailureTaken(c)
  PROVE  failure' # NoRow
  <1>1. failure' = CompletedFailure(c)
    BY DEF CompleteCommit
  <1>2. CASE sawFailure[c]
    BY <1>1, <1>2, CompletedFailureRow DEF IInv, ReadRowsStay
  <1>3. CASE ~sawFailure[c]
    <2> DEFINE marked == [detected |-> TRUE, reason |-> "run marked failed"]
    <2>1. failure' = marked
      BY <1>1, <1>3 DEF CompletedFailure
    <2>2. marked \in FailureRow
      BY DEF FailureRow
    <2> QED
      BY <2>1, <2>2
  <1> QED
    BY <1>2, <1>3

(* The status as a completion finds it: one that does not carry "failed"    *)
(* leaves a failed run failed only where another completion wrote it since. *)
LEMMA FailedCompletion ==
  ASSUME IInv, FailedInv, NEW c \in Completes, CompleteCommit(c)
  PROVE  FailedInv'
  <1>1. CASE payload[c] = "failed" /\ FailureTaken(c)
    <2>1. UNCHANGED <<run, failure, readStatus>> /\ pc' = [pc EXCEPT ![c] = "error"]
      BY <1>1 DEF CompleteCommit, completeVars, Advance
    <2>2. \A d \in Completes : pc'[d] \in {"flush", "commit"} => pc[d] \in {"flush", "commit"}
      BY <2>1 DEF IInv, TypeOK, Requests
    <2> QED
      BY <2>1, <2>2 DEF FailedInv, FailedRunHasFailure, StatusUntilEnded
  <1>2. CASE ~(payload[c] = "failed" /\ FailureTaken(c))
    <2>1. /\ failure' = CompletedFailure(c)
          /\ run' = [status |-> IF payload[c] # readStatus[c]
                                THEN payload[c] ELSE run.status,
                     ended  |-> TRUE]
      BY <1>2 DEF CompleteCommit
    <2>2. run'.ended /\ run # NoRow
      BY <2>1 DEF CompleteCommit, IInv, ReadRowsStay
    <2>3. run'.status = "failed" => failure' # NoRow
      <3>1. CASE payload[c] = "failed"
        BY <1>2, <3>1, FailedCommit
      <3>2. CASE payload[c] # "failed" /\ run'.status = "failed"
        <4>1. run.status = "failed" /\ payload[c] = readStatus[c]
          BY <2>1, <3>2
        <4>2. pc[c] = "commit"
          BY DEF CompleteCommit
        <4>3. run.ended
          BY <2>2, <3>2, <4>1, <4>2 DEF FailedInv, StatusUntilEnded, IInv, TypeOK, RunRow
        <4>4. failure # NoRow
          BY <2>2, <4>1, <4>3 DEF FailedInv, FailedRunHasFailure
        <4> QED
          BY <2>1, <4>4, CompletedFailureRow
      <3> QED
        BY <3>1, <3>2
    <2> QED
      BY <2>2, <2>3 DEF FailedInv, FailedRunHasFailure, StatusUntilEnded
  <1> QED
    BY <1>1, <1>2

LEMMA FailedStep ==
  ASSUME IInv, FailedInv, [Next]_vars
  PROVE  FailedInv'
  <1>1. CASE CreateRun
    <2>1. PICK s \in CreateStatuses : run' = [status |-> s, ended |-> FALSE]
      BY <1>1 DEF CreateRun
    <2>2. \A c \in Completes : pc'[c] \notin {"flush", "commit"}
      BY <1>1 DEF CreateRun, IInv, ReadRowsStay
    <2> QED
      BY <2>1, <2>2 DEF FailedInv, FailedRunHasFailure, StatusUntilEnded
  <1>2. ASSUME NEW c \in Completes, CompleteLoad(c) PROVE FailedInv'
    <2>1. UNCHANGED <<run, failure>>
      BY <1>2 DEF CompleteLoad, tables
    <2>2. ASSUME NEW d \in Completes, pc'[d] \in {"flush", "commit"}, run # NoRow
          PROVE  \/ readStatus'[d] = run.status
                 \/ pc[d] \in {"flush", "commit"} /\ readStatus'[d] = readStatus[d]
      BY <1>2, <2>2 DEF CompleteLoad, completeVars, IInv, TypeOK, Advance, Requests
    <2> QED
      BY <2>1, <2>2 DEF FailedInv, FailedRunHasFailure, StatusUntilEnded
  <1>3. ASSUME NEW c \in Completes, CompleteSelectFailure(c) PROVE FailedInv'
    BY <1>3 DEF CompleteSelectFailure, tables, completeVars, Advance, FailedInv,
                FailedRunHasFailure, StatusUntilEnded, IInv, TypeOK, Requests
  <1>4. ASSUME NEW c \in Completes, CompleteCommit(c) PROVE FailedInv'
    BY <1>4, FailedCompletion
  <1>5. ASSUME UNCHANGED <<run, readStatus>>, failure # NoRow => failure' # NoRow,
               \A c \in Completes : pc'[c] \in {"flush", "commit"} => pc'[c] = pc[c]
        PROVE  FailedInv'
    BY <1>5 DEF FailedInv, FailedRunHasFailure, StatusUntilEnded
  <1>6. ASSUME NEW a \in Analyses, AnalyzeCommit(a) PROVE FailedInv'
    <2>1. UNCHANGED <<run, readStatus>> /\ (failure # NoRow => failure' # NoRow)
      BY <1>6, AnalyzedFailureRow DEF AnalyzeCommit, completeVars
    <2>2. \A c \in Completes : pc'[c] = pc[c]
      BY <1>6, OthersStay DEF AnalyzeCommit, Requests
    <2> QED
      BY <2>1, <2>2, <1>5
  <1>7. ASSUME UNCHANGED <<run, readStatus, failure>>,
               \A c \in Completes : pc'[c] \in {"flush", "commit"} => pc'[c] = pc[c]
        PROVE  FailedInv'
    BY <1>5, <1>7
  <1>8. ASSUME NEW a \in Analyses,
               (AnalyzeStep(a) /\ ~AnalyzeCommit(a)) \/ WorkerTask(a)
        PROVE  FailedInv'
    <2>1. UNCHANGED <<run, readStatus, failure>>
      BY <1>8 DEF AnalyzeStep, AnalyzeLoad, AnalyzeEnqueued, AnalyzeAnswered, WorkerTask,
                  AnalyzeSelectAttribution, AnalyzeSelectFailure, tables, completeVars
    <2>2. \A c \in Completes : pc'[c] = pc[c]
      BY <1>8, OthersStay
      DEF AnalyzeStep, AnalyzeLoad, AnalyzeEnqueued, AnalyzeAnswered, WorkerTask,
          AnalyzeSelectAttribution, AnalyzeSelectFailure, Requests
    <2> QED
      BY <2>1, <2>2, <1>7
  <1>9. ASSUME NEW p \in Repairs, RepairStep(p) PROVE FailedInv'
    <2>1. UNCHANGED <<run, readStatus, failure>>
      BY <1>9 DEF RepairStep, RepairLoad, RepairSelect, RepairCommit, tables, completeVars
    <2>2. \A c \in Completes : pc'[c] = pc[c]
      BY <1>9, OthersStay DEF RepairStep, RepairLoad, RepairSelect, RepairCommit, Requests
    <2> QED
      BY <2>1, <2>2, <1>7
  <1>10. ASSUME NEW r \in Requests, JevFails(r) \/ Crash(r) PROVE FailedInv'
    <2>1. UNCHANGED <<run, readStatus, failure>>
      BY <1>10 DEF JevFails, Crash, tables, completeVars
    <2>2. pc' = [pc EXCEPT ![r] = "error"]
      BY <1>10 DEF JevFails, Crash, Advance
    <2>3. \A c \in Completes : pc'[c] \in {"flush", "commit"} => pc'[c] = pc[c]
      BY <2>2 DEF IInv, TypeOK, Requests
    <2> QED
      BY <2>1, <2>3, <1>7
  <1>11. CASE AddStep \/ UNCHANGED vars
    BY <1>7, <1>11 DEF AddStep, vars, tables, completeVars
  <1> QED
    BY <1>1, <1>2, <1>3, <1>4, <1>6, <1>8, <1>9, <1>10, <1>11
    DEF Next, CompleteStep

LEMMA FailedInvariance == Spec => []FailedInv
  <1>1. Init => FailedInv
    BY DEF Init, FailedInv, FailedRunHasFailure, StatusUntilEnded
  <1>2. IInv /\ FailedInv /\ [Next]_vars => FailedInv'
    BY FailedStep
  <1> QED
    BY <1>1, <1>2, Invariance, PTL DEF Spec

(* A failed run has a failures row, but for one that was created as failed  *)
(* and not completed since.                                                 *)
THEOREM FailedRuns == Spec => []FailedRunHasFailure
  <1>1. FailedInv => FailedRunHasFailure
    BY DEF FailedInv
  <1> QED
    BY <1>1, FailedInvariance, PTL

(* Where no request creates a run as failed, a failed run always has a      *)
(* failures row.                                                            *)
THEOREM FailedRunsAlways ==
  ASSUME "failed" \notin CreateStatuses
  PROVE  Spec => [](run # NoRow /\ run.status = "failed" => failure # NoRow)
  <1>1. FailedInv => (run # NoRow /\ run.status = "failed" => failure # NoRow)
    BY DEF FailedInv, FailedRunHasFailure, StatusUntilEnded
  <1> QED
    BY <1>1, FailedInvariance, PTL

(* An answered request keeps its answer and what it was computed from. *)
LEMMA AnswersStay ==
  ASSUME IInv, [Next]_vars, NEW r \in Requests, pc[r] = "ok"
  PROVE  /\ pc'[r] = "ok"
         /\ r \in Completes => payload'[r] = payload[r]
         /\ r \in Analyses => verdict'[r] = verdict[r]
  BY DEF IInv, TypeOK, Next, vars, tables, completeVars, analyzeVars, Advance, InFlight,
         Outcomes, Requests, CreateRun, AddStep, CompleteStep, CompleteLoad,
         CompleteSelectFailure, CompleteCommit, AnalyzeStep, AnalyzeLoad,
         AnalyzeAnswered, AnalyzeSelectAttribution, AnalyzeSelectFailure,
         AnalyzeCommit, RepairStep, RepairLoad, RepairSelect, RepairCommit,
         AnalyzeEnqueued, WorkerTask, JevFails, Crash

(* Only a completion as "completed" clears the flag: every other write of   *)
(* the row keeps it or inserts it set.                                      *)
LEMMA ClearedStep ==
  ASSUME IInv, ClearedOnlyByCompletion, [Next]_vars
  PROVE  ClearedOnlyByCompletion'
  <1>1. CASE failure' = failure
    BY <1>1, AnswersStay DEF ClearedOnlyByCompletion, Requests
  <1>2. ASSUME NEW c \in Completes, CompleteCommit(c), failure' # failure
        PROVE  ClearedOnlyByCompletion'
    <2>1. failure' = CompletedFailure(c) /\ pc' = [pc EXCEPT ![c] = "ok"]
          /\ payload' = payload
      BY <1>2 DEF CompleteCommit, Advance, completeVars
    <2>2. CASE payload[c] = "failed" /\ ~sawFailure[c]
      <3>1. failure' = [detected |-> TRUE, reason |-> "run marked failed"]
        BY <2>1, <2>2 DEF CompletedFailure
      <3> QED
        BY <3>1 DEF ClearedOnlyByCompletion
    <2>3. CASE payload[c] = "completed" /\ sawFailure[c]
      <3>1. pc'[c] = "ok" /\ payload'[c] = "completed"
        BY <2>1, <2>3 DEF IInv, TypeOK, Requests
      <3> QED
        BY <3>1 DEF ClearedOnlyByCompletion
    <2>4. CASE /\ ~(payload[c] = "failed" /\ ~sawFailure[c])
               /\ ~(payload[c] = "completed" /\ sawFailure[c])
      BY <1>2, <2>1, <2>4 DEF CompletedFailure
    <2> QED
      BY <2>2, <2>3, <2>4
  <1>3. ASSUME NEW a \in Analyses, AnalyzeCommit(a), failure' # failure
        PROVE  ClearedOnlyByCompletion'
    <2>1. failure' = [detected |-> TRUE, reason |-> verdict[a].category]
      BY <1>3 DEF AnalyzeCommit, AnalyzedFailure
    <2> QED
      BY <2>1 DEF ClearedOnlyByCompletion
  <1> QED
    BY <1>1, <1>2, <1>3, OnlyCommitsWrite

(* Only a completion as completed clears failure_detected.                  *)
THEOREM ClearedRuns == Spec => []ClearedOnlyByCompletion
  <1>1. Init => ClearedOnlyByCompletion
    BY DEF Init, ClearedOnlyByCompletion
  <1>2. IInv /\ ClearedOnlyByCompletion /\ [Next]_vars => ClearedOnlyByCompletion'
    BY ClearedStep
  <1> QED
    BY <1>1, <1>2, Invariance, PTL DEF Spec

(* Snapshots and verdicts are of a trace that only grows. *)
VerdictsInTrace ==
    \A a \in Analyses :
        /\ snapshot[a] <= trace
        /\ verdict[a] # NoRow => verdict[a].step <= LastStep(trace)

TraceInv == FailureStepInTrace /\ VerdictsInTrace

LEMMA TraceStep ==
  ASSUME IInv, TraceInv, [Next]_vars
  PROVE  TraceInv'
  <1>1. CASE AddStep
    <2>1. trace \in Nat /\ trace' = trace + 1 /\ UNCHANGED <<attr, snapshot, verdict>>
      BY <1>1 DEF AddStep, IInv, TypeOK, analyzeVars
    <2>2. LastStep(trace) <= LastStep(trace') /\ LastStep(trace) \in Nat
          /\ LastStep(trace') \in Nat
      BY <2>1 DEF LastStep
    <2>3. \A v \in AttributionRow : v.step <= LastStep(trace) => v.step <= LastStep(trace')
      BY <2>2 DEF AttributionRow
    <2>4. \A a \in Analyses : snapshot[a] <= trace'
      BY <2>1 DEF TraceInv, VerdictsInTrace, IInv, TypeOK
    <2> QED
      BY <2>1, <2>3, <2>4 DEF TraceInv, VerdictsInTrace, FailureStepInTrace, IInv, TypeOK
  <1>2. ASSUME NEW a \in Analyses, AnalyzeLoad(a) PROVE TraceInv'
    BY <1>2 DEF AnalyzeLoad, tables, TraceInv, VerdictsInTrace, FailureStepInTrace,
                IInv, TypeOK
  <1>3. ASSUME NEW a \in Analyses, AnalyzeAnswered(a) PROVE TraceInv'
    <2>1. PICK v \in Verdicts(snapshot[a]) : verdict' = [verdict EXCEPT ![a] = v]
      BY <1>3 DEF AnalyzeAnswered
    <2>2. UNCHANGED <<attr, trace, snapshot>>
      BY <1>3 DEF AnalyzeAnswered, tables
    <2>3. v.step \in 1 .. LastStep(snapshot[a])
      BY DEF Verdicts
    <2>4. snapshot[a] \in Nat /\ trace \in Nat /\ snapshot[a] <= trace
      BY DEF IInv, TypeOK, TraceInv, VerdictsInTrace
    <2>5. v.step <= LastStep(trace)
      BY <2>3, <2>4 DEF LastStep
    <2> QED
      BY <2>1, <2>2, <2>5 DEF TraceInv, VerdictsInTrace, FailureStepInTrace, IInv, TypeOK
  <1>4. ASSUME NEW a \in Analyses, AnalyzeCommit(a) PROVE TraceInv'
    <2>1. UNCHANGED <<trace, snapshot, verdict>>
      BY <1>4 DEF AnalyzeCommit, analyzeVars
    <2>2. verdict[a] # NoRow /\ verdict[a].step <= LastStep(trace)
      BY <1>4 DEF AnalyzeCommit, IInv, VerdictReady, TraceInv, VerdictsInTrace
    <2>3. CASE attr' = attr
      BY <2>1, <2>3 DEF TraceInv, VerdictsInTrace, FailureStepInTrace
    <2>4. CASE attr' = WrittenAttribution(a)
      <3>1. attr'.step <= LastStep(trace)
        BY <2>2, <2>4 DEF WrittenAttribution, UpdatedColumns, IInv, ReadRowsStay,
                          TraceInv, FailureStepInTrace
      <3> QED
        BY <2>1, <3>1 DEF TraceInv, VerdictsInTrace, FailureStepInTrace
    <2> QED
      BY <1>4, <2>3, <2>4 DEF AnalyzeCommit
  <1>5. CASE UNCHANGED <<attr, trace, snapshot, verdict>>
    BY <1>5 DEF TraceInv, VerdictsInTrace, FailureStepInTrace
  <1> QED
    BY <1>1, <1>2, <1>3, <1>4, <1>5
    DEF Next, vars, tables, analyzeVars, CreateRun, CompleteStep, CompleteLoad,
        CompleteSelectFailure, CompleteCommit, AnalyzeStep,
        AnalyzeSelectAttribution, AnalyzeSelectFailure, RepairStep, RepairLoad,
        RepairSelect, RepairCommit, AnalyzeEnqueued, WorkerTask, JevFails, Crash

(* failure_step stays an index into the trace. *)
THEOREM FailureSteps == Spec => []FailureStepInTrace
  <1>1. Init => TraceInv
    BY DEF Init, TraceInv, VerdictsInTrace, FailureStepInTrace
  <1>2. IInv /\ TraceInv /\ [Next]_vars => TraceInv'
    BY TraceStep
  <1>3. TraceInv => FailureStepInTrace
    BY DEF TraceInv
  <1> QED
    BY <1>1, <1>2, <1>3, Invariance, PTL DEF Spec

(* Every column written comes from the committing analysis, every column    *)
(* left from one that committed before.                                     *)
LEMMA ColumnsStep ==
  ASSUME IInv, ColumnsFromAnalyses, [Next]_vars
  PROVE  ColumnsFromAnalyses'
  <1> DEFINE answered == {x \in Analyses : pc[x] = "ok"}
             answers == {verdict[a] : a \in answered}
  <1>1. answers \subseteq answers'
    BY AnswersStay DEF Requests
  <1>2. CASE attr' = attr
    BY <1>1, <1>2 DEF ColumnsFromAnalyses
  <1>3. ASSUME NEW a \in Analyses, AnalyzeCommit(a), attr' # attr
        PROVE  ColumnsFromAnalyses'
    <2>1. attr' = WrittenAttribution(a) /\ verdict' = verdict
          /\ pc' = [pc EXCEPT ![a] = "ok"]
      BY <1>3 DEF AnalyzeCommit, analyzeVars, Advance
    <2>2. verdict[a] \in answers'
      BY <2>1 DEF IInv, TypeOK, Requests
    <2>3. CASE readAttr[a] = NoRow
      BY <2>1, <2>2, <2>3 DEF WrittenAttribution, ColumnsFromAnalyses
    <2>4. CASE readAttr[a] # NoRow
      <3>1. attr # NoRow
        BY <2>4 DEF IInv, ReadRowsStay
      <3>2. /\ attr'.component \in {verdict[a].component, attr.component}
            /\ attr'.category \in {verdict[a].category, attr.category}
            /\ attr'.step \in {verdict[a].step, attr.step}
        BY <2>1, <2>4 DEF WrittenAttribution, UpdatedColumns
      <3> QED
        BY <1>1, <2>2, <3>1, <3>2 DEF ColumnsFromAnalyses
    <2> QED
      BY <2>3, <2>4
  <1> QED
    BY <1>2, <1>3, OnlyCommitsWrite DEF CompleteCommit

(* No column of the attribution comes from an analysis that failed. *)
THEOREM AttributionColumns == Spec => []ColumnsFromAnalyses
  <1>1. Init => ColumnsFromAnalyses
    BY DEF Init, ColumnsFromAnalyses
  <1>2. IInv /\ ColumnsFromAnalyses /\ [Next]_vars => ColumnsFromAnalyses'
    BY ColumnsStep
  <1> QED
    BY <1>1, <1>2, Invariance, PTL DEF Spec

(* Recommendations never vanish: the only write of the table inserts. *)
THEOREM RecommendationsStay == Spec => RecommendationsNeverVanish
  <1>1. [Next]_vars => [recs # {} => recs' # {}]_recs
    BY DEF Next, vars, tables, CreateRun, AddStep, CompleteStep, CompleteLoad,
           CompleteSelectFailure, CompleteCommit, AnalyzeStep, AnalyzeLoad,
           AnalyzeAnswered, AnalyzeSelectAttribution, AnalyzeSelectFailure,
           AnalyzeCommit, RepairStep, RepairLoad, RepairSelect, RepairCommit,
           AnalyzeEnqueued, WorkerTask, JevFails, Crash
  <1> QED
    BY <1>1, PTL DEF Spec, RecommendationsNeverVanish
-----------------------------------------------------------------------------
(***************************************************************************)
(* Locks and progress: the safety facts behind EveryRequestAnswered.       *)
(***************************************************************************)

(* A request that writes a row holds its lock from the SELECT whose         *)
(* autoflush took it to its commit, and nobody else holds one.              *)
LocksToCommit ==
    /\ runLock # NoOne => pc[runLock] = "commit"
    /\ attrLock # NoOne => pc[attrLock] = "commit"
    /\ \A c \in Completes : pc[c] = "commit" /\ payload[c] # "running" => runLock = c
    /\ \A c \in Completes : pc[c] = "flush" => payload[c] # "running"
    /\ \A a \in Analyses :
          pc[a] = "commit" /\ readAttr[a] # verdict[a] => attrLock = a

(* The kinds of requests differ in the labels they pass. *)
Labels ==
    /\ \A c \in Completes : pc[c] \notin {"jev", "select"}
    /\ \A p \in Repairs : pc[p] \notin {"select", "flush"}

LockInv == LocksToCommit /\ Labels

LEMMA LockStep ==
  ASSUME IInv, LockInv, [Next]_vars
  PROVE  LockInv'
  <1> DEFINE L == Outcomes \cup {"idle", "jev", "select", "flush", "commit"}
  <1>1. CASE CreateRun \/ AddStep \/ UNCHANGED vars
    BY <1>1 DEF CreateRun, AddStep, vars, tables, locks, completeVars, analyzeVars,
                LockInv, LocksToCommit, Labels
  <1>2. ASSUME NEW c \in Completes, CompleteStep(c) PROVE LockInv'
    <2>1. c \in Requests /\ runLock \in Completes \cup {NoOne} /\ pc \in [Requests -> L]
      BY DEF Requests, IInv, TypeOK
    <2>2. \A s \in Requests : s # c => pc'[s] = pc[s]
      BY <1>2, <2>1, OthersStay
      DEF CompleteStep, CompleteLoad, CompleteSelectFailure, CompleteCommit
    <2>3. UNCHANGED <<attrLock, verdict, readAttr>>
      BY <1>2 DEF CompleteStep, CompleteLoad, CompleteSelectFailure, CompleteCommit,
                  locks, analyzeVars
    <2>4. \A d \in Completes : d # c => payload'[d] = payload[d]
      BY <1>2 DEF CompleteStep, CompleteLoad, CompleteSelectFailure, CompleteCommit,
                  completeVars, IInv, TypeOK
    <2>5. Labels'
      BY <1>2, <2>1, <2>2
      DEF CompleteStep, CompleteLoad, CompleteSelectFailure, CompleteCommit, Advance,
          LockInv, Labels, Requests
    <2>6. /\ attrLock' # NoOne => pc'[attrLock'] = "commit"
          /\ \A a \in Analyses :
                pc'[a] = "commit" /\ readAttr'[a] # verdict'[a] => attrLock' = a
      BY <2>2, <2>3 DEF LockInv, LocksToCommit, IInv, TypeOK, Requests
    <2>7. CASE CompleteLoad(c)
      <3>1. pc[c] = "idle" /\ UNCHANGED runLock /\ payload \in [Completes -> Status]
        BY <2>7 DEF CompleteLoad, locks, IInv, TypeOK
      <3>2. \/ pc'[c] = "missing"
            \/ pc'[c] = "commit" /\ payload'[c] = "running"
            \/ pc'[c] = "flush" /\ payload'[c] # "running"
        BY <2>1, <2>7, <3>1 DEF CompleteLoad, Advance
      <3>3. runLock' # NoOne => pc'[runLock'] = "commit"
        BY <2>1, <2>2, <3>1 DEF LockInv, LocksToCommit, Requests
      <3>4. ASSUME NEW d \in Completes
            PROVE  /\ pc'[d] = "commit" /\ payload'[d] # "running" => runLock' = d
                   /\ pc'[d] = "flush" => payload'[d] # "running"
        BY <2>2, <2>4, <3>1, <3>2 DEF LockInv, LocksToCommit, Requests
      <3> QED
        BY <2>5, <2>6, <3>3, <3>4 DEF LockInv, LocksToCommit
    <2>8. CASE CompleteSelectFailure(c)
      <3>1. /\ pc[c] = "flush" /\ pc'[c] = "commit" /\ payload' = payload
            /\ runLock = NoOne /\ runLock' = c
        BY <2>1, <2>8 DEF CompleteSelectFailure, completeVars, Advance
      <3> QED
        BY <2>2, <2>5, <2>6, <3>1 DEF LockInv, LocksToCommit, Requests
    <2>9. CASE CompleteCommit(c)
      <3>1. /\ pc[c] = "commit" /\ pc'[c] \in {"error", "ok"} /\ payload' = payload
            /\ runLock \in {c, NoOne} /\ runLock' = NoOne
        BY <2>1, <2>9 DEF CompleteCommit, completeVars, Advance
      <3> QED
        BY <2>2, <2>5, <2>6, <3>1 DEF LockInv, LocksToCommit, Requests
    <2> QED
      BY <1>2, <2>7, <2>8, <2>9 DEF CompleteStep
  <1>3. ASSUME NEW r \in Requests, r \notin Completes,
               \A s \in Requests : s # r => pc'[s] = pc[s],
               UNCHANGED <<runLock, payload>>
        PROVE  /\ runLock' # NoOne => pc'[runLock'] = "commit"
               /\ \A c \in Completes :
                     pc'[c] = "commit" /\ payload'[c] # "running" => runLock' = c
               /\ \A c \in Completes : pc'[c] = "flush" => payload'[c] # "running"
               /\ \A c \in Completes : pc'[c] \notin {"jev", "select"}
    BY <1>3 DEF LockInv, LocksToCommit, Labels, Requests, IInv, TypeOK
  <1>4. ASSUME NEW a \in Analyses, AnalyzeStep(a) \/ WorkerTask(a) PROVE LockInv'
    <2>1. a \in Requests /\ a \notin Completes /\ pc \in [Requests -> L]
          /\ attrLock \in Analyses \cup {NoOne}
      BY DEF Requests, IInv, TypeOK
    <2>2. \A s \in Requests : s # a => pc'[s] = pc[s]
      BY <1>4, <2>1, OthersStay
      DEF AnalyzeStep, AnalyzeLoad, AnalyzeEnqueued, AnalyzeAnswered, WorkerTask,
          AnalyzeSelectAttribution, AnalyzeSelectFailure, AnalyzeCommit
    <2>3. UNCHANGED <<runLock, payload>>
      BY <1>4
      DEF AnalyzeStep, AnalyzeLoad, AnalyzeEnqueued, AnalyzeAnswered, WorkerTask,
          AnalyzeSelectAttribution, AnalyzeSelectFailure, AnalyzeCommit, locks,
          completeVars
    <2>4. \A b \in Analyses : b # a =>
              readAttr'[b] = readAttr[b] /\ verdict'[b] = verdict[b]
      BY <1>4
      DEF AnalyzeStep, AnalyzeLoad, AnalyzeEnqueued, AnalyzeAnswered, WorkerTask,
          AnalyzeSelectAttribution, AnalyzeSelectFailure, AnalyzeCommit, analyzeVars,
          IInv, TypeOK
    <2>5. \A p \in Repairs : pc'[p] \notin {"select", "flush"}
      BY <2>2 DEF LockInv, Labels, Requests
    <2>6. /\ attrLock' # NoOne => pc'[attrLock'] = "commit"
          /\ \A b \in Analyses :
                pc'[b] = "commit" /\ readAttr'[b] # verdict'[b] => attrLock' = b
      <3>1. CASE AnalyzeSelectFailure(a)
        <4>1. UNCHANGED <<verdict, readAttr>> /\ pc[a] = "flush"
          BY <3>1 DEF AnalyzeSelectFailure, analyzeVars
        <4>2. \/ /\ pc'[a] = "commit" /\ readAttr[a] = verdict[a]
                 /\ attrLock' = attrLock
              \/ pc'[a] = "commit" /\ attrLock = NoOne /\ attrLock' = a
              \/ pc'[a] = "error" /\ attrLock' = attrLock
          BY <2>1, <3>1 DEF AnalyzeSelectFailure, Advance
        <4> QED
          BY <2>1, <2>2, <4>1, <4>2 DEF LockInv, LocksToCommit, Requests
      <3>2. CASE AnalyzeCommit(a)
        <4>1. /\ UNCHANGED <<verdict, readAttr>> /\ pc'[a] \in {"ok", "error"}
              /\ attrLock' = Unlocked(attrLock, a)
          BY <2>1, <3>2 DEF AnalyzeCommit, analyzeVars, Advance
        <4> QED
          BY <2>1, <2>2, <4>1 DEF LockInv, LocksToCommit, Requests, Unlocked
      <3>3. CASE ~AnalyzeSelectFailure(a) /\ ~AnalyzeCommit(a)
        <4>1. pc[a] # "commit" /\ pc'[a] # "commit" /\ attrLock' = attrLock
          BY <1>4, <2>1, <3>3
          DEF AnalyzeStep, AnalyzeLoad, AnalyzeEnqueued, AnalyzeAnswered, WorkerTask,
              AnalyzeSelectAttribution, locks, Advance
        <4> QED
          BY <2>1, <2>2, <2>4, <4>1 DEF LockInv, LocksToCommit, Requests
      <3> QED
        BY <3>1, <3>2, <3>3
    <2> QED
      BY <1>3, <2>1, <2>2, <2>3, <2>5, <2>6 DEF LockInv, LocksToCommit, Labels
  <1>5. ASSUME NEW p \in Repairs, RepairStep(p) PROVE LockInv'
    <2>1. p \in Requests /\ p \notin Completes /\ p \notin Analyses
      BY DEF Requests
    <2>2. \A s \in Requests : s # p => pc'[s] = pc[s]
      BY <1>5, <2>1, OthersStay DEF RepairStep, RepairLoad, RepairSelect, RepairCommit
    <2>3. UNCHANGED <<runLock, attrLock, payload, verdict, readAttr>>
      BY <1>5 DEF RepairStep, RepairLoad, RepairSelect, RepairCommit, locks,
                  completeVars, analyzeVars
    <2>4. pc'[p] \notin {"select", "flush"}
      BY <1>5, <2>1 DEF RepairStep, RepairLoad, RepairSelect, RepairCommit, Advance,
                        IInv, TypeOK
    <2>5. \A q \in Repairs : pc'[q] \notin {"select", "flush"}
      BY <2>2, <2>4 DEF LockInv, Labels, Requests
    <2>6. /\ attrLock' # NoOne => pc'[attrLock'] = "commit"
          /\ \A b \in Analyses :
                pc'[b] = "commit" /\ readAttr'[b] # verdict'[b] => attrLock' = b
      BY <2>1, <2>2, <2>3 DEF LockInv, LocksToCommit, IInv, TypeOK, Requests
    <2> QED
      BY <1>3, <2>1, <2>2, <2>3, <2>5, <2>6 DEF LockInv, LocksToCommit, Labels
  <1>6. ASSUME NEW r \in Requests, JevFails(r) \/ Crash(r) PROVE LockInv'
    <2>1. /\ UNCHANGED <<payload, verdict, readAttr>>
          /\ pc'[r] = "error" /\ \A s \in Requests : s # r => pc'[s] = pc[s]
      BY <1>6 DEF JevFails, Crash, Advance, completeVars, analyzeVars, IInv, TypeOK
    <2>2. /\ (runLock' = runLock /\ runLock # r) \/ runLock' = Unlocked(runLock, r)
          /\ (attrLock' = attrLock /\ attrLock # r) \/ attrLock' = Unlocked(attrLock, r)
      BY <1>6 DEF JevFails, Crash, locks, LockInv, LocksToCommit
    <2>3. /\ runLock \in Completes \cup {NoOne} /\ attrLock \in Analyses \cup {NoOne}
          /\ r # NoOne
      BY DEF IInv, TypeOK, Requests
    <2> QED
      BY <2>1, <2>2, <2>3 DEF LockInv, LocksToCommit, Labels, Requests, Unlocked
  <1> QED
    BY <1>1, <1>2, <1>4, <1>5, <1>6 DEF Next

(* Between the statement that takes a row lock and the commit no other      *)
(* transaction writes the row: two completions that update the run, or two  *)
(* analyses that write the attribution, are never both at their commit.     *)
THEOREM LocksHeldToCommit == Spec => []LockInv
  <1>1. Init => LockInv
    BY DEF Init, LockInv, LocksToCommit, Labels, Requests
  <1>2. IInv /\ LockInv /\ [Next]_vars => LockInv'
    BY LockStep
  <1> QED
    BY <1>1, <1>2, Invariance, PTL DEF Spec

(* The condition of the next step of each handler that has been called:     *)
(* what it waits for is a row lock or nothing.                              *)
CanGo(r) ==
    \/ r \in Completes /\ pc[r] = "flush" /\ runLock = NoOne
    \/ r \in Completes /\ pc[r] = "commit" /\ runLock \in {r, NoOne}
    \/ r \in Analyses /\ pc[r] \in {"jev", "select", "commit"}
    \/ r \in Analyses /\ pc[r] = "flush" /\ attrLock = NoOne
    \/ r \in Analyses /\ pc[r] = "flush" /\ readAttr[r] = verdict[r]
    \/ r \in Repairs /\ pc[r] \in {"jev", "commit"}

(* The transaction that r waits for. *)
WaitsFor(r, h) ==
    \/ r \in Completes /\ pc[r] \in {"flush", "commit"} /\ h = runLock
    \/ r \in Analyses /\ pc[r] = "flush" /\ h = attrLock

(* The handler of r takes a step, of its own accord. *)
HandlerStep(r) ==
    \/ r \in Completes /\ CompleteStep(r)
    \/ r \in Analyses /\ AnalyzeStep(r)
    \/ r \in Repairs /\ RepairStep(r)

(* CanGo asks no more than the handler's own step does. *)
LEMMA StepsCanGo ==
  ASSUME NEW r \in Requests, InFlight(r), HandlerStep(r)
  PROVE  CanGo(r)
  <1>1. CASE r \in Completes /\ CompleteStep(r)
    BY <1>1 DEF CompleteStep, CompleteLoad, CompleteSelectFailure, CompleteCommit,
                CanGo, InFlight
  <1>2. CASE r \in Analyses /\ AnalyzeStep(r)
    BY <1>2 DEF AnalyzeStep, AnalyzeLoad, AnalyzeEnqueued, AnalyzeAnswered,
                AnalyzeSelectAttribution, AnalyzeSelectFailure, AnalyzeCommit, CanGo,
                InFlight
  <1>3. CASE r \in Repairs /\ RepairStep(r)
    BY <1>3 DEF RepairStep, RepairLoad, RepairSelect, RepairCommit, CanGo, InFlight
  <1> QED
    BY <1>1, <1>2, <1>3 DEF HandlerStep

(* No chain of waiting requests, let alone a cycle: whoever waits, waits    *)
(* for a request at its commit, which waits for nobody.                     *)
NoChains ==
    \A r \in Requests :
        InFlight(r) =>
            \/ CanGo(r)
            \/ \E h \in Requests \ {r} : WaitsFor(r, h) /\ pc[h] = "commit" /\ CanGo(h)

LEMMA NoChainsHolds == IInv /\ LockInv => NoChains
  <1> SUFFICES ASSUME IInv, LockInv, NEW r \in Requests, InFlight(r), ~CanGo(r)
               PROVE  \E h \in Requests \ {r} :
                          WaitsFor(r, h) /\ pc[h] = "commit" /\ CanGo(h)
    BY DEF NoChains
  <1>1. pc[r] \in {"jev", "select", "flush", "commit"}
    BY DEF InFlight, IInv, TypeOK
  <1>2. CASE r \in Completes
    <2>1. pc[r] \in {"flush", "commit"}
      BY <1>1, <1>2 DEF LockInv, Labels
    <2>2. runLock # NoOne /\ runLock # r
      <3>1. CASE pc[r] = "commit"
        BY <1>2, <3>1 DEF CanGo
      <3>2. CASE pc[r] = "flush"
        BY <1>2, <3>2 DEF CanGo, LockInv, LocksToCommit
      <3> QED
        BY <2>1, <3>1, <3>2
    <2>3. runLock \in Completes /\ pc[runLock] = "commit"
      BY <2>2 DEF IInv, TypeOK, LockInv, LocksToCommit
    <2>4. CanGo(runLock) /\ WaitsFor(r, runLock)
      BY <1>2, <2>1, <2>3 DEF CanGo, WaitsFor
    <2> QED
      BY <2>2, <2>3, <2>4 DEF Requests
  <1>3. CASE r \in Analyses
    <2>1. pc[r] = "flush" /\ attrLock # NoOne
      BY <1>1, <1>3 DEF CanGo
    <2>2. attrLock \in Analyses /\ pc[attrLock] = "commit" /\ attrLock # r
      BY <2>1 DEF IInv, TypeOK, LockInv, LocksToCommit
    <2>3. CanGo(attrLock) /\ WaitsFor(r, attrLock)
      BY <1>3, <2>1, <2>2 DEF CanGo, WaitsFor
    <2> QED
      BY <2>2, <2>3 DEF Requests
  <1>4. CASE r \in Repairs
    BY <1>1, <1>4 DEF CanGo, LockInv, Labels
  <1> QED
    BY <1>2, <1>3, <1>4 DEF Requests

(* The requests of a run are free of deadlock: whenever one is in flight,   *)
(* it can go or waits for one that can commit.                              *)
THEOREM DeadlockFree == Spec => []NoChains
  BY NoChainsHolds, Invariance, LocksHeldToCommit, PTL

(* How far a request has come. *)
Progress(label) ==
    CASE label = "idle"     -> 0
      [] label = "jev"      -> 1
      [] label = "select"   -> 2
      [] label = "flush"    -> 3
      [] label = "commit"   -> 4
      [] label = "accepted" -> 5
      [] OTHER              -> 6

(* One step moves one request, and moves it forward. *)
Forward ==
    \E r \in Requests :
        /\ pc[r] # pc'[r] => Progress(pc[r]) < Progress(pc'[r])
        /\ \A s \in Requests \ {r} : pc'[s] = pc[s]

(* Requests come and go forward only: with DeadlockFree, a request ends     *)
(* within six of its own steps, none of which another one can undo, and an  *)
(* answer is final (but for the worker's end of an accepted analysis).      *)
THEOREM RequestsMoveForward == Spec => [][Forward]_pc
  <1>1. ASSUME IInv, NEW r \in Requests, NEW label \in {"missing", "error", "ok",
               "abandoned", "accepted", "jev", "select", "flush", "commit"},
               Advance(r, label), Progress(pc[r]) < Progress(label)
        PROVE  Forward
    BY <1>1, OthersStay DEF Forward, Advance, IInv, TypeOK
  <1>2. ASSUME IInv, Next, pc' # pc
        PROVE  Forward
    <2>1. ASSUME NEW c \in Completes, CompleteStep(c) PROVE Forward
      <3>1. CASE CompleteLoad(c)
        BY <1>1, <1>2, <3>1 DEF CompleteLoad, Progress, Requests
      <3>2. CASE CompleteSelectFailure(c)
        BY <1>1, <1>2, <3>2 DEF CompleteSelectFailure, Progress, Requests
      <3>3. CASE CompleteCommit(c)
        BY <1>1, <1>2, <3>3 DEF CompleteCommit, Progress, Requests
      <3> QED
        BY <2>1, <3>1, <3>2, <3>3 DEF CompleteStep
    <2>2. ASSUME NEW a \in Analyses, AnalyzeStep(a) \/ WorkerTask(a) PROVE Forward
      <3>1. CASE AnalyzeLoad(a)
        BY <1>1, <1>2, <3>1 DEF AnalyzeLoad, Progress, Requests
      <3>2. CASE AnalyzeEnqueued(a) \/ WorkerTask(a)
        BY <1>1, <1>2, <3>2 DEF AnalyzeEnqueued, WorkerTask, Progress, Requests
      <3>3. CASE AnalyzeAnswered(a) \/ AnalyzeSelectAttribution(a)
        BY <1>1, <1>2, <3>3 DEF AnalyzeAnswered, AnalyzeSelectAttribution, Progress,
                                Requests
      <3>4. CASE AnalyzeSelectFailure(a)
        BY <1>1, <1>2, <3>4 DEF AnalyzeSelectFailure, Progress, Requests
      <3>5. CASE AnalyzeCommit(a)
        BY <1>1, <1>2, <3>5 DEF AnalyzeCommit, Progress, Requests
      <3> QED
        BY <2>2, <3>1, <3>2, <3>3, <3>4, <3>5 DEF AnalyzeStep
    <2>3. ASSUME NEW p \in Repairs, RepairStep(p) PROVE Forward
      BY <1>1, <1>2, <2>3 DEF RepairStep, RepairLoad, RepairSelect, RepairCommit,
                              Progress, Requests
    <2>4. ASSUME NEW r \in Requests, JevFails(r) PROVE Forward
      BY <1>1, <1>2, <2>4 DEF JevFails, Progress
    <2>5. ASSUME NEW r \in Requests, Crash(r) PROVE Forward
      <3>1. pc[r] \in {"jev", "select", "flush", "commit"}
        BY <1>2, <2>5 DEF Crash, InFlight, IInv, TypeOK
      <3> QED
        BY <1>1, <1>2, <2>5, <3>1 DEF Crash, Progress
    <2> QED
      BY <1>2, <2>1, <2>2, <2>3, <2>4, <2>5 DEF Next, CreateRun, AddStep
  <1>3. IInv /\ [Next]_vars => [Forward]_pc
    BY <1>2 DEF vars
  <1> QED
    BY <1>3, Invariance, PTL DEF Spec
=============================================================================
