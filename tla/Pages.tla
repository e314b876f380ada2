------------------------------- MODULE Pages -------------------------------
(***************************************************************************)
(* Two listings page by page while the tables change: the runs, newest     *)
(* first, with a status filter, and the steps of a run by their number.    *)
(*                                                                         *)
(* A page is one SELECT of limit + 1 rows behind the cursor; the cursor of *)
(* the next page is the last row of this one, of which list_steps uses the *)
(* number only.  started_at is the start of the transaction that inserts   *)
(* the run, so a run may appear behind newer ones, and a client that calls *)
(* add_step may give its steps any numbers.                                *)
(***************************************************************************)
EXTENDS Naturals, FiniteSets

CONSTANTS
    RunIds,     \* ids of runs, in the order PostgreSQL compares them
    Times,      \* values of started_at
    Statuses,   \* values of status and of the filter
    StepIds,    \* ids of the steps of one run
    Numbers,    \* values of step_number
    Limits,     \* values of limit
    NoCursor,   \* no cursor is given, or one that cannot be decoded
    NoFilter    \* no status is given

ASSUME OrderedAssumption == RunIds \subseteq Nat /\ Times \subseteq Nat /\ Numbers \subseteq Nat

ASSUME LimitsAssumption == Limits \subseteq Nat \ {0}

RunRow == [id: RunIds, at: Times]

StepRow == [id: StepIds, number: Numbers]

ASSUME SentinelsAssumption ==
    /\ NoCursor \notin RunRow \cup Numbers
    /\ NoFilter \notin Statuses

VARIABLES
    runs,        \* rows of table runs: id and started_at
    status,      \* the status of each run
    steps,       \* rows of table steps: id and step_number
    filter,      \* the status filter of the listing of runs
    runCursor,   \* next_cursor of its last page
    runPages,    \* "none" yet, "more" to come, at the "end"
    runSeen,     \* number of times each run was on a page
    runsOwed,    \* runs that matched the filter at the first page and ever since
    stepCursor,  \* the same of the listing of steps
    stepPages,
    stepSeen,
    stepsOwed

runList  == <<filter, runCursor, runPages, runSeen, runsOwed>>
stepList == <<stepCursor, stepPages, stepSeen, stepsOwed>>
vars == <<runs, status, steps, runList, stepList>>

Init ==
    /\ runs = {}
    /\ status \in [RunIds -> Statuses]
    /\ steps = {}
    /\ filter \in Statuses \cup {NoFilter}
    /\ runCursor = NoCursor
    /\ runPages = "none"
    /\ runSeen = [i \in RunIds |-> 0]
    /\ runsOwed = {}
    /\ stepCursor = NoCursor
    /\ stepPages = "none"
    /\ stepSeen = [i \in StepIds |-> 0]
    /\ stepsOwed = {}

(***************************************************************************)
(* The tables.                                                             *)
(***************************************************************************)

Matches(r) == filter = NoFilter \/ status[r.id] = filter

(* create_run, or a run that ingestion creates. *)
CreateRun ==
    /\ \E r \in RunRow :
          /\ \A other \in runs : other.id # r.id
          /\ runs' = runs \cup {r}
    /\ UNCHANGED <<status, steps, runList, stepList>>

(* complete_run. *)
CompleteRun ==
    /\ UNCHANGED <<runs, steps, filter, runCursor, runPages, runSeen, stepList>>
    /\ \E r \in runs, s \in Statuses : status' = [status EXCEPT ![r.id] = s]
    /\ runsOwed' = {r \in runsOwed : Matches(r)'}

(* add_step. *)
AddStep ==
    /\ \E s \in StepRow :
          /\ \A other \in steps : other.id # s.id
          /\ steps' = steps \cup {s}
    /\ UNCHANGED <<runs, status, runList, stepList>>

(***************************************************************************)
(* list_runs.                                                              *)
(***************************************************************************)

(* ORDER BY started_at DESC, id DESC. *)
Newer(r, s) == r.at > s.at \/ (r.at = s.at /\ r.id > s.id)

(* Mutant: the row of the cursor is selected again. *)
RunsFromCursor ==
    {r \in runs : Matches(r) /\ (runCursor # NoCursor => ~Newer(r, runCursor))}

(* Mutant: the id of the cursor is not used. *)
RunsOlder ==
    {r \in runs : Matches(r) /\ (runCursor # NoCursor => r.at < runCursor.at)}

(* The rows behind the cursor. *)
RunsBehind ==
    {r \in runs : Matches(r) /\ (runCursor # NoCursor => Newer(runCursor, r))}

(* The first limit rows: all of them, or as many with none newer left out. *)
IsRunPage(items, rows, limit) ==
    /\ items \subseteq rows
    /\ \/ Cardinality(items) = limit
       \/ items = rows /\ Cardinality(items) < limit
    /\ \A r \in items, s \in rows \ items : Newer(r, s)

ListRuns ==
    /\ runPages # "end"
    /\ \E limit \in Limits, items \in SUBSET RunsBehind :
          /\ IsRunPage(items, RunsBehind, limit)
          /\ runSeen' = [i \in RunIds |->
                            runSeen[i] + Cardinality({r \in items : r.id = i})]
          /\ \/ /\ items # RunsBehind
                /\ runPages' = "more"
                /\ \E last \in items :
                      /\ \A r \in items : r = last \/ Newer(r, last)
                      /\ runCursor' = last
             \/ /\ items = RunsBehind
                /\ runPages' = "end"
                /\ runCursor' = NoCursor
    /\ runsOwed' = IF runPages = "none" THEN RunsBehind ELSE runsOwed
    /\ UNCHANGED <<runs, status, steps, filter, stepList>>

(***************************************************************************)
(* list_steps.                                                             *)
(***************************************************************************)

(* Mutant: the number of the cursor is selected again. *)
StepsFromCursor == {s \in steps : stepCursor # NoCursor => s.number >= stepCursor}

StepsBehind == {s \in steps : stepCursor # NoCursor => s.number > stepCursor}

(* Mutant: the rows are not ordered. *)
IsUnorderedPage(items, rows, limit) ==
    /\ items \subseteq rows
    /\ \/ Cardinality(items) = limit
       \/ items = rows /\ Cardinality(items) < limit

(* ORDER BY step_number: rows with the same number come in any order. *)
IsStepPage(items, rows, limit) ==
    /\ items \subseteq rows
    /\ \/ Cardinality(items) = limit
       \/ items = rows /\ Cardinality(items) < limit
    /\ \A s \in items, t \in rows \ items : s.number <= t.number

(* Mutant: the id is read. *)
DecodedId(s) == s.id

(* encode_step_cursor writes the number and the id of a row, of which       *)
(* decode_step_cursor reads the number.                                     *)
DecodedCursor(s) == s.number

ListSteps ==
    /\ stepPages # "end"
    /\ \E limit \in Limits, items \in SUBSET StepsBehind :
          /\ IsStepPage(items, StepsBehind, limit)
          /\ stepSeen' = [i \in StepIds |->
                             stepSeen[i] + Cardinality({s \in items : s.id = i})]
          /\ \/ /\ items # StepsBehind
                /\ stepPages' = "more"
                /\ \E last \in items :
                      /\ \A s \in items : s.number <= last.number
                      /\ stepCursor' = DecodedCursor(last)
             \/ /\ items = StepsBehind
                /\ stepPages' = "end"
                /\ stepCursor' = NoCursor
    /\ stepsOwed' = IF stepPages = "none" THEN StepsBehind ELSE stepsOwed
    /\ UNCHANGED <<runs, status, steps, runList>>

Next == CreateRun \/ CompleteRun \/ AddStep \/ ListRuns \/ ListSteps

Spec == Init /\ [][Next]_vars

(***************************************************************************)
(* Properties.                                                             *)
(***************************************************************************)

TypeOK ==
    /\ runs \in SUBSET RunRow
    /\ status \in [RunIds -> Statuses]
    /\ steps \in SUBSET StepRow
    /\ filter \in Statuses \cup {NoFilter}
    /\ runCursor \in RunRow \cup {NoCursor}
    /\ runPages \in {"none", "more", "end"}
    /\ runSeen \in [RunIds -> Nat]
    /\ runsOwed \in SUBSET RunRow
    /\ stepCursor \in Numbers \cup {NoCursor}
    /\ stepPages \in {"none", "more", "end"}
    /\ stepSeen \in [StepIds -> Nat]
    /\ stepsOwed \in SUBSET StepRow

(* No run and no step is on two pages of a listing, although runs are       *)
(* created, completed and given steps between the pages.                    *)
ListedOnce ==
    /\ \A i \in RunIds : runSeen[i] <= 1
    /\ \A i \in StepIds : stepSeen[i] <= 1

(* A run that matched the filter from the first page to the last is on one. *)
RunsAllListed ==
    runPages = "end" => \A r \in runsOwed : runSeen[r.id] > 0

(* A step that was there at the first page and is on none has the number of *)
(* one that is.                                                             *)
NumbersAllListed ==
    stepPages = "end" =>
        \A s \in stepsOwed :
            \E t \in steps : t.number = s.number /\ stepSeen[t.id] > 0

(* What README.md says of the cursor of steps, that it is of the number and *)
(* the id: a step that was there at the first page is on some page.         *)
StepsAllListed ==
    stepPages = "end" => \A s \in stepsOwed : stepSeen[s.id] > 0
=============================================================================
