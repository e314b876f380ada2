------------------------------ MODULE StepStore ------------------------------
(***************************************************************************)
(* The tables runs and steps under concurrent add_step, ingest and         *)
(* receive_traces requests.                                                *)
(*                                                                         *)
(* A request works in one SQLAlchemy session and one READ COMMITTED        *)
(* transaction: it keeps the value of runs.total_steps it loaded, counts   *)
(* in Python and writes the result.  Changes wait in the session until its *)
(* next SELECT or its commit flushes them; the flush takes the lock of     *)
(* each changed runs row (or claims the key of a new one) and the lock is  *)
(* held to the end of the transaction.                                     *)
(***************************************************************************)
EXTENDS Naturals, FiniteSets, Sequences

CONSTANTS
    Runs,      \* run ids
    Adders,    \* POST /runs/{id}/steps requests
    Batches,   \* POST /public/ingestion and /otlp/traces requests
    Contents,  \* the event sequences a batch may carry
    Numbers,   \* step numbers a client chooses; 0 is none
    NoRow,     \* the run does not exist, or the session has not loaded it
    NoOne      \* nobody holds the lock

Requests == Adders \cup Batches

(* A "span" is an OTLP span with a spanId.  One without it goes the way of  *)
(* an observation without a number.  An observation without a usable trace  *)
(* id is one of a run id that nobody else names.                            *)
Events == [kind: {"trace-create", "observation", "span"}, run: Runs, number: Numbers]

StepRow == [run: Runs, number: Nat, by: Requests, pos: Nat]

ASSUME DisjointRequests == Adders \cap Batches = {}

ASSUME NoOneAssumption == NoOne \notin Requests

ASSUME NoRowAssumption == NoRow \notin Nat

ASSUME NumbersAssumption == Numbers \subseteq Nat

ASSUME ContentsAssumption ==
    \A c \in Contents : c \in Seq(Events) /\ Len(c) > 0

VARIABLES
    total,    \* runs.total_steps of each run, NoRow while there is no run
    steps,    \* the rows of table steps, named by request and event
    runLock,  \* the transaction holding each runs row
    pc,       \* how far each request has come
    content,  \* the events of each batch
    at,       \* the event each batch is at
    session,  \* total_steps of the runs in each request's identity map
    fresh,    \* runs each request inserts
    dirty,    \* runs with changes the session has not flushed
    added     \* step rows each request inserts

vars == <<total, steps, runLock, pc, content, at, session, fresh, dirty, added>>

Nothing == [r \in Runs |-> NoRow]

Init ==
    /\ total = Nothing
    /\ steps = {}
    /\ runLock = [r \in Runs |-> NoOne]
    /\ pc = [q \in Requests |-> "idle"]
    /\ content = [b \in Batches |-> <<>>]
    /\ at = [b \in Batches |-> 0]
    /\ session = [q \in Requests |-> Nothing]
    /\ fresh = [q \in Requests |-> {}]
    /\ dirty = [q \in Requests |-> {}]
    /\ added = [q \in Requests |-> {}]

InFlight(q) == pc[q] \in {"open", "commit"}

Advance(q, label) == pc' = [pc EXCEPT ![q] = label]

StepsOf(rows, r) == {s \in rows : s.run = r}

(***************************************************************************)
(* The session.                                                            *)
(***************************************************************************)

(* The flush neither waits for another transaction nor inserts a run that   *)
(* another one has committed.                                               *)
CanFlush(q) ==
    \A r \in dirty[q] :
        \/ runLock[r] = q
        \/ runLock[r] = NoOne /\ (r \in fresh[q] => total[r] = NoRow)

(* Mutant: a flush forgets every lock it does not take. *)
FlushedOnly(q) == [r \in dirty[q] |-> q]

Flushed(q) == [r \in Runs |-> IF r \in dirty[q] THEN q ELSE runLock[r]]

(* Mutant: an aborted transaction keeps what it has locked. *)
LocksKept(q) == runLock

Released(q) == [r \in Runs |-> IF runLock[r] = q THEN NoOne ELSE runLock[r]]

(* The session is closed and its objects are gone. *)
CloseSession(q) ==
    /\ session' = [session EXCEPT ![q] = Nothing]
    /\ fresh' = [fresh EXCEPT ![q] = {}]
    /\ dirty' = [dirty EXCEPT ![q] = {}]
    /\ added' = [added EXCEPT ![q] = {}]

(* Mutant: the rows already flushed survive the rollback. *)
RollbackKeepsRows(q, outcome) ==
    /\ Advance(q, outcome)
    /\ runLock' = Released(q)
    /\ steps' = steps \cup added[q]
    /\ CloseSession(q)
    /\ UNCHANGED <<total, content, at>>

Rollback(q, outcome) ==
    /\ Advance(q, outcome)
    /\ runLock' = Released(q)
    /\ CloseSession(q)
    /\ UNCHANGED <<total, steps, content, at>>

(* The runs rows q writes: those it has flushed and those it flushes now.   *)
Changed(q) == {r \in Runs : r \in dirty[q] \/ runLock[r] = q}

(* Mutant: the counter is incremented once more than steps are stored. *)
CommittedTotalTwice(q) ==
    [r \in Runs |-> IF r \in Changed(q) THEN session[q][r] + 1 ELSE total[r]]

(* The constants the UPDATEs and INSERTs carry, whatever is in the table.   *)
CommittedTotal(q) ==
    [r \in Runs |-> IF r \in Changed(q) THEN session[q][r] ELSE total[r]]

(* session.commit *)
Commit(q) ==
    /\ pc[q] = "commit"
    /\ CanFlush(q)
    /\ total' = CommittedTotal(q)
    /\ steps' = steps \cup added[q]
    /\ runLock' = Released(q)
    /\ Advance(q, "ok")
    /\ CloseSession(q)
    /\ UNCHANGED <<content, at>>

(* IntegrityError: the run to insert is there already.  500. *)
FlushFails(q) ==
    /\ InFlight(q)
    /\ \E r \in dirty[q] \cap fresh[q] : runLock[r] = NoOne /\ total[r] # NoRow
    /\ Rollback(q, "error")

(* The transactions that q's flush waits for. *)
BlockedBy(q) == {runLock[r] : r \in dirty[q]} \ {q, NoOne}

(* PostgreSQL aborts a transaction that waits in a cycle.  500. *)
DeadlockDetected(q) ==
    /\ InFlight(q)
    /\ \E S \in SUBSET Batches :
          /\ q \in S
          /\ {BlockedBy(x) : x \in S} = {{x} : x \in S}
    /\ Rollback(q, "error")

(* The worker process serving q dies. *)
Crash(q) ==
    /\ InFlight(q)
    /\ Rollback(q, "crashed")

(***************************************************************************)
(* add_step.                                                               *)
(***************************************************************************)

(* session.get(Run), then the new row and the new count in the session. *)
AddStep(q, r, n) ==
    /\ pc[q] = "idle"
    /\ IF total[r] = NoRow
       THEN /\ Advance(q, "missing")
            /\ UNCHANGED <<session, dirty, added>>
       ELSE /\ Advance(q, "commit")
            /\ session' = [session EXCEPT ![q][r] = total[r] + 1]
            /\ dirty' = [dirty EXCEPT ![q] = {r}]
            /\ added' = [added EXCEPT ![q] =
                            {[run |-> r, number |-> n, by |-> q, pos |-> 1]}]
    /\ UNCHANGED <<total, steps, runLock, content, at, fresh>>

(***************************************************************************)
(* ingest and receive_traces.                                              *)
(***************************************************************************)

Event(b) == content[b][at[b]]

BatchStart(b) ==
    /\ pc[b] = "idle"
    /\ \E c \in Contents : content' = [content EXCEPT ![b] = c]
    /\ at' = [at EXCEPT ![b] = 1]
    /\ Advance(b, "open")
    /\ UNCHANGED <<total, steps, runLock, session, fresh, dirty, added>>

NextEvent(b) ==
    /\ at' = [at EXCEPT ![b] = @ + 1]
    /\ Advance(b, IF at[b] = Len(content[b]) THEN "commit" ELSE "open")

(* session.get(Run) of a run the session does not have: flush, SELECT, and  *)
(* a new run when there is none.                                            *)
GetRun(b) ==
    LET r == Event(b).run IN
    /\ pc[b] = "open"
    /\ session[b][r] = NoRow
    /\ CanFlush(b)
    /\ runLock' = Flushed(b)
    /\ IF total[r] = NoRow
       THEN /\ session' = [session EXCEPT ![b][r] = 0]
            /\ fresh' = [fresh EXCEPT ![b] = @ \cup {r}]
            /\ dirty' = [dirty EXCEPT ![b] = {r}]
       ELSE /\ session' = [session EXCEPT ![b][r] = total[r]]
            /\ dirty' = [dirty EXCEPT ![b] = {}]
            /\ UNCHANGED fresh
    /\ UNCHANGED <<total, steps, pc, content, at, added>>

(* A trace-create whose run the session has now: nothing more to do. *)
TraceDone(b) ==
    /\ pc[b] = "open"
    /\ Event(b).kind = "trace-create"
    /\ session[b][Event(b).run] # NoRow
    /\ NextEvent(b)
    /\ UNCHANGED <<total, steps, runLock, content, session, fresh, dirty, added>>

(* Mutant: without the autoflush the SELECT misses the session's own rows. *)
LastNumberCommitted(b, r) ==
    CHOOSE n \in {0} \cup {s.number : s \in StepsOf(steps, r)} :
        \A s \in StepsOf(steps, r) : s.number <= n

(* select(Step).order_by(step_number.desc()): committed rows and the        *)
(* session's own.                                                           *)
LastNumber(b, r) ==
    LET rows == StepsOf(steps \cup added[b], r) IN
    CHOOSE n \in {0} \cup {s.number : s \in rows} :
        \A s \in rows : s.number <= n

(* An observation: flush, select the last step, add the next one. *)
AddObservation(b) ==
    LET e == Event(b)
        r == e.run
        n == IF e.number = 0 THEN LastNumber(b, r) + 1 ELSE e.number
    IN
    /\ pc[b] = "open"
    /\ e.kind = "observation"
    /\ session[b][r] # NoRow
    /\ CanFlush(b)
    /\ runLock' = Flushed(b)
    /\ added' = [added EXCEPT ![b] =
                    @ \cup {[run |-> r, number |-> n, by |-> b, pos |-> at[b]]}]
    /\ session' = [session EXCEPT ![b][r] = @ + 1]
    /\ dirty' = [dirty EXCEPT ![b] = {r}]
    /\ NextEvent(b)
    /\ UNCHANGED <<total, steps, content, fresh>>

(* A span: Step.input["spanId"].astext raises AttributeError, as the column *)
(* is of the generic JSON type.  500, and the whole export is rolled back.  *)
AddSpan(b) ==
    /\ pc[b] = "open"
    /\ Event(b).kind = "span"
    /\ session[b][Event(b).run] # NoRow
    /\ CanFlush(b)
    /\ Rollback(b, "error")

BatchStep(b) == GetRun(b) \/ TraceDone(b) \/ AddObservation(b) \/ AddSpan(b)

RequestStep(q) == Commit(q) \/ FlushFails(q) \/ DeadlockDetected(q)

Next ==
    \/ \E q \in Adders, r \in Runs, n \in Numbers : AddStep(q, r, n)
    \/ \E b \in Batches : BatchStart(b) \/ BatchStep(b)
    \/ \E q \in Requests : RequestStep(q) \/ Crash(q)

Spec == Init /\ [][Next]_vars

(* The event loop runs every ready task, PostgreSQL hands a released lock   *)
(* on and breaks deadlocks.                                                 *)
Fairness ==
    /\ \A q \in Requests : WF_vars(RequestStep(q))
    /\ \A b \in Batches : WF_vars(BatchStep(b))

FairSpec == Spec /\ Fairness

(***************************************************************************)
(* Properties.                                                             *)
(***************************************************************************)

TypeOK ==
    /\ total \in [Runs -> Nat \cup {NoRow}]
    /\ steps \in SUBSET StepRow
    /\ runLock \in [Runs -> Requests \cup {NoOne}]
    /\ pc \in [Requests -> {"idle", "open", "commit", "ok", "missing", "error", "crashed"}]
    /\ content \in [Batches -> Contents \cup {<<>>}]
    /\ at \in [Batches -> Nat]
    /\ session \in [Requests -> [Runs -> Nat \cup {NoRow}]]
    /\ fresh \in [Requests -> SUBSET Runs]
    /\ dirty \in [Requests -> SUBSET Runs]
    /\ added \in [Requests -> SUBSET StepRow]

(* total_steps never exceeds the steps stored for the run: a counter that   *)
(* was loaded before an await and written back later may lose the steps of  *)
(* others but never counts one that rolled back or was counted before.      *)
TotalAtMostSteps ==
    \A r \in Runs :
        total[r] # NoRow => total[r] <= Cardinality(StepsOf(steps, r))

(* A run shows zero steps exactly when it has none, whatever was lost.      *)
SteppedRunIsCounted ==
    \A r \in Runs : StepsOf(steps, r) # {} => total[r] # NoRow /\ total[r] > 0

(* A batch that was answered with success has stored every observation, and *)
(* any other batch none: neither the flushes between its events nor an      *)
(* abort on a lock, a key or a crash leaves part of it in the table.        *)
BatchAllOrNothing ==
    \A b \in Batches :
        {s.pos : s \in {x \in steps : x.by = b}} =
            IF pc[b] = "ok"
            THEN {i \in DOMAIN content[b] : content[b][i].kind = "observation"}
            ELSE {}

(* Observations of one batch that leave the numbering to the server are     *)
(* numbered after the earlier ones of the batch, although none of those is  *)
(* committed when the number is taken.                                      *)
AutoNumbersIncrease ==
    \A s, t \in steps :
        /\ s.by = t.by /\ s.run = t.run /\ s.pos < t.pos
        /\ s.by \in Batches /\ content[t.by][t.pos].number = 0
        => s.number < t.number

(* Every request that reaches the API is answered: batches that lock their  *)
(* runs in opposite orders do not wait for ever.                            *)
EveryRequestAnswered ==
    \A q \in Requests : InFlight(q) ~> ~InFlight(q)

(* The requests together implement the log of StepLog. *)
Log == INSTANCE StepLog WITH Writers <- Requests

LogSpec == Log!Spec

(* What ingest.py says of its counter ("also ensure run total_steps         *)
(* updated"): once nothing is in flight it is the number of steps.          *)
TotalStepsExact ==
    (\A q \in Requests : ~InFlight(q)) =>
        \A r \in Runs :
            total[r] # NoRow => total[r] = Cardinality(StepsOf(steps, r))
=============================================================================
