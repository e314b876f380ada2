--------------------------- MODULE TracerThreads ---------------------------
(***************************************************************************)
(* Several threads of a host that share one JevTrace object.               *)
(*                                                                         *)
(* The tracer has no lock.  An interpreter may switch threads between any  *)
(* two accesses of its fields, while a call of a list method is atomic, so *)
(* every access is a step.  Step numbers are left out, and of the network  *)
(* only whether a post stored its events and whether it raised: Tracer has *)
(* the rest, for one thread.                                               *)
(***************************************************************************)
EXTENDS Naturals, Sequences, FiniteSets

CONSTANTS
    Threads,
    FlushAts,     \* values of flush_at
    MaxCalls,     \* bound on the steps each thread records
    MaxFailures,  \* bound on the posts that raise
    NoRun         \* run_id is None

ASSUME ThreadsAssumption == IsFiniteSet(Threads)

ASSUME BoundsAssumption ==
    FlushAts \subseteq Nat /\ MaxCalls \in Nat /\ MaxFailures \in Nat

ASSUME NoRunAssumption == NoRun \notin Nat

(* The n-th step that a thread records, or for n = 0 its trace-create. *)
Events == [by: Threads, n: 0 .. MaxCalls]

VARIABLES
    batched,   \* a public key is given
    flushAt,   \* _flush_at
    runId,     \* run_id
    queue,     \* _batch
    pc,        \* what each thread does next
    after,     \* where it goes on after a flush
    calls,     \* number of steps it has begun to record
    taken,     \* the batch it flushes
    made,      \* number of runs named, or made by POST /runs
    copies,    \* number of rows of each event
    failures,  \* number of posts that raised
    raced,     \* something was queued between another thread's copy and clear
    overlapped \* the queue was copied between another thread's copy and clear

host   == <<batched, flushAt, calls>>
server == <<made, copies, failures>>
races  == <<raced, overlapped>>
vars   == <<host, runId, queue, pc, after, taken, server, races>>

Init ==
    /\ batched \in BOOLEAN
    /\ flushAt \in FlushAts
    /\ runId = NoRun
    /\ queue = <<>>
    /\ pc = [t \in Threads |-> "idle"]
    /\ after = [t \in Threads |-> "idle"]
    /\ calls = [t \in Threads |-> 0]
    /\ taken = [t \in Threads |-> <<>>]
    /\ made = 0
    /\ copies = [e \in Events |-> 0]
    /\ failures = 0
    /\ raced = FALSE
    /\ overlapped = FALSE

EventsOf(q) == {q[i] : i \in DOMAIN q}

Goto(t, label) == pc' = [pc EXCEPT ![t] = label]

(* Another thread is between its copy of the queue and its clear. *)
Clearing(t) == \E u \in Threads \ {t} : pc[u] = "clear"

(* append or extend. *)
Enqueue(t, q) ==
    /\ queue' = queue \o q
    /\ raced' = (raced \/ Clearing(t))

(***************************************************************************)
(* _post_step and _ensure_run.                                             *)
(***************************************************************************)

Record(t) ==
    /\ pc[t] = "idle"
    /\ calls[t] < MaxCalls
    /\ calls' = [calls EXCEPT ![t] = @ + 1]
    /\ Goto(t, "run")
    /\ UNCHANGED <<batched, flushAt, runId, queue, after, taken, server, races>>

(* if self.run_id *)
TestRun(t) ==
    /\ pc[t] = "run"
    /\ Goto(t, CASE runId # NoRun           -> "append"
                 [] runId = NoRun /\ batched  -> "name"
                 [] runId = NoRun /\ ~batched -> "create")
    /\ UNCHANGED <<host, runId, queue, after, taken, server, races>>

(* Mutant: the id stays in a local variable. *)
NameRunLocal(t) ==
    /\ pc[t] = "name"
    /\ made' = made + 1
    /\ Goto(t, "announce")
    /\ UNCHANGED <<host, runId, queue, after, taken, copies, failures, races>>

(* self.run_id = str(uuid.uuid4()) *)
NameRun(t) ==
    /\ pc[t] = "name"
    /\ made' = made + 1
    /\ runId' = made + 1
    /\ Goto(t, "announce")
    /\ UNCHANGED <<host, queue, after, taken, copies, failures, races>>

(* The trace-create is queued; then the queue may be flushed. *)
Announce(t) ==
    /\ pc[t] = "announce"
    /\ Enqueue(t, <<[by |-> t, n |-> 0]>>)
    /\ after' = [after EXCEPT ![t] = "append"]
    /\ Goto(t, "size")
    /\ UNCHANGED <<host, runId, taken, server, overlapped>>

(* Mutant: the id is taken from a error's reply. *)
CreateRunUnchecked(t) ==
    /\ pc[t] = "create"
    /\ made' \in {made, made + 1}
    /\ runId' = made + 1
    /\ Goto(t, "append")
    /\ UNCHANGED <<host, queue, after, taken, copies, failures, races>>

(* POST /runs, and self.run_id = r.json()["id"]; when it raises, _post_step *)
(* ends, whether or not the run was made.                                   *)
CreateRun(t) ==
    /\ pc[t] = "create"
    /\ \/ /\ made' = made + 1
          /\ runId' = made + 1
          /\ Goto(t, "append")
          /\ UNCHANGED failures
       \/ /\ failures < MaxFailures
          /\ failures' = failures + 1
          /\ made' \in {made, made + 1}
          /\ Goto(t, "idle")
          /\ UNCHANGED runId
    /\ UNCHANGED <<host, queue, after, taken, copies, races>>

Step(t) == [by |-> t, n |-> calls[t]]

Stored(q) ==
    [e \in Events |-> copies[e] + Cardinality({i \in DOMAIN q : q[i] = e})]

(* The observation is queued, or the step posted: one that raises is        *)
(* forgotten.                                                               *)
AppendStep(t) ==
    /\ pc[t] = "append"
    /\ \/ /\ batched
          /\ Enqueue(t, <<Step(t)>>)
          /\ after' = [after EXCEPT ![t] = "idle"]
          /\ Goto(t, "size")
          /\ UNCHANGED <<copies, failures>>
       \/ /\ ~batched
          /\ copies' = Stored(<<Step(t)>>)
          /\ UNCHANGED failures
          /\ Goto(t, "idle")
          /\ UNCHANGED <<queue, after, raced>>
       \/ /\ ~batched
          /\ failures < MaxFailures
          /\ failures' = failures + 1
          /\ copies' \in {copies, Stored(<<Step(t)>>)}
          /\ Goto(t, "idle")
          /\ UNCHANGED <<queue, after, raced>>
    /\ UNCHANGED <<host, runId, taken, made, overlapped>>

(* len(self._batch) >= self._flush_at; an observation also looks at the     *)
(* time since the last flush, which may be any.                             *)
TestSize(t) ==
    /\ pc[t] = "size"
    /\ \/ Len(queue) >= flushAt /\ Goto(t, "flush")
       \/ after[t] = "idle" /\ Goto(t, "flush")
       \/ Len(queue) < flushAt /\ Goto(t, after[t])
    /\ UNCHANGED <<host, runId, queue, after, taken, server, races>>

(***************************************************************************)
(* flush.                                                                  *)
(***************************************************************************)

(* flush called by the host, or by complete, analyze, shutdown or close. *)
CallFlush(t) ==
    /\ pc[t] = "idle"
    /\ after' = [after EXCEPT ![t] = "idle"]
    /\ Goto(t, "flush")
    /\ UNCHANGED <<host, runId, queue, taken, server, races>>

(* if not self._batch *)
TestEmpty(t) ==
    /\ pc[t] = "flush"
    /\ Goto(t, IF queue = <<>> THEN after[t] ELSE "copy")
    /\ UNCHANGED <<host, runId, queue, after, taken, server, races>>

(* batch = self._batch[:] *)
CopyBatch(t) ==
    /\ pc[t] = "copy"
    /\ taken' = [taken EXCEPT ![t] = queue]
    /\ overlapped' = (overlapped \/ Clearing(t))
    /\ Goto(t, "clear")
    /\ UNCHANGED <<host, runId, queue, after, server, raced>>

(* Mutant: a flush of one event clears nothing. *)
ClearMany(t) ==
    /\ pc[t] = "clear"
    /\ queue' = IF Len(queue) = 1 THEN queue ELSE <<>>
    /\ Goto(t, "post")
    /\ UNCHANGED <<host, runId, after, taken, server, races>>

(* self._batch.clear(): what came since the copy is gone with the rest. *)
ClearBatch(t) ==
    /\ pc[t] = "clear"
    /\ queue' = <<>>
    /\ Goto(t, "post")
    /\ UNCHANGED <<host, runId, after, taken, server, races>>

(* POST ingestion.  An empty batch is posted too: both of two threads found *)
(* the queue filled before either cleared it.                               *)
PostBatch(t) ==
    /\ pc[t] = "post"
    /\ \/ /\ copies' = Stored(taken[t])
          /\ taken' = [taken EXCEPT ![t] = <<>>]
          /\ Goto(t, after[t])
          /\ UNCHANGED failures
       \/ /\ failures < MaxFailures
          /\ failures' = failures + 1
          /\ copies' \in {copies, Stored(taken[t])}
          /\ Goto(t, "requeue")
          /\ UNCHANGED taken
    /\ UNCHANGED <<host, runId, queue, after, made, races>>

(* Mutant: the exception of a flush is swallowed. *)
ForgetBatch(t) ==
    /\ pc[t] = "requeue"
    /\ taken' = [taken EXCEPT ![t] = <<>>]
    /\ Goto(t, after[t])
    /\ UNCHANGED <<host, runId, queue, after, server, races>>

(* self._batch.extend(batch) *)
Requeue(t) ==
    /\ pc[t] = "requeue"
    /\ Enqueue(t, taken[t])
    /\ taken' = [taken EXCEPT ![t] = <<>>]
    /\ Goto(t, after[t])
    /\ UNCHANGED <<host, runId, after, server, overlapped>>

Progress(t) ==
    \/ TestRun(t) \/ NameRun(t) \/ Announce(t) \/ CreateRun(t)
    \/ AppendStep(t) \/ TestSize(t)
    \/ TestEmpty(t) \/ CopyBatch(t) \/ ClearBatch(t) \/ PostBatch(t) \/ Requeue(t)

Next == \E t \in Threads : Record(t) \/ CallFlush(t) \/ Progress(t)

Spec == Init /\ [][Next]_vars

(***************************************************************************)
(* Properties.                                                             *)
(***************************************************************************)

TypeOK ==
    /\ batched \in BOOLEAN
    /\ flushAt \in FlushAts
    /\ runId \in 1 .. made \cup {NoRun}
    /\ queue \in Seq(Events)
    /\ pc \in [Threads -> {"idle", "run", "name", "announce", "create", "append",
                           "size", "flush", "copy", "clear", "post", "requeue"}]
    /\ after \in [Threads -> {"idle", "append"}]
    /\ calls \in [Threads -> 0 .. MaxCalls]
    /\ taken \in [Threads -> Seq(Events)]
    /\ made \in Nat
    /\ copies \in [Events -> Nat]
    /\ failures \in 0 .. MaxFailures
    /\ raced \in BOOLEAN
    /\ overlapped \in BOOLEAN

(* The thread has not queued the last step it began to record. *)
Recording(t) ==
    pc[t] \in {"run", "name", "announce", "create", "append"} \/ after[t] = "append"

Recorded ==
    {e \in Events : e.n \in 1 .. (calls[e.by] - IF Recording(e.by) THEN 1 ELSE 0)}

(* Threads that share a queueing tracer lose a step only when one of them   *)
(* queues between another's copy of the queue and its clear; whatever else  *)
(* interleaves and raises, the step is stored, queued or being flushed.     *)
LossNeedsRace ==
    batched /\ ~raced =>
        \A e \in Recorded :
            \/ copies[e] > 0
            \/ e \in EventsOf(queue)
            \/ \E t \in Threads : e \in EventsOf(taken[t])

(* A step is stored twice only when its batch was posted again after a      *)
(* failure, once for each, or two flushes copied the queue before either    *)
(* cleared it, and then, when no post raised, never more often than there   *)
(* are threads.  The threads make at most a run each, and one per failure.  *)
CopiesNeedRaces ==
    /\ \A e \in Events :
          /\ ~batched => copies[e] <= 1
          /\ ~overlapped => copies[e] <= 1 + failures
          /\ failures = 0 => copies[e] <= Cardinality(Threads)
    /\ made <= Cardinality(Threads) + failures
=============================================================================
