------------------------------- MODULE Tracer -------------------------------
(***************************************************************************)
(* The SDK: a JevTrace object in a host that calls it from one thread, the *)
(* network, and what the API stores of it.                                 *)
(*                                                                         *)
(* With a public key the tracer names its run itself and queues events; a  *)
(* flush posts the queue and puts it back when the call raises.  Without   *)
(* one it posts the run and every step on its own and forgets a step whose *)
(* post raises.  Every post is synchronous with a timeout: a request whose *)
(* client has given up may still reach the API, behind later ones.         *)
(***************************************************************************)
EXTENDS Naturals, Sequences, FiniteSets

CONSTANTS
    FlushAts,     \* values of flush_at
    MaxSteps,     \* bound on the steps the host records
    MaxFailures,  \* bound on the posts that raise
    NoRequest     \* the host awaits no reply

ASSUME FlushAtsAssumption == FlushAts \subseteq Nat

ASSUME MaxStepsAssumption == MaxSteps \in Nat

ASSUME MaxFailuresAssumption == MaxFailures \in Nat

(* Event 0 is the trace-create of the run, event n its step number n. *)
Events == 0 .. MaxSteps

Steps == 1 .. MaxSteps

(* POST ingestion, runs, runs/{id}/steps, complete and analyze. *)
Kinds == {"batch", "run", "step", "complete", "analyze"}

Requests == [kind: Kinds, events: Seq(Events)]

ASSUME NoRequestAssumption == NoRequest \notin Requests

VARIABLES
    batched,    \* a public key is given
    flushAt,    \* _flush_at
    known,      \* run_id is set
    step,       \* _step
    batch,      \* _batch
    pc,         \* what the tracer does next
    after,      \* where it goes on after the reply
    again,      \* an exception of this _post_step is answered by another one
    awaited,    \* the request whose reply it awaits
    answer,     \* the reply to that request
    late,       \* requests given up that may still arrive
    failures,   \* number of posts that raised
    run,        \* how the API came to know the run
    made,       \* number of runs made by POST /runs
    copies,     \* number of rows of each step number
    completed   \* the run has been completed

client  == <<batched, flushAt, known, step, batch, pc, after, again>>
network == <<awaited, answer, late, failures>>
server  == <<run, made, copies, completed>>
vars == <<client, network, server>>

Init ==
    /\ batched \in BOOLEAN
    /\ flushAt \in FlushAts
    /\ known = FALSE
    /\ step = 0
    /\ batch = <<>>
    /\ pc = "idle"
    /\ after = "idle"
    /\ again = FALSE
    /\ awaited = NoRequest
    /\ answer = "none"
    /\ late = {}
    /\ failures = 0
    /\ run = "none"
    /\ made = 0
    /\ copies = [n \in Steps |-> 0]
    /\ completed = FALSE

EventsOf(q) == {q[i] : i \in DOMAIN q}

(* The queue while a flush is under way: what it has taken comes back if it *)
(* raises.                                                                  *)
Unsent ==
    IF pc = "await" /\ awaited.kind = "batch" THEN awaited.events ELSE batch

(***************************************************************************)
(* The calls of the host.                                                  *)
(***************************************************************************)

Goto(label) == pc' = label /\ UNCHANGED <<after, awaited, answer>>

(* self._client.post: the tracer waits and then goes on at label. *)
Post(kind, events, label) ==
    /\ pc' = "await"
    /\ after' = label
    /\ awaited' = [kind |-> kind, events |-> events]
    /\ answer' = "none"

(* Mutant: the queue is not cleared when it is posted. *)
FlushKept(q, label) ==
    /\ batch' = q
    /\ IF q = <<>> THEN Goto(label) ELSE Post("batch", q, label)

(* flush with queue q in _batch. *)
Flush(q, label) ==
    /\ batch' = <<>>
    /\ IF q = <<>> THEN Goto(label) ELSE Post("batch", q, label)

(* _post_step from span or observe, where an exception while recording a    *)
(* success is caught and recorded as a failure (more), or from aspan or a   *)
(* LangChain callback.                                                      *)
Record(more) ==
    /\ pc = "idle"
    /\ step < MaxSteps
    /\ again' = more
    /\ Goto("run")
    /\ UNCHANGED <<batched, flushAt, known, step, batch, late, failures, server>>

(* Mutant: the run id is set and its trace-create is not queued. *)
EnsureRunUnqueued ==
    /\ pc = "run"
    /\ known' = TRUE
    /\ Goto("append")
    /\ UNCHANGED <<batched, flushAt, step, batch, again, late, failures, server>>

(* _ensure_run. *)
EnsureRun ==
    /\ pc = "run"
    /\ \/ /\ known
          /\ Goto("append")
          /\ UNCHANGED <<known, batch>>
       \/ /\ ~known /\ batched
          /\ known' = TRUE
          /\ LET q == Append(batch, 0) IN
             IF Len(q) >= flushAt
             THEN Flush(q, "append")
             ELSE batch' = q /\ Goto("append")
       \/ /\ ~known /\ ~batched
          /\ Post("run", <<>>, "append")
          /\ UNCHANGED <<known, batch>>
    /\ UNCHANGED <<batched, flushAt, step, again, late, failures, server>>

(* Mutant: the counter advances twice for a step. *)
SecondNextStep == step + 2

NextStep == step + 1

(* The rest of _post_step.  A short queue is flushed when the interval has  *)
(* passed since the last flush, which only this call looks at.              *)
AppendStep ==
    /\ pc = "append"
    /\ step' = NextStep
    /\ \/ /\ batched
          /\ LET q == Append(batch, NextStep) IN
             \/ Flush(q, "idle")
             \/ Len(q) < flushAt /\ batch' = q /\ Goto("idle")
       \/ /\ ~batched
          /\ Post("step", <<NextStep>>, "idle")
          /\ UNCHANGED batch
    /\ UNCHANGED <<batched, flushAt, known, again, late, failures, server>>

(* Mutant: complete and analyze do not flush. *)
CallUnflushed(label) ==
    /\ pc = "idle"
    /\ label \in {"complete", "analyze"} => known
    /\ Goto(label)
    /\ UNCHANGED <<batched, flushAt, known, step, batch, again, late, failures, server>>

(* flush, complete, analyze, shutdown and close, each with a flush first;   *)
(* complete returns and analyze raises before a run is known.               *)
Call(label) ==
    /\ pc = "idle"
    /\ label \in {"complete", "analyze"} => known
    /\ Flush(batch, label)
    /\ UNCHANGED <<batched, flushAt, known, step, again, late, failures, server>>

(* Mutant: the post is repeated whatever comes of it. *)
PostCallAgain ==
    /\ pc \in {"complete", "analyze"}
    /\ Post(pc, <<>>, pc)
    /\ UNCHANGED <<batched, flushAt, known, step, batch, again, late, failures, server>>

(* The post that complete or analyze makes after its flush, whatever came   *)
(* of that.                                                                 *)
PostCall ==
    /\ pc \in {"complete", "analyze"}
    /\ Post(pc, <<>>, "idle")
    /\ UNCHANGED <<batched, flushAt, known, step, batch, again, late, failures, server>>

(* The reply is a success. *)
Answered ==
    /\ pc = "await"
    /\ answer = "ok"
    /\ pc' = after
    /\ known' = (known \/ awaited.kind = "run")
    /\ awaited' = NoRequest
    /\ answer' = "none"
    /\ UNCHANGED <<batched, flushAt, step, batch, after, again, late, failures, server>>

(* Mutant: a failed flush keeps the newest event only. *)
RequeuedLast == <<awaited.events[Len(awaited.events)]>>

(* self._batch.extend(batch) *)
Requeued == batch \o awaited.events

(* The post raises: no reply in time, a connection error or an error        *)
(* status.  flush queues its events again; a run is not known and the       *)
(* exception leaves _post_step; the others swallow it or end with it.       *)
Raised ==
    /\ pc = "await"
    /\ failures < MaxFailures
    /\ failures' = failures + 1
    /\ IF awaited.kind = "run"
       THEN /\ pc' = IF again THEN "run" ELSE "idle"
            /\ again' = FALSE
            /\ UNCHANGED batch
       ELSE /\ pc' = after
            /\ batch' = IF awaited.kind = "batch" THEN Requeued ELSE batch
            /\ UNCHANGED again
    /\ late' = IF answer = "none"
               THEN late \cup {[id |-> failures, request |-> awaited]}
               ELSE late
    /\ awaited' = NoRequest
    /\ answer' = "none"
    /\ UNCHANGED <<batched, flushAt, known, step, after, server>>

(***************************************************************************)
(* The API.                                                                *)
(***************************************************************************)

(* The transaction of a request. *)
Serve(request) ==
    \/ /\ request.kind = "batch"
       /\ run' = IF run # "none" THEN run
                 ELSE IF request.events[1] = 0 THEN "named" ELSE "auto"
       /\ copies' = [n \in Steps |->
                        copies[n] + Cardinality({i \in DOMAIN request.events :
                                                    request.events[i] = n})]
       /\ UNCHANGED <<made, completed>>
    \/ /\ request.kind = "run"
       /\ run' = "named"
       /\ made' = made + 1
       /\ UNCHANGED <<copies, completed>>
    \/ /\ request.kind = "step"
       /\ copies' = [copies EXCEPT ![request.events[1]] = @ + 1]
       /\ UNCHANGED <<run, made, completed>>
    \/ /\ request.kind = "complete"
       /\ completed' = (completed \/ run # "none")
       /\ UNCHANGED <<run, made, copies>>
    \/ /\ request.kind = "analyze"
       /\ UNCHANGED server

Arrive ==
    /\ pc = "await"
    /\ answer = "none"
    /\ Serve(awaited)
    /\ answer' = "ok"
    /\ UNCHANGED <<client, awaited, late, failures>>

ArriveLate ==
    /\ \E m \in late : Serve(m.request) /\ late' = late \ {m}
    /\ UNCHANGED <<client, awaited, answer, failures>>

(* The API answers with an error and stores nothing. *)
Reject ==
    /\ pc = "await"
    /\ answer = "none"
    /\ failures < MaxFailures
    /\ answer' = "error"
    /\ UNCHANGED <<client, awaited, late, failures, server>>

Host ==
    \/ \E more \in BOOLEAN : Record(more)
    \/ \E label \in {"idle", "complete", "analyze", "closed"} : Call(label)

Progress == EnsureRun \/ AppendStep \/ PostCall \/ Answered \/ Raised

Next == Host \/ Progress \/ Arrive \/ ArriveLate \/ Reject

Spec == Init /\ [][Next]_vars

(* The host's thread runs inside a call and httpx ends every post, by the   *)
(* reply or its timeout.  The host need not call again.                     *)
Fairness == WF_vars(Progress) /\ WF_vars(Arrive)

FairSpec == Spec /\ Fairness

(***************************************************************************)
(* Properties.                                                             *)
(***************************************************************************)

TypeOK ==
    /\ batched \in BOOLEAN
    /\ flushAt \in FlushAts
    /\ known \in BOOLEAN
    /\ step \in 0 .. MaxSteps
    /\ batch \in Seq(Events)
    /\ pc \in {"idle", "run", "append", "complete", "analyze", "await", "closed"}
    /\ after \in {"idle", "append", "complete", "analyze", "closed"}
    /\ again \in BOOLEAN
    /\ awaited \in Requests \cup {NoRequest}
    /\ answer \in {"none", "ok", "error"}
    /\ late \in SUBSET [id: Nat, request: Requests]
    /\ failures \in 0 .. MaxFailures
    /\ run \in {"none", "named", "auto"}
    /\ made \in Nat
    /\ copies \in [Steps -> Nat]
    /\ completed \in BOOLEAN

(* A queueing tracer loses no step while its process lives: a step is       *)
(* stored or in the queue or in the flush under way, whatever raised.       *)
NothingLost ==
    batched =>
        \A n \in 1 .. step : copies[n] > 0 \/ n \in EventsOf(Unsent)

(* The run of a tracer has the task name the host gave: no observation      *)
(* reaches the API before the trace-create, not even in a batch that was    *)
(* given up and arrives late.                                               *)
RunIsNamed == run # "auto"

(* A row is a copy of another, or a run another tracer's, only if as many   *)
(* posts raised; without a queue no step is ever stored twice.              *)
CopiesNeedFailures ==
    /\ \A n \in Steps : copies[n] <= 1 + (IF batched THEN failures ELSE 0)
    /\ made <= 1 + failures

(* When no post raised, the run is completed, and the tracer closed, only   *)
(* with every step that was recorded before, each stored once.              *)
CompletedWhenStored ==
    [][failures' = 0 /\ ((completed' /\ ~completed) \/ (pc' = "closed"))
          => \A n \in 1 .. step : copies[n] = 1]_vars

(* Every call of the host returns. *)
CallsReturn == pc # "idle" ~> pc \in {"idle", "closed"}

(* The steps a tracer stores are those of TraceLog. *)
Log == INSTANCE TraceLog
       WITH ordered <- batched, recorded <- step,
            stored <- {n \in Steps : copies[n] > 0}

LogSpec == Log!Spec
=============================================================================
