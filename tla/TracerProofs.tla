---------------------------- MODULE TracerProofs ----------------------------
(***************************************************************************)
(* Proofs about Tracer for any number of steps and of failures and any     *)
(* flush_at.                                                               *)
(***************************************************************************)
EXTENDS Tracer, SequenceTheorems, FiniteSetTheorems, TLAPS

(* The events of queue q are those numbered lo to hi, in order. *)
IsSpan(q, lo, hi) ==
    /\ Len(q) = hi - lo + 1
    /\ \A i \in 1 .. Len(q) : q[i] = lo + i - 1

(* The events before lo have been stored, the trace-create as the first. *)
StoredBefore(lo) ==
    /\ lo > 0 => run = "named"
    /\ \A n \in Steps : n < lo => copies[n] > 0

(* Only a queueing tracer posts batches, each a stretch of the events whose *)
(* predecessors were stored when it was posted; only another one posts a    *)
(* run or a step.                                                           *)
WellFormed(request) ==
    /\ request.kind = "batch" =>
           /\ batched
           /\ \E lo, hi \in 0 .. step :
                  /\ lo <= hi
                  /\ IsSpan(request.events, lo, hi)
                  /\ StoredBefore(lo)
    /\ request.kind = "step" =>
           /\ ~batched
           /\ \E n \in 1 .. step : request.events = <<n>>
    /\ request.kind = "run" => ~batched

LateWellFormed == \A m \in late : WellFormed(m.request)

(* An awaited batch was the whole queue, and its success means it is stored. *)
AwaitedWellFormed ==
    pc = "await" =>
        /\ awaited # NoRequest
        /\ WellFormed(awaited)
        /\ awaited.kind = "run" => after = "append"
        /\ awaited.kind = "batch" => batch = <<>>
        /\ awaited.kind = "batch" /\ answer = "ok" =>
               /\ run = "named"
               /\ \A n \in Steps : n \in EventsOf(awaited.events) => copies[n] > 0

(* The queue ends with the last event and begins where the stored ones end. *)
QueueIsSuffix ==
    /\ ~batched => batch = <<>>
    /\ batched /\ known =>
           \E lo \in 0 .. step + 1 : IsSpan(Unsent, lo, step) /\ StoredBefore(lo)
    /\ batched /\ ~known => Unsent = <<>> /\ step = 0

(* What holds at each point of _post_step. *)
InPostStep ==
    pc \in {"run", "append"} \/ (pc = "await" /\ after = "append") =>
        /\ step < MaxSteps
        /\ batched /\ pc # "run" => known

Stored == {n \in Steps : copies[n] > 0}

StoredIsPrefix ==
    /\ Stored \subseteq 1 .. step
    /\ batched => \E k \in 0 .. step : Stored = 1 .. k

IInv ==
    /\ TypeOK
    /\ RunIsNamed
    /\ LateWellFormed
    /\ AwaitedWellFormed
    /\ QueueIsSuffix
    /\ InPostStep
    /\ StoredIsPrefix

USE FlushAtsAssumption, MaxStepsAssumption, MaxFailuresAssumption, NoRequestAssumption

LEMMA InitIInv == Init => IInv
  <1> SUFFICES ASSUME Init PROVE IInv
    OBVIOUS
  <1>1. <<>> \in Seq(Events)
    BY EmptySeq
  <1>2. TypeOK
    <2>1. late \in SUBSET [id : Nat, request : Requests]
      BY DEF Init
    <2>2. copies \in [Steps -> Nat]
      BY DEF Init
    <2>3. /\ batched \in BOOLEAN /\ known \in BOOLEAN
          /\ again \in BOOLEAN /\ completed \in BOOLEAN
      BY DEF Init
    <2>4. /\ flushAt \in FlushAts /\ step \in 0 .. MaxSteps
          /\ failures \in 0 .. MaxFailures /\ made \in Nat
      BY DEF Init
    <2> QED
      BY <1>1, <2>1, <2>2, <2>3, <2>4 DEF Init, TypeOK
  <1>3. Stored = 1 .. 0
    BY DEF Init, Stored, Steps
  <1> QED
    BY <1>2, <1>3 DEF Init, IInv, RunIsNamed, LateWellFormed, AwaitedWellFormed,
       QueueIsSuffix, InPostStep, StoredIsPrefix, Unsent

(* What has been stored stays stored, and the run stays named. *)
Kept ==
    /\ \A n \in Steps : copies[n] > 0 => copies'[n] > 0
    /\ run = "named" => run' = "named"

LEMMA StoredBeforeStays ==
  ASSUME NEW lo \in Nat, StoredBefore(lo), Kept
  PROVE  StoredBefore(lo)'
  BY DEF StoredBefore, Kept

LEMMA WellFormedStays ==
  ASSUME NEW request, WellFormed(request), Kept, step \in Nat, step' \in Nat,
         step' >= step, batched' = batched
  PROVE  WellFormed(request)'
  <1>1. ASSUME request.kind = "batch"
        PROVE  /\ batched'
               /\ \E lo, hi \in 0 .. step' :
                      lo <= hi /\ IsSpan(request.events, lo, hi) /\ StoredBefore(lo)'
    <2>1. PICK lo \in 0 .. step, hi \in 0 .. step :
              lo <= hi /\ IsSpan(request.events, lo, hi) /\ StoredBefore(lo)
      BY <1>1 DEF WellFormed
    <2>2. StoredBefore(lo)'
      BY <2>1, StoredBeforeStays
    <2>3. lo \in 0 .. step' /\ hi \in 0 .. step'
      BY <2>1
    <2> QED
      BY <1>1, <2>1, <2>2, <2>3 DEF WellFormed
  <1>2. ASSUME request.kind = "step"
        PROVE  ~batched' /\ \E n \in 1 .. step' : request.events = <<n>>
    BY <1>2 DEF WellFormed
  <1>3. request.kind = "run" => ~batched'
    BY DEF WellFormed
  <1> QED
    BY <1>1, <1>2, <1>3 DEF WellFormed, IsSpan

LEMMA LateStays ==
  ASSUME LateWellFormed, Kept, step \in Nat, step' \in Nat, step' >= step,
         batched' = batched, late' \subseteq late
  PROVE  LateWellFormed'
  <1> SUFFICES ASSUME NEW m \in late' PROVE WellFormed(m.request)'
    BY DEF LateWellFormed
  <1>1. WellFormed(m.request)
    BY DEF LateWellFormed
  <1> QED
    BY <1>1, WellFormedStays

(***************************************************************************)
(* The API.                                                                *)
(***************************************************************************)

LEMMA SpanEvents ==
  ASSUME NEW q \in Seq(Events), NEW lo \in Nat, NEW hi \in Nat,
         IsSpan(q, lo, hi), lo <= hi
  PROVE  /\ EventsOf(q) = lo .. hi
         /\ q[1] = lo
  <1>1. DOMAIN q = 1 .. hi - lo + 1 /\ \A i \in 1 .. hi - lo + 1 : q[i] = lo + i - 1
    BY LenProperties DEF IsSpan
  <1>2. ASSUME NEW n \in lo .. hi PROVE n \in EventsOf(q)
    <2>1. n - lo + 1 \in 1 .. hi - lo + 1 /\ q[n - lo + 1] = n
      BY <1>1
    <2> QED
      BY <1>1, <2>1 DEF EventsOf
  <1>3. ASSUME NEW n \in EventsOf(q) PROVE n \in lo .. hi
    <2>1. PICK i \in 1 .. hi - lo + 1 : n = q[i]
      BY <1>1 DEF EventsOf
    <2> QED
      BY <1>1, <2>1
  <1>4. EventsOf(q) = lo .. hi
    BY <1>2, <1>3
  <1>5. q[1] = lo
    BY <1>1
  <1> QED
    BY <1>4, <1>5

(* How many rows a batch adds to a step: none unless it has its event. *)
LEMMA RowsOfBatch ==
  ASSUME NEW q \in Seq(Events), NEW n
  PROVE  LET rows == {i \in DOMAIN q : q[i] = n} IN
         /\ Cardinality(rows) \in Nat
         /\ Cardinality(rows) > 0 <=> n \in EventsOf(q)
  <1> DEFINE rows == {i \in DOMAIN q : q[i] = n}
  <1>1. Len(q) \in Nat /\ DOMAIN q = 1 .. Len(q)
    BY LenProperties
  <1>2. IsFiniteSet(DOMAIN q)
    BY <1>1, FS_Interval
  <1>3. IsFiniteSet(rows)
    BY <1>2, FS_Subset
  <1>4. Cardinality(rows) \in Nat
    BY <1>3, FS_CardinalityType
  <1>5. Cardinality(rows) = 0 <=> rows = {}
    BY <1>3, FS_EmptySet
  <1>6. rows # {} <=> n \in EventsOf(q)
    BY DEF EventsOf
  <1> QED
    BY <1>4, <1>5, <1>6

(* The transaction of a well-formed request keeps what is stored, adds no   *)
(* step that was not recorded and no gap.                                   *)
LEMMA ServeStores ==
  ASSUME TypeOK, RunIsNamed, StoredIsPrefix, step' = step, batched' = batched,
         NEW request \in Requests, WellFormed(request), Serve(request)
  PROVE  /\ run' \in {"none", "named"} /\ made' \in Nat
         /\ copies' \in [Steps -> Nat] /\ completed' \in BOOLEAN
         /\ Kept
         /\ StoredIsPrefix'
         /\ request.kind = "batch" =>
                /\ run' = "named"
                /\ \A n \in Steps : n \in EventsOf(request.events) => copies'[n] > 0
  <1>1. CASE request.kind = "batch"
    <2> DEFINE q == request.events
    <2>1. PICK lo \in 0 .. step, hi \in 0 .. step :
              lo <= hi /\ IsSpan(q, lo, hi) /\ StoredBefore(lo)
      BY <1>1 DEF WellFormed
    <2>2. step \in Nat /\ q \in Seq(Events)
      BY DEF TypeOK, Requests
    <2>3. EventsOf(q) = lo .. hi /\ q[1] = lo
      <3> HIDE DEF q
      <3>1. lo \in Nat /\ hi \in Nat
        BY <2>2
      <3> QED
        BY <2>1, <2>2, <3>1, SpanEvents
    <2>4. /\ run' = IF run # "none" THEN run ELSE IF q[1] = 0 THEN "named" ELSE "auto"
          /\ copies' = [n \in Steps |->
                           copies[n] + Cardinality({i \in DOMAIN q : q[i] = n})]
          /\ UNCHANGED <<made, completed>>
      BY <1>1 DEF Serve
    <2>5. run' = "named"
      <3>1. run \in {"none", "named"}
        BY DEF TypeOK, RunIsNamed
      <3>2. run = "none" => lo = 0
        BY <2>1 DEF StoredBefore
      <3> QED
        BY <2>3, <2>4, <3>1, <3>2
    <2>6. \A n \in Steps : /\ copies'[n] \in Nat
                           /\ copies'[n] > 0 <=> copies[n] > 0 \/ n \in lo .. hi
      <3> TAKE n \in Steps
      <3> DEFINE added == Cardinality({i \in DOMAIN q : q[i] = n})
      <3>1. copies'[n] = copies[n] + added
        BY <2>4
      <3>2. copies[n] \in Nat
        BY DEF TypeOK
      <3>3. added \in Nat /\ (added > 0 <=> n \in lo .. hi)
        BY <2>2, <2>3, RowsOfBatch
      <3> HIDE DEF added
      <3> QED
        BY <3>1, <3>2, <3>3
    <2>7. copies' \in [Steps -> Nat]
      BY <2>4, <2>6
    <2>8. Kept
      BY <2>5, <2>6 DEF Kept
    <2>9. StoredIsPrefix'
      <3>1. batched
        BY <1>1 DEF WellFormed
      <3>2. PICK k \in 0 .. step : Stored = 1 .. k
        BY <3>1 DEF StoredIsPrefix
      <3>3. \A n \in Steps : n < lo => n <= k
        BY <2>1, <3>2 DEF StoredBefore, Stored, Steps
      <3>4. PICK last \in 0 .. step : hi <= last /\ k <= last /\ last \in {hi, k}
        BY <2>2
      <3>6. step <= MaxSteps
        BY DEF TypeOK
      <3>5. Stored' = 1 .. last
        <4>1. \A n \in Steps : copies[n] > 0 <=> n <= k
          BY <3>2 DEF Stored, Steps
        <4>2. \A n \in Steps : copies'[n] > 0 <=> n <= last
          BY <2>1, <2>2, <2>6, <3>2, <3>3, <3>4, <4>1 DEF Steps
        <4>3. Stored' = {n \in 1 .. MaxSteps : n <= last}
          BY <4>2 DEF Stored, Steps
        <4> QED
          BY <2>2, <3>4, <3>6, <4>3
      <3> QED
        BY <2>2, <3>5 DEF StoredIsPrefix
    <2> QED
      BY <1>1, <2>3, <2>4, <2>5, <2>6, <2>7, <2>8, <2>9 DEF TypeOK
  <1>2. CASE request.kind = "step"
    <2>1. PICK n \in 1 .. step : request.events = <<n>>
      BY <1>2 DEF WellFormed
    <2>2. n \in Steps /\ request.events[1] = n
      BY <2>1 DEF TypeOK, Steps
    <2>3. copies' = [copies EXCEPT ![n] = copies[n] + 1] /\ UNCHANGED <<run, made, completed>>
      BY <1>2, <2>2 DEF Serve
    <2>4. copies' \in [Steps -> Nat] /\ Kept
      BY <2>2, <2>3 DEF TypeOK, Kept
    <2>5. StoredIsPrefix'
      <3>1. ~batched
        BY <1>2 DEF WellFormed
      <3>2. Stored' = Stored \cup {n}
        BY <2>2, <2>3 DEF TypeOK, Stored
      <3> QED
        BY <2>1, <3>1, <3>2 DEF StoredIsPrefix
    <2> QED
      BY <1>2, <2>3, <2>4, <2>5 DEF TypeOK, RunIsNamed
  <1>3. CASE request.kind \in {"run", "complete", "analyze"}
    <2>1. /\ copies' = copies /\ run' \in {run, "named"}
          /\ made' \in {made, made + 1}
          /\ completed' \in {completed, completed \/ run # "none"}
      BY <1>3 DEF Serve, server
    <2>2. StoredIsPrefix'
      BY <2>1 DEF StoredIsPrefix, Stored
    <2>3. completed' \in BOOLEAN
      BY <2>1 DEF TypeOK
    <2>4. /\ run' \in {"none", "named"} /\ made' \in Nat
          /\ copies' \in [Steps -> Nat] /\ Kept
      BY <2>1 DEF TypeOK, RunIsNamed, Kept
    <2> QED
      BY <1>3, <2>2, <2>3, <2>4
  <1> QED
    BY <1>1, <1>2, <1>3 DEF Requests, Kinds

(***************************************************************************)
(* The actions of the API and the network.                                 *)
(***************************************************************************)

LEMMA UnsentType ==
  ASSUME TypeOK, AwaitedWellFormed
  PROVE  Unsent \in Seq(Events)
  BY DEF TypeOK, AwaitedWellFormed, Unsent, Requests

(* A queue that is a suffix remains one when the API stores more. *)
LEMMA SuffixStays ==
  ASSUME QueueIsSuffix, Kept, step \in Nat, UNCHANGED <<batched, known, step, batch>>,
         Unsent' = Unsent
  PROVE  QueueIsSuffix'
  <1>1. ASSUME batched, known
        PROVE  \E lo \in 0 .. step' + 1 : IsSpan(Unsent', lo, step') /\ StoredBefore(lo)'
    <2>1. PICK lo \in 0 .. step + 1 : IsSpan(Unsent, lo, step) /\ StoredBefore(lo)
      BY <1>1 DEF QueueIsSuffix
    <2>2. StoredBefore(lo)'
      BY <2>1, StoredBeforeStays
    <2> QED
      BY <2>1, <2>2
  <1>2. /\ ~batched' => batch' = <<>>
        /\ batched' /\ ~known' => Unsent' = <<>> /\ step' = 0
    BY DEF QueueIsSuffix
  <1> QED
    BY <1>1, <1>2 DEF QueueIsSuffix, IsSpan

LEMMA ArriveIInv ==
  ASSUME IInv, Arrive
  PROVE  IInv'
  <1>1. PICK request \in Requests : request = awaited
    BY DEF IInv, TypeOK, AwaitedWellFormed, Arrive
  <1>2. WellFormed(request)
    BY <1>1 DEF IInv, AwaitedWellFormed, Arrive
  <1>3. Serve(request)
    BY <1>1 DEF Arrive, Serve
  <1>4. /\ UNCHANGED <<client, awaited, late, failures>>
        /\ answer' = "ok" /\ pc = "await"
    BY DEF Arrive
  <1>5. step' = step /\ batched' = batched /\ known' = known /\ batch' = batch /\ pc' = pc
    BY <1>4 DEF client
  <1>6. /\ run' \in {"none", "named"} /\ made' \in Nat
        /\ copies' \in [Steps -> Nat] /\ completed' \in BOOLEAN
        /\ Kept
        /\ StoredIsPrefix'
        /\ request.kind = "batch" =>
               /\ run' = "named"
               /\ \A n \in Steps : n \in EventsOf(request.events) => copies'[n] > 0
    BY <1>2, <1>3, <1>5, ServeStores DEF IInv
  <1>7. step \in Nat
    BY DEF IInv, TypeOK
  <1>8. TypeOK'
    BY <1>4, <1>6 DEF IInv, TypeOK, client
  <1>9. LateWellFormed'
    BY <1>4, <1>5, <1>6, <1>7, LateStays DEF IInv
  <1>10. AwaitedWellFormed'
    <2>1. WellFormed(request)'
      BY <1>2, <1>5, <1>6, <1>7, WellFormedStays
    <2>2. awaited' = request
      BY <1>1, <1>4
    <2> QED
      BY <1>1, <1>4, <1>5, <1>6, <2>1, <2>2
      DEF IInv, AwaitedWellFormed, WellFormed, EventsOf, client
  <1>11. QueueIsSuffix'
    <2>1. Unsent' = Unsent
      BY <1>4, <1>5 DEF Unsent
    <2> QED
      BY <1>5, <1>6, <1>7, <2>1, SuffixStays DEF IInv
  <1>12. InPostStep'
    BY <1>4 DEF IInv, InPostStep, client
  <1> QED
    BY <1>6, <1>8, <1>9, <1>10, <1>11, <1>12 DEF IInv, RunIsNamed

LEMMA ArriveLateIInv ==
  ASSUME IInv, ArriveLate
  PROVE  IInv'
  <1>1. PICK m \in late : Serve(m.request) /\ late' = late \ {m}
    BY DEF ArriveLate
  <1> DEFINE request == m.request
  <1>2. request \in Requests
    BY DEF IInv, TypeOK
  <1>3. WellFormed(request)
    BY DEF IInv, LateWellFormed
  <1>4. UNCHANGED <<client, awaited, answer, failures>>
    BY DEF ArriveLate
  <1>5. step' = step /\ batched' = batched /\ known' = known /\ batch' = batch /\ pc' = pc
    BY <1>4 DEF client
  <1>6. /\ run' \in {"none", "named"} /\ made' \in Nat
        /\ copies' \in [Steps -> Nat] /\ completed' \in BOOLEAN
        /\ Kept
        /\ StoredIsPrefix'
    BY <1>1, <1>2, <1>3, <1>5, ServeStores DEF IInv
  <1>7. step \in Nat
    BY DEF IInv, TypeOK
  <1>8. TypeOK'
    BY <1>1, <1>4, <1>6 DEF IInv, TypeOK, client
  <1>9. LateWellFormed'
    BY <1>1, <1>5, <1>6, <1>7, LateStays DEF IInv
  <1>10. AwaitedWellFormed'
    <2> SUFFICES ASSUME pc = "await" PROVE AwaitedWellFormed'
      BY <1>5 DEF AwaitedWellFormed
    <2>1. PICK other \in Requests : other = awaited
      BY DEF IInv, TypeOK, AwaitedWellFormed
    <2>2. WellFormed(other)
      BY <2>1 DEF IInv, AwaitedWellFormed
    <2>3. WellFormed(other)'
      BY <1>5, <1>6, <1>7, <2>2, WellFormedStays
    <2>4. WellFormed(awaited)'
      BY <1>4, <2>1, <2>3 DEF WellFormed
    <2>5. /\ awaited' # NoRequest
          /\ awaited'.kind = "run" => after' = "append"
          /\ awaited'.kind = "batch" => batch' = <<>>
      BY <1>4, <1>5 DEF IInv, AwaitedWellFormed, client
    <2> QED
      BY <1>4, <1>6, <2>4, <2>5 DEF IInv, AwaitedWellFormed, Kept, EventsOf
  <1>11. QueueIsSuffix'
    <2>1. Unsent' = Unsent
      BY <1>4, <1>5 DEF Unsent
    <2> QED
      BY <1>5, <1>6, <1>7, <2>1, SuffixStays DEF IInv
  <1>12. InPostStep'
    BY <1>4 DEF IInv, InPostStep, client
  <1> QED
    BY <1>6, <1>8, <1>9, <1>10, <1>11, <1>12 DEF IInv, RunIsNamed

LEMMA ServerUnchanged == UNCHANGED server => Kept
  BY DEF server, Kept

(* An action that leaves the API alone and only awaits what is well formed  *)
(* keeps what is not about the queue.                                       *)
LEMMA ClientStep ==
  ASSUME IInv, UNCHANGED <<batched, server>>, step' \in Nat, step' >= step,
         late' \subseteq late
  PROVE  /\ Kept
         /\ RunIsNamed'
         /\ LateWellFormed'
         /\ StoredIsPrefix'
  <1>1. Kept
    BY ServerUnchanged
  <1>2. step \in Nat
    BY DEF IInv, TypeOK
  <1>3. LateWellFormed'
    BY <1>1, <1>2, LateStays DEF IInv
  <1>4. Stored' = Stored
    BY DEF server, Stored
  <1>5. StoredIsPrefix'
    BY <1>2, <1>4 DEF IInv, StoredIsPrefix
  <1>6. RunIsNamed'
    BY DEF IInv, RunIsNamed, server
  <1> QED
    BY <1>1, <1>3, <1>5, <1>6

LEMMA RejectIInv ==
  ASSUME IInv, Reject
  PROVE  IInv'
  <1>1. step' = step /\ batched' = batched /\ step \in Nat
    BY DEF IInv, TypeOK, Reject, client
  <1>2. Kept /\ RunIsNamed' /\ LateWellFormed' /\ StoredIsPrefix'
    BY <1>1, ClientStep DEF Reject
  <1>3. TypeOK'
    BY DEF IInv, TypeOK, Reject, client, server
  <1>4. AwaitedWellFormed'
    BY DEF IInv, AwaitedWellFormed, WellFormed, StoredBefore, Reject, client, server
  <1>5. QueueIsSuffix' /\ InPostStep'
    BY DEF IInv, QueueIsSuffix, Unsent, StoredBefore, InPostStep, Reject, client, server
  <1> QED
    BY <1>2, <1>3, <1>4, <1>5 DEF IInv

(***************************************************************************)
(* The actions of the tracer.                                              *)
(***************************************************************************)

LEMMA RecordIInv ==
  ASSUME IInv, NEW more \in BOOLEAN, Record(more)
  PROVE  IInv'
  <1>1. step' = step /\ batched' = batched /\ step \in Nat
    BY DEF IInv, TypeOK, Record
  <1>2. Kept /\ RunIsNamed' /\ LateWellFormed' /\ StoredIsPrefix'
    BY <1>1, ClientStep DEF Record
  <1>3. TypeOK'
    BY DEF IInv, TypeOK, Record, Goto, server
  <1>4. AwaitedWellFormed'
    BY DEF AwaitedWellFormed, Record, Goto
  <1>5. QueueIsSuffix'
    BY DEF IInv, QueueIsSuffix, Unsent, StoredBefore, Record, Goto, server
  <1>6. InPostStep'
    BY DEF InPostStep, Record, Goto
  <1> QED
    BY <1>2, <1>3, <1>4, <1>5, <1>6 DEF IInv

Labels == {"idle", "append", "complete", "analyze", "closed"}

(* A flush of a queue that is a suffix of the events. *)
LEMMA FlushQueue ==
  ASSUME TypeOK, NEW q \in Seq(Events), NEW label \in Labels, Flush(q, label),
         UNCHANGED <<batched, server>>, step' \in Nat,
         q # <<>> => /\ batched
                     /\ \E lo \in 0 .. step' + 1 : IsSpan(q, lo, step') /\ StoredBefore(lo)
  PROVE  /\ batch' = <<>> /\ batch' \in Seq(Events)
         /\ pc' \in {label, "await"} /\ after' \in Labels
         /\ pc' = "await" => after' = label
         /\ awaited' \in Requests \cup {NoRequest}
         /\ answer' \in {"none", "ok", "error"}
         /\ AwaitedWellFormed'
         /\ Unsent' = q
  <1>1. <<>> \in Seq(Events)
    BY EmptySeq
  <1>2. CASE q = <<>>
    BY <1>1, <1>2 DEF Flush, Goto, TypeOK, Labels, AwaitedWellFormed, Unsent
  <1>3. CASE q # <<>>
    <2> DEFINE request == [kind |-> "batch", events |-> q]
    <2>1. /\ batch' = <<>> /\ pc' = "await" /\ after' = label
          /\ awaited' = request /\ answer' = "none"
      BY <1>3 DEF Flush, Post
    <2>2. request \in Requests /\ request.kind = "batch" /\ request.events = q
      BY DEF Requests, Kinds
    <2>3. PICK lo \in 0 .. step' + 1 : IsSpan(q, lo, step') /\ StoredBefore(lo)
      BY <1>3
    <2>4. lo <= step'
      BY <1>3, <2>3, EmptySeq, LenProperties DEF IsSpan
    <2>5. StoredBefore(lo)'
      BY <2>3, ServerUnchanged, StoredBeforeStays
    <2> HIDE DEF request
    <2>6. WellFormed(awaited)'
      <3>1. awaited'.kind = "batch" /\ awaited'.events = q
        BY <2>1, <2>2
      <3>2. /\ batched'
            /\ \E l, h \in 0 .. step' :
                   l <= h /\ IsSpan(awaited'.events, l, h) /\ StoredBefore(l)'
        BY <1>3, <2>3, <2>4, <2>5, <3>1
      <3> QED
        BY <3>1, <3>2 DEF WellFormed, IsSpan
    <2>7. AwaitedWellFormed'
      BY <2>1, <2>2, <2>6 DEF AwaitedWellFormed
    <2> QED
      BY <1>1, <2>1, <2>2, <2>7 DEF Unsent
  <1> QED
    BY <1>2, <1>3

(* A post of something else than the queue. *)
LEMMA PostOther ==
  ASSUME IInv, pc # "await", NEW kind \in Kinds \ {"batch"}, NEW events \in Seq(Events),
         NEW label \in Labels, Post(kind, events, label),
         UNCHANGED <<batched, batch, server>>,
         kind = "run" => ~batched /\ label = "append",
         kind = "step" => ~batched /\ \E n \in 1 .. step' : events = <<n>>
  PROVE  /\ pc' = "await" /\ after' = label
         /\ awaited' \in Requests /\ answer' \in {"none", "ok", "error"}
         /\ AwaitedWellFormed'
         /\ Unsent' = batch
  <1> DEFINE request == [kind |-> kind, events |-> events]
  <1>1. pc' = "await" /\ after' = label /\ awaited' = request /\ answer' = "none"
    BY DEF Post
  <1>2. request \in Requests /\ request.kind = kind /\ request.events = events
    BY DEF Requests
  <1> HIDE DEF request
  <1>3. AwaitedWellFormed'
    BY <1>1, <1>2 DEF AwaitedWellFormed, WellFormed
  <1> QED
    BY <1>1, <1>2, <1>3 DEF Unsent

LEMMA CallIInv ==
  ASSUME IInv, NEW label \in {"idle", "complete", "analyze", "closed"}, Call(label)
  PROVE  IInv'
  <1>1. step' = step /\ batched' = batched /\ known' = known /\ step \in Nat /\ pc = "idle"
    BY DEF IInv, TypeOK, Call
  <1>2. Kept /\ RunIsNamed' /\ LateWellFormed' /\ StoredIsPrefix'
    BY <1>1, ClientStep DEF Call
  <1>3. Unsent = batch /\ batch \in Seq(Events) /\ label \in Labels
    BY <1>1 DEF IInv, TypeOK, Unsent, Labels
  <1>4. batch # <<>> =>
            /\ batched
            /\ \E lo \in 0 .. step' + 1 : IsSpan(batch, lo, step') /\ StoredBefore(lo)
    BY <1>1, <1>3 DEF IInv, QueueIsSuffix, TypeOK
  <1>5. /\ batch' = <<>> /\ batch' \in Seq(Events)
        /\ pc' \in {label, "await"} /\ after' \in Labels
        /\ pc' = "await" => after' = label
        /\ awaited' \in Requests \cup {NoRequest}
        /\ answer' \in {"none", "ok", "error"}
        /\ AwaitedWellFormed'
        /\ Unsent' = batch
    BY <1>1, <1>3, <1>4, FlushQueue DEF Call, IInv
  <1>6. TypeOK'
    BY <1>1, <1>5 DEF IInv, TypeOK, Call, server, Labels
  <1>7. QueueIsSuffix'
    BY <1>1, <1>3, <1>5 DEF IInv, QueueIsSuffix, StoredBefore, Call, server
  <1>8. InPostStep'
    BY <1>5 DEF InPostStep
  <1> QED
    BY <1>2, <1>5, <1>6, <1>7, <1>8 DEF IInv

LEMMA PostCallIInv ==
  ASSUME IInv, PostCall
  PROVE  IInv'
  <1>1. step' = step /\ batched' = batched /\ step \in Nat /\ pc \in {"complete", "analyze"}
    BY DEF IInv, TypeOK, PostCall
  <1>2. Kept /\ RunIsNamed' /\ LateWellFormed' /\ StoredIsPrefix'
    BY <1>1, ClientStep DEF PostCall
  <1>3. <<>> \in Seq(Events) /\ pc \in Kinds \ {"batch", "run", "step"} /\ "idle" \in Labels
    BY <1>1, EmptySeq DEF Kinds, Labels
  <1>4. /\ pc' = "await" /\ after' = "idle"
        /\ awaited' \in Requests /\ answer' \in {"none", "ok", "error"}
        /\ AwaitedWellFormed'
        /\ Unsent' = batch
    BY <1>1, <1>3, PostOther DEF PostCall
  <1>5. TypeOK'
    BY <1>4 DEF IInv, TypeOK, PostCall, server
  <1>6. QueueIsSuffix'
    BY <1>1, <1>4 DEF IInv, QueueIsSuffix, Unsent, StoredBefore, PostCall, server
  <1>7. InPostStep'
    BY <1>4 DEF InPostStep
  <1> QED
    BY <1>2, <1>4, <1>5, <1>6, <1>7 DEF IInv

LEMMA EnsureRunIInv ==
  ASSUME IInv, EnsureRun
  PROVE  IInv'
  <1>1. /\ step' = step /\ batched' = batched /\ step \in Nat /\ pc = "run"
        /\ step < MaxSteps /\ batch \in Seq(Events) /\ "append" \in Labels
        /\ UNCHANGED <<batched, flushAt, step, again, late, failures, server>>
    BY DEF IInv, TypeOK, InPostStep, EnsureRun, Labels
  <1>2. Kept /\ RunIsNamed' /\ LateWellFormed' /\ StoredIsPrefix'
    BY <1>1, ClientStep
  <1>3. CASE known /\ Goto("append") /\ UNCHANGED <<known, batch>>
    <2>1. TypeOK'
      BY <1>1, <1>3 DEF IInv, TypeOK, Goto, server
    <2>2. AwaitedWellFormed' /\ InPostStep'
      BY <1>1, <1>3 DEF AwaitedWellFormed, InPostStep, Goto
    <2>3. QueueIsSuffix'
      BY <1>1, <1>3 DEF IInv, QueueIsSuffix, Unsent, StoredBefore, Goto, server
    <2> QED
      BY <1>2, <2>1, <2>2, <2>3 DEF IInv
  <1>4. CASE ~known /\ batched /\ known' = TRUE
    <2>1. batch = <<>> /\ step = 0
      BY <1>1, <1>4 DEF IInv, QueueIsSuffix, Unsent
    <2> DEFINE q == Append(batch, 0)
    <2>2. q \in Seq(Events) /\ IsSpan(q, 0, 0) /\ StoredBefore(0)
      <3>1. 0 \in Events
        BY DEF Events
      <3>2. q \in Seq(Events) /\ Len(q) = 1 /\ q[1] = 0
        BY <2>1, <3>1
      <3>3. StoredBefore(0)
        BY DEF StoredBefore, Steps
      <3> HIDE DEF q
      <3> QED
        BY <3>2, <3>3 DEF IsSpan
    <2>3. \/ Flush(q, "append")
          \/ batch' = q /\ Goto("append")
      BY <1>4 DEF EnsureRun
    <2> HIDE DEF q
    <2>4. PICK lo \in 0 .. step' + 1 : IsSpan(q, lo, step') /\ StoredBefore(lo)'
      <3>1. PICK zero \in {0} : TRUE
        OBVIOUS
      <3>2. IsSpan(q, zero, step') /\ StoredBefore(zero)'
        BY <1>1, <1>2, <2>1, <2>2, StoredBeforeStays
      <3> QED
        BY <1>1, <2>1, <3>2
    <2>5. CASE Flush(q, "append")
      <3>1. /\ batch' = <<>> /\ batch' \in Seq(Events)
            /\ pc' \in {"append", "await"} /\ after' \in Labels
            /\ awaited' \in Requests \cup {NoRequest}
            /\ answer' \in {"none", "ok", "error"}
            /\ AwaitedWellFormed'
            /\ Unsent' = q
        BY <1>1, <1>4, <2>1, <2>2, <2>5, FlushQueue DEF IInv
      <3>2. TypeOK'
        BY <1>1, <1>4, <3>1 DEF IInv, TypeOK, server, Labels
      <3>3. InPostStep'
        BY <1>1, <1>4 DEF InPostStep
      <3>4. QueueIsSuffix'
        BY <1>1, <1>4, <2>4, <3>1 DEF QueueIsSuffix, IsSpan
      <3> QED
        BY <1>2, <3>1, <3>2, <3>3, <3>4 DEF IInv
    <2>6. CASE batch' = q /\ Goto("append")
      <3>1. TypeOK'
        BY <1>1, <1>4, <2>2, <2>6 DEF IInv, TypeOK, Goto, server
      <3>2. AwaitedWellFormed' /\ InPostStep'
        BY <1>1, <1>4, <2>6 DEF AwaitedWellFormed, InPostStep, Goto
      <3>3. Unsent' = q
        BY <2>6 DEF Unsent, Goto
      <3>4. QueueIsSuffix'
        BY <1>1, <1>4, <2>4, <3>3 DEF QueueIsSuffix, IsSpan
      <3> QED
        BY <1>2, <3>1, <3>2, <3>4 DEF IInv
    <2> QED
      BY <2>3, <2>5, <2>6
  <1>5. CASE ~known /\ ~batched /\ Post("run", <<>>, "append") /\ UNCHANGED <<known, batch>>
    <2>1. <<>> \in Seq(Events) /\ "run" \in Kinds \ {"batch"}
      BY EmptySeq DEF Kinds
    <2>2. /\ pc' = "await" /\ after' = "append"
          /\ awaited' \in Requests /\ answer' \in {"none", "ok", "error"}
          /\ AwaitedWellFormed'
          /\ Unsent' = batch
      BY <1>1, <1>5, <2>1, PostOther
    <2>3. TypeOK'
      BY <1>1, <1>5, <2>2 DEF IInv, TypeOK, server
    <2>4. QueueIsSuffix' /\ InPostStep'
      BY <1>1, <1>5, <2>2 DEF IInv, QueueIsSuffix, InPostStep
    <2> QED
      BY <1>2, <2>2, <2>3, <2>4 DEF IInv
  <1> QED
    BY <1>3, <1>4, <1>5 DEF EnsureRun

LEMMA AppendStepIInv ==
  ASSUME IInv, AppendStep
  PROVE  IInv'
  <1>1. /\ step' = step + 1 /\ step \in Nat /\ pc = "append" /\ batched \in BOOLEAN
        /\ step < MaxSteps /\ batch \in Seq(Events) /\ "idle" \in Labels
        /\ UNCHANGED <<batched, flushAt, known, again, late, failures, server>>
        /\ step + 1 \in Steps /\ step + 1 \in Events
    BY DEF IInv, TypeOK, InPostStep, AppendStep, NextStep, Labels, Steps, Events
  <1>2. Kept /\ RunIsNamed' /\ LateWellFormed' /\ StoredIsPrefix'
    BY <1>1, ClientStep
  <1>3. CASE batched
    <2>1. known /\ Unsent = batch
      BY <1>1, <1>3 DEF IInv, InPostStep, Unsent
    <2>2. PICK lo \in 0 .. step + 1 : IsSpan(batch, lo, step) /\ StoredBefore(lo)
      BY <1>3, <2>1 DEF IInv, QueueIsSuffix
    <2> DEFINE q == Append(batch, step + 1)
    <2>3. q \in Seq(Events) /\ IsSpan(q, lo, step + 1)
      <3>1. /\ q \in Seq(Events) /\ Len(q) = Len(batch) + 1
            /\ q[Len(batch) + 1] = step + 1
            /\ \A i \in 1 .. Len(batch) : q[i] = batch[i]
        BY <1>1, AppendProperties
      <3>2. Len(batch) = step - lo + 1 /\ \A i \in 1 .. Len(batch) : batch[i] = lo + i - 1
        BY <2>2 DEF IsSpan
      <3> HIDE DEF q
      <3> QED
        BY <1>1, <2>2, <3>1, <3>2 DEF IsSpan
    <2>4. StoredBefore(lo)'
      BY <1>1, <1>2, <2>2, StoredBeforeStays
    <2>5. \/ Flush(q, "idle")
          \/ batch' = q /\ Goto("idle")
      BY <1>3 DEF AppendStep, NextStep
    <2> HIDE DEF q
    <2>6. lo \in 0 .. step' + 1 /\ IsSpan(q, lo, step')
      BY <1>1, <2>2, <2>3
    <2>7. CASE Flush(q, "idle")
      <3>1. /\ batch' = <<>> /\ batch' \in Seq(Events)
            /\ pc' \in {"idle", "await"} /\ after' \in Labels
            /\ pc' = "await" => after' = "idle"
            /\ awaited' \in Requests \cup {NoRequest}
            /\ answer' \in {"none", "ok", "error"}
            /\ AwaitedWellFormed'
            /\ Unsent' = q
        BY <1>1, <1>3, <2>2, <2>3, <2>6, <2>7, FlushQueue DEF IInv
      <3>2. TypeOK'
        BY <1>1, <3>1 DEF IInv, TypeOK, server, Labels
      <3>3. InPostStep'
        BY <3>1 DEF InPostStep
      <3>4. QueueIsSuffix'
        BY <1>1, <1>3, <2>1, <2>4, <2>6, <3>1 DEF QueueIsSuffix, IsSpan
      <3> QED
        BY <1>2, <3>1, <3>2, <3>3, <3>4 DEF IInv
    <2>8. CASE batch' = q /\ Goto("idle")
      <3>1. TypeOK'
        BY <1>1, <2>3, <2>8 DEF IInv, TypeOK, Goto, server
      <3>2. AwaitedWellFormed' /\ InPostStep'
        BY <2>8 DEF AwaitedWellFormed, InPostStep, Goto
      <3>3. Unsent' = q
        BY <2>8 DEF Unsent, Goto
      <3>4. QueueIsSuffix'
        BY <1>1, <1>3, <2>1, <2>4, <2>6, <3>3 DEF QueueIsSuffix, IsSpan
      <3> QED
        BY <1>2, <3>1, <3>2, <3>4 DEF IInv
    <2> QED
      BY <2>5, <2>7, <2>8
  <1>4. CASE ~batched
    <2>1. Post("step", <<step + 1>>, "idle") /\ UNCHANGED batch
      BY <1>4 DEF AppendStep, NextStep
    <2>2. /\ "step" \in Kinds \ {"batch"} /\ <<step + 1>> \in Seq(Events)
          /\ step + 1 \in 1 .. step'
      BY <1>1 DEF Kinds
    <2>3. /\ pc' = "await" /\ after' = "idle"
          /\ awaited' \in Requests /\ answer' \in {"none", "ok", "error"}
          /\ AwaitedWellFormed'
      BY <1>1, <1>4, <2>1, <2>2, PostOther
    <2>4. TypeOK'
      BY <1>1, <2>1, <2>3 DEF IInv, TypeOK, server
    <2>5. QueueIsSuffix' /\ InPostStep'
      BY <1>1, <1>4, <2>1, <2>3 DEF IInv, QueueIsSuffix, InPostStep
    <2> QED
      BY <1>2, <2>3, <2>4, <2>5 DEF IInv
  <1> QED
    BY <1>1, <1>3, <1>4

LEMMA AnsweredIInv ==
  ASSUME IInv, Answered
  PROVE  IInv'
  <1>1. /\ step' = step /\ batched' = batched /\ step \in Nat /\ batched \in BOOLEAN
        /\ pc = "await" /\ answer = "ok" /\ pc' = after /\ after' = after
        /\ awaited' = NoRequest /\ answer' = "none"
        /\ known' = (known \/ awaited.kind = "run")
        /\ UNCHANGED <<batched, flushAt, step, batch, after, again, late, failures, server>>
    BY DEF IInv, TypeOK, Answered
  <1>2. Kept /\ RunIsNamed' /\ LateWellFormed' /\ StoredIsPrefix'
    BY <1>1, ClientStep
  <1>3. TypeOK'
    <2>1. known' \in BOOLEAN
      BY <1>1
    <2> QED
      BY <1>1, <2>1 DEF IInv, TypeOK, server
  <1>4. pc' # "await"
    BY <1>1 DEF IInv, TypeOK
  <1>5. AwaitedWellFormed'
    BY <1>4 DEF AwaitedWellFormed
  <1>6. awaited # NoRequest /\ WellFormed(awaited) /\ awaited \in Requests
    BY <1>1 DEF IInv, TypeOK, AwaitedWellFormed
  <1>7. Unsent' = batch
    BY <1>1, <1>4 DEF Unsent
  <1>8. QueueIsSuffix'
    <2>1. CASE ~batched
      BY <1>1, <2>1 DEF IInv, QueueIsSuffix
    <2>2. CASE batched /\ awaited.kind # "batch"
      <3>1. Unsent = batch /\ awaited.kind # "run" /\ (known' <=> known)
        BY <1>1, <1>6, <2>2 DEF WellFormed, Unsent, IInv, TypeOK
      <3> QED
        BY <1>1, <1>7, <2>2, <3>1 DEF IInv, QueueIsSuffix, StoredBefore, server
    <2>3. CASE batched /\ awaited.kind = "batch"
      <3> DEFINE q == awaited.events
      <3>1. /\ batch = <<>> /\ run = "named" /\ Unsent = q /\ q \in Seq(Events)
            /\ \A n \in Steps : n \in EventsOf(q) => copies[n] > 0
        BY <1>1, <1>6, <2>3 DEF IInv, AwaitedWellFormed, Unsent, Requests
      <3>2. PICK l \in 0 .. step, h \in 0 .. step :
                l <= h /\ IsSpan(q, l, h) /\ StoredBefore(l)
        BY <1>6, <2>3 DEF WellFormed
      <3>3. known /\ (known' <=> known)
        <4>1. Len(q) # 0
          BY <1>1, <3>2 DEF IsSpan
        <4>2. q # <<>>
          BY <4>1
        <4> QED
          BY <1>1, <2>3, <3>1, <4>2 DEF IInv, QueueIsSuffix, TypeOK
      <3>4. PICK lo \in 0 .. step + 1 : IsSpan(q, lo, step) /\ StoredBefore(lo)
        BY <2>3, <3>1, <3>3 DEF IInv, QueueIsSuffix
      <3>5. \A n \in Steps : n < step + 1 => copies[n] > 0
        <4> SUFFICES ASSUME NEW n \in Steps, n < step + 1, n >= lo PROVE copies[n] > 0
          BY <1>1, <3>4 DEF StoredBefore, Steps
        <4>1. EventsOf(q) = lo .. step
          BY <1>1, <3>1, <3>4, SpanEvents DEF Steps
        <4> QED
          BY <1>1, <3>1, <3>4, <4>1 DEF Steps
      <3>6. StoredBefore(step + 1)
        BY <1>1, <3>1, <3>5 DEF StoredBefore
      <3>7. IsSpan(batch, step + 1, step)
        BY <1>1, <3>1 DEF IsSpan
      <3>8. PICK next \in 0 .. step + 1 : next = step + 1
        BY <1>1
      <3>9. IsSpan(Unsent', next, step') /\ StoredBefore(next)'
        BY <1>1, <1>7, <3>6, <3>7, <3>8 DEF StoredBefore, server
      <3>10. next \in 0 .. step' + 1
        BY <1>1
      <3> QED
        BY <1>1, <2>3, <3>3, <3>9, <3>10 DEF QueueIsSuffix
    <2> QED
      BY <1>1, <2>1, <2>2, <2>3
  <1>9. InPostStep'
    BY <1>1, <1>4 DEF IInv, InPostStep, TypeOK
  <1> QED
    BY <1>2, <1>3, <1>5, <1>8, <1>9 DEF IInv

LEMMA RaisedIInv ==
  ASSUME IInv, Raised
  PROVE  IInv'
  <1>1. /\ step' = step /\ batched' = batched /\ step \in Nat /\ batched \in BOOLEAN
        /\ pc = "await" /\ after' = after
        /\ awaited' = NoRequest /\ answer' = "none"
        /\ UNCHANGED <<batched, flushAt, known, step, after, server>>
        /\ failures' = failures + 1 /\ failures < MaxFailures
        /\ pc' \in {after, "run", "idle"}
    BY DEF IInv, TypeOK, Raised
  <1>2. /\ awaited # NoRequest /\ WellFormed(awaited) /\ awaited \in Requests
        /\ pc' # "await"
    BY <1>1 DEF IInv, TypeOK, AwaitedWellFormed
  <1>3. batch' = Unsent
    <2>1. CASE awaited.kind = "batch"
      <3>1. batch = <<>> /\ awaited.events \in Seq(Events)
        BY <1>1, <1>2, <2>1 DEF IInv, AwaitedWellFormed, Requests
      <3>2. Requeued = awaited.events
        BY <3>1, ConcatEmptySeq DEF Requeued
      <3> QED
        BY <1>1, <2>1, <3>2 DEF Raised, Unsent
    <2>2. CASE awaited.kind # "batch"
      BY <1>1, <2>2 DEF Raised, Unsent
    <2> QED
      BY <2>1, <2>2
  <1>4. batch' \in Seq(Events) /\ Unsent' = Unsent
    <2>1. Unsent \in Seq(Events)
      BY UnsentType DEF IInv
    <2> QED
      BY <1>2, <1>3, <2>1 DEF Unsent
  <1>5. Kept
    BY <1>1, ServerUnchanged
  <1>6. /\ late' \in SUBSET [id : Nat, request : Requests]
        /\ LateWellFormed'
    <2> DEFINE lost == [id |-> failures, request |-> awaited]
    <2>1. lost \in [id : Nat, request : Requests] /\ lost.request = awaited
      BY <1>2 DEF IInv, TypeOK
    <2>2. late' \subseteq late \cup {lost}
      BY DEF Raised
    <2> HIDE DEF lost
    <2>3. \A m \in late' : WellFormed(m.request)
      BY <1>2, <2>1, <2>2 DEF IInv, LateWellFormed
    <2>4. \A m \in late' : WellFormed(m.request)'
      BY <1>1, <1>5, <2>3, WellFormedStays
    <2> QED
      BY <2>1, <2>2, <2>4 DEF IInv, TypeOK, LateWellFormed
  <1>7. RunIsNamed' /\ StoredIsPrefix'
    BY <1>1 DEF IInv, RunIsNamed, StoredIsPrefix, Stored, server
  <1>8. TypeOK'
    <2>1. again' \in BOOLEAN
      BY DEF IInv, TypeOK, Raised
    <2> QED
      BY <1>1, <1>4, <1>6, <2>1 DEF IInv, TypeOK, server
  <1>9. AwaitedWellFormed'
    BY <1>2 DEF AwaitedWellFormed
  <1>10. QueueIsSuffix'
    <2>1. ~batched' => batch' = <<>>
      <3>1. ASSUME ~batched PROVE awaited.kind # "batch"
        BY <1>2, <3>1 DEF WellFormed
      <3> QED
        BY <1>1, <1>3, <3>1 DEF IInv, QueueIsSuffix, Unsent
    <2>2. batched' /\ ~known' => Unsent' = <<>> /\ step' = 0
      BY <1>1, <1>4 DEF IInv, QueueIsSuffix
    <2>3. ASSUME batched', known'
          PROVE  \E lo \in 0 .. step' + 1 : IsSpan(Unsent', lo, step') /\ StoredBefore(lo)'
      <3>1. PICK lo \in 0 .. step + 1 : IsSpan(Unsent, lo, step) /\ StoredBefore(lo)
        BY <1>1, <2>3 DEF IInv, QueueIsSuffix
      <3>2. StoredBefore(lo)'
        BY <1>1, <1>5, <3>1, StoredBeforeStays
      <3> QED
        BY <1>1, <1>4, <3>1, <3>2
    <2> QED
      BY <2>1, <2>2, <2>3 DEF QueueIsSuffix, IsSpan
  <1>11. InPostStep'
    <2>1. CASE awaited.kind = "run"
      <3>1. ~batched /\ pc' = IF again THEN "run" ELSE "idle"
        BY <1>2, <2>1 DEF WellFormed, Raised
      <3>2. step < MaxSteps
        BY <1>1, <2>1 DEF IInv, InPostStep, AwaitedWellFormed
      <3> QED
        BY <1>1, <3>1, <3>2 DEF InPostStep
    <2>2. CASE awaited.kind # "run"
      BY <1>1, <1>2, <2>2 DEF IInv, InPostStep, Raised, TypeOK
    <2> QED
      BY <2>1, <2>2
  <1> QED
    BY <1>6, <1>7, <1>8, <1>9, <1>10, <1>11 DEF IInv

LEMMA StutterIInv ==
  ASSUME IInv, UNCHANGED vars
  PROVE  IInv'
  <1>1. UNCHANGED client /\ UNCHANGED network /\ UNCHANGED server
    BY DEF vars
  <1>2. step' = step /\ batched' = batched /\ late' = late /\ step \in Nat
    BY <1>1 DEF IInv, TypeOK, client, network
  <1>3. Kept /\ RunIsNamed' /\ LateWellFormed' /\ StoredIsPrefix'
    BY <1>1, <1>2, ClientStep
  <1>4. TypeOK'
    BY <1>1 DEF IInv, TypeOK, client, network, server
  <1>5. AwaitedWellFormed'
    BY <1>1 DEF IInv, AwaitedWellFormed, WellFormed, StoredBefore, client, network, server
  <1>6. QueueIsSuffix' /\ InPostStep'
    BY <1>1 DEF IInv, QueueIsSuffix, Unsent, StoredBefore, InPostStep, client, network, server
  <1> QED
    BY <1>3, <1>4, <1>5, <1>6 DEF IInv

LEMMA NextIInv ==
  ASSUME IInv, [Next]_vars
  PROVE  IInv'
  <1>1. ASSUME NEW more \in BOOLEAN, Record(more) PROVE IInv'
    BY <1>1, RecordIInv
  <1>2. ASSUME NEW label \in {"idle", "complete", "analyze", "closed"}, Call(label)
        PROVE  IInv'
    BY <1>2, CallIInv
  <1>3. CASE Progress
    BY <1>3, EnsureRunIInv, AppendStepIInv, PostCallIInv, AnsweredIInv, RaisedIInv
    DEF Progress
  <1>4. CASE Arrive \/ ArriveLate \/ Reject
    BY <1>4, ArriveIInv, ArriveLateIInv, RejectIInv
  <1>5. CASE UNCHANGED vars
    BY <1>5, StutterIInv
  <1> QED
    BY <1>1, <1>2, <1>3, <1>4, <1>5 DEF Next, Host

(***************************************************************************)
(* Theorems.                                                               *)
(***************************************************************************)

(* The inductive invariant holds in every reachable state. *)
THEOREM Invariance == Spec => []IInv
  <1>1. IInv /\ [Next]_vars => IInv'
    BY NextIInv
  <1> QED
    BY <1>1, InitIInv, PTL DEF Spec

(* The variables of the tracer, the network and the API have their types. *)
THEOREM TypeCorrect == Spec => []TypeOK
  <1>1. IInv => TypeOK
    BY DEF IInv
  <1> QED
    BY <1>1, Invariance, PTL

(* No step of a queueing tracer is lost, whatever the network does. *)
THEOREM NoStepIsLost == Spec => []NothingLost
  <1>1. ASSUME IInv, batched, NEW n \in 1 .. step
        PROVE  copies[n] > 0 \/ n \in EventsOf(Unsent)
    <2>1. known /\ n \in Steps /\ step \in Nat
      BY <1>1 DEF IInv, QueueIsSuffix, TypeOK, Steps
    <2>2. PICK lo \in 0 .. step + 1 : IsSpan(Unsent, lo, step) /\ StoredBefore(lo)
      BY <1>1, <2>1 DEF IInv, QueueIsSuffix
    <2>3. CASE n < lo
      BY <2>1, <2>2, <2>3 DEF StoredBefore
    <2>4. CASE n >= lo
      <3>1. Unsent \in Seq(Events)
        BY <1>1, UnsentType DEF IInv
      <3>2. EventsOf(Unsent) = lo .. step
        BY <2>1, <2>2, <2>4, <3>1, SpanEvents
      <3> QED
        BY <2>1, <2>4, <3>2
    <2> QED
      BY <2>1, <2>2, <2>3, <2>4
  <1>2. IInv => NothingLost
    BY <1>1 DEF NothingLost
  <1> QED
    BY <1>2, Invariance, PTL

(* No observation overtakes the trace-create of its run at the API. *)
THEOREM RunsAreNamed == Spec => []RunIsNamed
  <1>1. IInv => RunIsNamed
    BY DEF IInv
  <1> QED
    BY <1>1, Invariance, PTL

(* Every step of the tracer is one of TraceLog or changes nothing there. *)
LEMMA StoreStep ==
  ASSUME IInv, IInv', Kept, UNCHANGED <<batched, step>>
  PROVE  [Log!Next]_Log!vars
  <1>1. Stored \subseteq Stored'
    BY DEF Kept, Stored
  <1>2. Stored' \in SUBSET (1 .. step)
    BY DEF IInv, StoredIsPrefix
  <1>3. batched => \E k \in 0 .. step : Stored' = 1 .. k
    BY DEF IInv, StoredIsPrefix
  <1> QED
    BY <1>1, <1>2, <1>3 DEF Log!Next, Log!Store, Log!Prefix, Stored

LEMMA NextImplements ==
  ASSUME IInv, IInv', [Next]_vars
  PROVE  [Log!Next]_Log!vars
  <1>1. CASE AppendStep
    <2>1. step' = step + 1 /\ step < MaxSteps /\ UNCHANGED <<batched, copies>>
      BY <1>1 DEF AppendStep, NextStep, server, IInv, InPostStep
    <2> QED
      BY <2>1 DEF Log!Next, Log!Record
  <1>2. ASSUME UNCHANGED <<batched, step, server>> PROVE [Log!Next]_Log!vars
    BY <1>2, ServerUnchanged, StoreStep
  <1>3. ASSUME NEW request \in Requests, WellFormed(request), Serve(request), UNCHANGED client
        PROVE  [Log!Next]_Log!vars
    <2>1. UNCHANGED <<batched, step>>
      BY <1>3 DEF client
    <2>2. Kept
      BY <1>3, <2>1, ServeStores DEF IInv
    <2> QED
      BY <2>1, <2>2, StoreStep
  <1>4. CASE Arrive
    BY <1>3, <1>4 DEF Arrive, IInv, AwaitedWellFormed, TypeOK
  <1>5. CASE ArriveLate
    BY <1>3, <1>5 DEF ArriveLate, IInv, LateWellFormed, TypeOK
  <1>6. CASE Host
    BY <1>2, <1>6 DEF Host, Record, Call
  <1>7. CASE EnsureRun \/ PostCall \/ Answered \/ Raised
    BY <1>2, <1>7 DEF EnsureRun, PostCall, Answered, Raised
  <1>8. CASE Reject
    BY <1>2, <1>8 DEF Reject, client
  <1>9. CASE UNCHANGED vars
    BY <1>2, <1>9 DEF vars, client
  <1> QED
    BY <1>1, <1>4, <1>5, <1>6, <1>7, <1>8, <1>9 DEF Next, Progress

(* The steps the API stores of a tracer are those of TraceLog: never        *)
(* unstored and, of a queueing tracer, in order and without gaps.           *)
THEOREM ImplementsLog == Spec => LogSpec
  <1>1. Init => Log!Init
    BY DEF Init, Log!Init
  <1>2. IInv /\ IInv' /\ [Next]_vars => [Log!Next]_Log!vars
    BY NextImplements
  <1> QED
    BY <1>1, <1>2, Invariance, PTL DEF Spec, LogSpec, Log!Spec

(***************************************************************************)
(* Copies of steps and of runs.                                            *)
(***************************************************************************)

(* A posted batch or step has event n. *)
Has(request, n) == request.kind \in {"batch", "step"} /\ n \in EventsOf(request.events)

LateWith(n) == {m \in late : Has(m.request, n)}

(* Event n is queued, or posted and not yet stored by it. *)
Pending(n) ==
    \/ pc = "await" /\ answer # "ok" /\ Has(awaited, n)
    \/ n \in EventsOf(batch)

(* The rows that step n has and those that it may still get from what is    *)
(* under way.                                                               *)
Weight(n) ==
    copies[n] + Cardinality(LateWith(n)) + (IF Pending(n) THEN 1 ELSE 0)

WeightBounded == \A n \in Steps : Weight(n) <= 1 + (IF batched THEN failures ELSE 0)

LateRuns == {m \in late : m.request.kind = "run"}

(* The tracer has still to make a run, or the one it posts is not made yet. *)
RunOwed ==
    IF pc = "await" /\ awaited.kind = "run" THEN answer # "ok" ELSE ~known

RunsBounded ==
    made + Cardinality(LateRuns) + (IF RunOwed THEN 1 ELSE 0) <= 1 + failures

(* Only after a flush does the tracer go on with complete, analyze or close. *)
FlushedBefore ==
    pc = "await" /\ after \in {"complete", "analyze", "closed"} => awaited.kind = "batch"

(* The queue is empty once complete or analyze has flushed it. *)
EmptyAtCall ==
    pc \in {"complete", "analyze"}
        \/ (pc = "await" /\ awaited.kind \in {"complete", "analyze"})
    => batch = <<>>

(* When no post has raised, none is late, complete and analyze find the     *)
(* queue empty, and a step that is not queued is stored or posted.          *)
Undisturbed ==
    failures = 0 =>
        /\ late = {}
        /\ EmptyAtCall
        /\ ~batched => \A n \in 1 .. step : copies[n] > 0 \/ Pending(n)

CInv ==
    /\ IInv
    /\ IsFiniteSet(late)
    /\ WeightBounded
    /\ RunsBounded
    /\ FlushedBefore
    /\ Undisturbed

LEMMA EventsOfQueues ==
  /\ EventsOf(<<>>) = {}
  /\ \A q \in Seq(Events), e \in Events : EventsOf(Append(q, e)) = EventsOf(q) \cup {e}
  <1>1. EventsOf(<<>>) = {}
    BY DEF EventsOf
  <1>2. ASSUME NEW q \in Seq(Events), NEW e \in Events
        PROVE  EventsOf(Append(q, e)) = EventsOf(q) \cup {e}
    <2>1. /\ DOMAIN q = 1 .. Len(q) /\ Len(q) \in Nat
          /\ DOMAIN Append(q, e) = 1 .. Len(q) + 1
          /\ \A i \in 1 .. Len(q) : Append(q, e)[i] = q[i]
          /\ Append(q, e)[Len(q) + 1] = e
      BY AppendProperties, LenProperties
    <2>2. 1 .. Len(q) + 1 = 1 .. Len(q) \cup {Len(q) + 1}
      BY <2>1
    <2> QED
      BY <2>1, <2>2 DEF EventsOf
  <1> QED
    BY <1>1, <1>2

LEMMA WeightParts ==
  ASSUME TypeOK, IsFiniteSet(late), NEW n \in Steps
  PROVE  /\ copies[n] \in Nat /\ failures \in Nat
         /\ IsFiniteSet(LateWith(n)) /\ Cardinality(LateWith(n)) \in Nat
  <1>1. IsFiniteSet(LateWith(n))
    BY FS_Subset DEF LateWith
  <1> QED
    BY <1>1, FS_CardinalityType DEF TypeOK

LEMMA RunParts ==
  ASSUME TypeOK, IsFiniteSet(late)
  PROVE  /\ made \in Nat /\ failures \in Nat
         /\ IsFiniteSet(LateRuns) /\ Cardinality(LateRuns) \in Nat
  <1>1. IsFiniteSet(LateRuns)
    BY FS_Subset DEF LateRuns
  <1> QED
    BY <1>1, FS_CardinalityType DEF TypeOK

(* A well-formed request has only events that have been recorded. *)
LEMMA HasRecorded ==
  ASSUME step \in Nat, NEW request \in Requests, WellFormed(request), NEW n,
         Has(request, n)
  PROVE  n \in 0 .. step
  <1>1. CASE request.kind = "batch"
    <2>1. PICK lo \in 0 .. step, hi \in 0 .. step : lo <= hi /\ IsSpan(request.events, lo, hi)
      BY <1>1 DEF WellFormed
    <2>2. request.events \in Seq(Events) /\ lo \in Nat /\ hi \in Nat
      BY <2>1 DEF Requests
    <2>3. EventsOf(request.events) = lo .. hi
      BY <2>1, <2>2, SpanEvents
    <2> QED
      BY <2>1, <2>3 DEF Has
  <1>2. CASE request.kind = "step"
    <2>1. PICK k \in 1 .. step : request.events = <<k>>
      BY <1>2 DEF WellFormed
    <2>2. EventsOf(<<k>>) = {k}
      BY DEF EventsOf
    <2> QED
      BY <2>1, <2>2 DEF Has
  <1> QED
    BY <1>1, <1>2 DEF Has

(* A step that is not recorded yet has no row and is in no request. *)
LEMMA NewStep ==
  ASSUME IInv, step + 1 \in Steps
  PROVE  copies[step + 1] = 0 /\ LateWith(step + 1) = {}
  <1>1. step \in Nat /\ copies[step + 1] \in Nat
    BY DEF IInv, TypeOK
  <1>2. step + 1 \notin Stored
    BY <1>1 DEF IInv, StoredIsPrefix
  <1>3. ASSUME NEW m \in late, Has(m.request, step + 1) PROVE FALSE
    <2>1. m.request \in Requests /\ WellFormed(m.request)
      BY DEF IInv, TypeOK, LateWellFormed
    <2> QED
      BY <1>1, <1>3, <2>1, HasRecorded
  <1> QED
    BY <1>1, <1>2, <1>3 DEF Stored, LateWith

(***************************************************************************)
(* The actions of the tracer but the exceptions.                           *)
(***************************************************************************)

(* What is pending stays so, and the step that is recorded becomes so. *)
SamePending ==
  \A n \in Steps :
      Pending(n)' <=> Pending(n) \/ (step' = step + 1 /\ n = step + 1)

LEMMA SameLate ==
  ASSUME late' = late
  PROVE  LateRuns' = LateRuns /\ \A n : LateWith(n)' = LateWith(n)
  BY DEF LateRuns, LateWith

LEMMA ClientCounts ==
  ASSUME CInv, UNCHANGED <<server, late, batched, failures>>,
         step' \in {step, step + 1}, SamePending, RunOwed' => RunOwed,
         FlushedBefore', failures = 0 => EmptyAtCall', IInv'
  PROVE  CInv'
  <1>1. copies' = copies /\ made' = made /\ TypeOK /\ step \in Nat
    BY DEF CInv, IInv, TypeOK, server
  <1>2. ASSUME NEW n \in Steps PROVE Weight(n)' <= 1 + (IF batched THEN failures ELSE 0)
    <2>1. /\ copies[n] \in Nat /\ failures \in Nat /\ Cardinality(LateWith(n)) \in Nat
          /\ Weight(n) <= 1 + (IF batched THEN failures ELSE 0)
      BY <1>1, WeightParts DEF CInv, WeightBounded
    <2>2. LateWith(n)' = LateWith(n)
      BY SameLate
    <2>3. Weight(n)' = copies[n] + Cardinality(LateWith(n)) + (IF Pending(n)' THEN 1 ELSE 0)
      BY <1>1, <2>2 DEF Weight
    <2>4. CASE Pending(n)' => Pending(n)
      BY <2>1, <2>3, <2>4 DEF Weight
    <2>5. CASE n = step + 1
      <3>1. copies[n] = 0 /\ LateWith(n) = {}
        BY <2>5, NewStep DEF CInv
      <3>2. Cardinality(LateWith(n)) = 0
        BY <3>1, FS_EmptySet
      <3> QED
        BY <2>1, <2>3, <3>1, <3>2
    <2> QED
      BY <2>4, <2>5 DEF SamePending
  <1>3. WeightBounded'
    BY <1>2 DEF WeightBounded
  <1>4. RunsBounded'
    <2>1. LateRuns' = LateRuns
      BY SameLate
    <2>2. made \in Nat /\ failures \in Nat /\ Cardinality(LateRuns) \in Nat
      BY <1>1, RunParts DEF CInv
    <2> QED
      BY <1>1, <2>1, <2>2 DEF CInv, RunsBounded
  <1>5. Undisturbed'
    <2> SUFFICES ASSUME failures = 0, ~batched, NEW n \in 1 .. step'
                 PROVE  copies[n] > 0 \/ Pending(n)'
      BY <1>1 DEF CInv, Undisturbed
    <2>1. n \in Steps
      BY DEF IInv, TypeOK, Steps
    <2>2. n \in 1 .. step => copies[n] > 0 \/ Pending(n)
      BY DEF CInv, Undisturbed
    <2>3. n \in 1 .. step \/ (step' = step + 1 /\ n = step + 1)
      BY <1>1
    <2> QED
      BY <2>1, <2>2, <2>3 DEF SamePending
  <1> QED
    BY <1>3, <1>4, <1>5 DEF CInv

(* What is pending, and what the tracer waits for, when it does not wait. *)
LEMMA NotAwaiting ==
  ASSUME pc # "await"
  PROVE  /\ \A n : Pending(n) <=> n \in EventsOf(batch)
         /\ RunOwed <=> ~known
  BY DEF Pending, RunOwed

(* flush posts what was queued and leaves it pending. *)
LEMMA FlushCounts ==
  ASSUME NEW q, NEW label, label # "await", Flush(q, label)
  PROVE  /\ \A n : Pending(n)' <=> n \in EventsOf(q)
         /\ RunOwed' <=> ~known'
         /\ FlushedBefore' /\ EmptyAtCall'
  <1>1. CASE q = <<>>
    <2>1. pc' = label /\ batch' = <<>>
      BY <1>1 DEF Flush, Goto
    <2> QED
      BY <1>1, <2>1 DEF Pending, RunOwed, FlushedBefore, EmptyAtCall
  <1>2. CASE q # <<>>
    <2>1. /\ pc' = "await" /\ batch' = <<>> /\ answer' = "none"
          /\ awaited'.kind = "batch" /\ awaited'.events = q
      BY <1>2 DEF Flush, Post
    <2>2. \A n : n \notin EventsOf(<<>>)
      BY EventsOfQueues
    <2> QED
      BY <2>1, <2>2 DEF Pending, Has, RunOwed, FlushedBefore, EmptyAtCall
  <1> QED
    BY <1>1, <1>2

(* Where the tracer goes on without a post. *)
LEMMA GotoCounts ==
  ASSUME NEW label, label # "await", Goto(label)
  PROVE  /\ \A n : Pending(n)' <=> n \in EventsOf(batch')
         /\ RunOwed' <=> ~known'
         /\ FlushedBefore'
         /\ label \notin {"complete", "analyze"} => EmptyAtCall'
  BY DEF Goto, Pending, RunOwed, FlushedBefore, EmptyAtCall

LEMMA RecordCounts ==
  ASSUME CInv, IInv', NEW more \in BOOLEAN, Record(more)
  PROVE  CInv'
  <1>1. /\ UNCHANGED <<server, late, batched, failures, step, batch, known>>
        /\ Goto("run") /\ pc # "await"
    BY DEF Record
  <1>2. /\ SamePending /\ (RunOwed' => RunOwed)
        /\ FlushedBefore' /\ EmptyAtCall'
    BY <1>1, GotoCounts, NotAwaiting DEF SamePending, CInv, IInv, TypeOK
  <1> QED
    BY <1>1, <1>2, ClientCounts

LEMMA CallCounts ==
  ASSUME CInv, IInv', NEW label \in {"idle", "complete", "analyze", "closed"}, Call(label)
  PROVE  CInv'
  <1>1. /\ UNCHANGED <<server, late, batched, failures, step, known>>
        /\ Flush(batch, label) /\ pc # "await"
    BY DEF Call
  <1>2. /\ SamePending /\ (RunOwed' => RunOwed)
        /\ FlushedBefore' /\ EmptyAtCall'
    BY <1>1, FlushCounts, NotAwaiting DEF SamePending, CInv, IInv, TypeOK
  <1> QED
    BY <1>1, <1>2, ClientCounts

LEMMA PostCallCounts ==
  ASSUME CInv, IInv', PostCall
  PROVE  CInv'
  <1>1. /\ UNCHANGED <<server, late, batched, failures, step, known, batch>>
        /\ pc \in {"complete", "analyze"}
        /\ pc' = "await" /\ after' = "idle" /\ awaited'.kind = pc
    BY DEF PostCall, Post
  <1>2. SamePending
    BY <1>1, NotAwaiting DEF SamePending, Pending, Has, CInv, IInv, TypeOK
  <1>3. (RunOwed' => RunOwed) /\ FlushedBefore'
    BY <1>1 DEF RunOwed, FlushedBefore
  <1>4. failures = 0 => EmptyAtCall'
    BY <1>1 DEF CInv, Undisturbed, EmptyAtCall
  <1> QED
    BY <1>1, <1>2, <1>3, <1>4, ClientCounts

LEMMA EnsureRunCounts ==
  ASSUME CInv, IInv', EnsureRun
  PROVE  CInv'
  <1>1. /\ UNCHANGED <<server, late, batched, failures, step>>
        /\ pc = "run" /\ batch \in Seq(Events) /\ step \in Nat
    BY DEF EnsureRun, CInv, IInv, TypeOK
  <1>2. CASE known
    <2>1. Goto("append") /\ UNCHANGED <<known, batch>>
      BY <1>2 DEF EnsureRun
    <2>2. /\ SamePending /\ (RunOwed' => RunOwed)
          /\ FlushedBefore' /\ EmptyAtCall'
      BY <1>1, <2>1, GotoCounts, NotAwaiting DEF SamePending
    <2> QED
      BY <1>1, <2>2, ClientCounts
  <1>3. CASE ~known /\ batched
    <2> DEFINE q == Append(batch, 0)
    <2>1. known' = TRUE /\ (Flush(q, "append") \/ (batch' = q /\ Goto("append")))
      BY <1>3 DEF EnsureRun
    <2>2. \A n \in Steps : n \in EventsOf(q) <=> n \in EventsOf(batch)
      <3>1. EventsOf(q) = EventsOf(batch) \cup {0}
        BY <1>1, EventsOfQueues DEF Events
      <3> QED
        BY <3>1 DEF Steps
    <2> HIDE DEF q
    <2>3. /\ \A n : Pending(n)' <=> n \in EventsOf(q)
          /\ RunOwed' <=> ~known'
          /\ FlushedBefore' /\ EmptyAtCall'
      BY <2>1, FlushCounts, GotoCounts
    <2>4. SamePending
      BY <1>1, <2>2, <2>3, NotAwaiting DEF SamePending
    <2> QED
      BY <1>1, <2>1, <2>3, <2>4, ClientCounts
  <1>4. CASE ~known /\ ~batched
    <2>1. /\ Post("run", <<>>, "append") /\ UNCHANGED <<known, batch>>
      BY <1>4 DEF EnsureRun
    <2>2. pc' = "await" /\ after' = "append" /\ awaited'.kind = "run" /\ answer' = "none"
      BY <2>1 DEF Post
    <2>3. SamePending
      BY <1>1, <2>1, <2>2, NotAwaiting DEF SamePending, Pending, Has
    <2>4. /\ (RunOwed' => RunOwed)
          /\ FlushedBefore' /\ EmptyAtCall'
      BY <1>1, <1>4, <2>2 DEF RunOwed, FlushedBefore, EmptyAtCall
    <2> QED
      BY <1>1, <2>3, <2>4, ClientCounts
  <1> QED
    BY <1>2, <1>3, <1>4

LEMMA AppendStepCounts ==
  ASSUME CInv, IInv', AppendStep
  PROVE  CInv'
  <1>1. /\ UNCHANGED <<server, late, batched, failures, known>>
        /\ pc = "append" /\ batch \in Seq(Events) /\ step \in Nat /\ step' = step + 1
        /\ step + 1 \in Events
    BY DEF AppendStep, NextStep, CInv, IInv, TypeOK, Events
  <1>2. CASE batched
    <2> DEFINE q == Append(batch, step + 1)
    <2>1. Flush(q, "idle") \/ (batch' = q /\ Goto("idle"))
      BY <1>2 DEF AppendStep, NextStep
    <2>2. EventsOf(q) = EventsOf(batch) \cup {step + 1}
      BY <1>1, EventsOfQueues
    <2> HIDE DEF q
    <2>3. /\ \A n : Pending(n)' <=> n \in EventsOf(q)
          /\ RunOwed' <=> ~known'
          /\ FlushedBefore' /\ EmptyAtCall'
      BY <2>1, FlushCounts, GotoCounts
    <2>4. SamePending /\ (RunOwed' => RunOwed)
      BY <1>1, <2>2, <2>3, NotAwaiting DEF SamePending
    <2> QED
      BY <1>1, <2>3, <2>4, ClientCounts
  <1>3. CASE ~batched
    <2>1. Post("step", <<step + 1>>, "idle") /\ batch' = batch
      BY <1>3 DEF AppendStep, NextStep
    <2>2. /\ pc' = "await" /\ after' = "idle" /\ answer' = "none"
          /\ awaited'.kind = "step" /\ awaited'.events = <<step + 1>>
      BY <2>1 DEF Post
    <2>3. EventsOf(<<step + 1>>) = {step + 1}
      BY DEF EventsOf
    <2>4. SamePending
      BY <1>1, <2>1, <2>2, <2>3, NotAwaiting DEF SamePending, Pending, Has
    <2>5. /\ (RunOwed' => RunOwed)
          /\ FlushedBefore' /\ EmptyAtCall'
      BY <1>1, <2>2 DEF RunOwed, FlushedBefore, EmptyAtCall
    <2> QED
      BY <1>1, <2>4, <2>5, ClientCounts
  <1> QED
    BY <1>2, <1>3

LEMMA AnsweredCounts ==
  ASSUME CInv, IInv', Answered
  PROVE  CInv'
  <1>1. /\ UNCHANGED <<server, late, batched, failures, step, batch>>
        /\ pc = "await" /\ answer = "ok" /\ pc' = after /\ after # "await"
        /\ known' = (known \/ awaited.kind = "run") /\ step \in Nat
    BY DEF Answered, CInv, IInv, TypeOK
  <1>2. SamePending
    BY <1>1 DEF SamePending, Pending
  <1>3. (RunOwed' => RunOwed) /\ FlushedBefore'
    BY <1>1 DEF RunOwed, FlushedBefore
  <1>4. EmptyAtCall'
    BY <1>1 DEF CInv, IInv, FlushedBefore, AwaitedWellFormed, EmptyAtCall
  <1> QED
    BY <1>1, <1>2, <1>3, <1>4, ClientCounts

LEMMA RejectCounts ==
  ASSUME CInv, IInv', Reject
  PROVE  CInv'
  <1>1. /\ UNCHANGED <<server, late, batched, failures, step, batch, known>>
        /\ UNCHANGED <<pc, after, awaited>>
        /\ answer = "none" /\ answer' = "error" /\ step \in Nat
    BY DEF Reject, client, CInv, IInv, TypeOK
  <1>2. SamePending /\ (RunOwed' => RunOwed)
    BY <1>1 DEF SamePending, Pending, RunOwed
  <1>3. FlushedBefore' /\ (failures = 0 => EmptyAtCall')
    BY <1>1 DEF CInv, FlushedBefore, Undisturbed, EmptyAtCall
  <1> QED
    BY <1>1, <1>2, <1>3, ClientCounts

(***************************************************************************)
(* A post that raises.                                                     *)
(***************************************************************************)

(* One request more may be late, and its events may be queued again.        *)
LEMMA RaisedCounts ==
  ASSUME CInv, IInv', Raised
  PROVE  CInv'
  <1> DEFINE lost == [id |-> failures, request |-> awaited]
  <1>1. /\ UNCHANGED <<server, batched, step, known>>
        /\ pc = "await" /\ failures' = failures + 1 /\ failures \in Nat
        /\ late' = IF answer = "none" THEN late \cup {lost} ELSE late
        /\ TypeOK /\ IsFiniteSet(late) /\ lost.request = awaited
    BY DEF Raised, CInv, IInv, TypeOK
  <1>2. pc' # "await"
    BY DEF Raised, CInv, IInv, TypeOK
  <1> HIDE DEF lost
  <1>3. IsFiniteSet(late')
    BY <1>1, FS_AddElement
  <1>4. copies' = copies /\ made' = made
    BY <1>1 DEF server
  <1>5. \A n : Pending(n)' <=> n \in EventsOf(batch')
    BY <1>2 DEF Pending
  <1>6. ASSUME NEW n \in Steps
        PROVE  Weight(n)' <= 1 + (IF batched' THEN failures' ELSE 0)
    <2>1. /\ copies[n] \in Nat /\ IsFiniteSet(LateWith(n)) /\ Cardinality(LateWith(n)) \in Nat
          /\ Weight(n) <= 1 + (IF batched THEN failures ELSE 0)
      BY <1>1, WeightParts DEF CInv, WeightBounded
    <2>2. Weight(n)' = copies[n] + Cardinality(LateWith(n)') + (IF Pending(n)' THEN 1 ELSE 0)
      BY <1>4 DEF Weight
    <2>3. \/ LateWith(n)' = LateWith(n)
          \/ /\ LateWith(n)' = LateWith(n) \cup {lost}
             /\ answer = "none" /\ Has(awaited, n)
      BY <1>1 DEF LateWith
    <2>4. \/ Cardinality(LateWith(n)') = Cardinality(LateWith(n))
          \/ /\ Cardinality(LateWith(n)') \in Nat
             /\ Cardinality(LateWith(n)') <= Cardinality(LateWith(n)) + 1
             /\ Pending(n)
      <3>1. CASE LateWith(n)' = LateWith(n)
        BY <3>1
      <3>2. CASE LateWith(n)' = LateWith(n) \cup {lost} /\ answer = "none" /\ Has(awaited, n)
        <4>1. Pending(n)
          BY <1>1, <3>2 DEF Pending
        <4>2. Cardinality(LateWith(n) \cup {lost})
                  \in {Cardinality(LateWith(n)), Cardinality(LateWith(n)) + 1}
          BY <2>1, FS_AddElement
        <4> QED
          BY <2>1, <3>2, <4>1, <4>2
      <3> QED
        BY <2>3, <3>1, <3>2
    <2>5. CASE batched
      <3>1. CASE Cardinality(LateWith(n)') = Cardinality(LateWith(n))
        BY <1>1, <2>1, <2>2, <2>5, <3>1 DEF Weight
      <3>2. CASE Pending(n)
        BY <1>1, <2>1, <2>2, <2>4, <2>5, <3>2 DEF Weight
      <3> QED
        BY <2>4, <3>1, <3>2
    <2>6. CASE ~batched
      <3>1. ~Pending(n)'
        <4>1. batch' = <<>>
          BY <1>1, <2>6 DEF IInv, QueueIsSuffix
        <4> QED
          BY <1>5, <4>1, EventsOfQueues
      <3> QED
        BY <1>1, <2>1, <2>2, <2>4, <2>6, <3>1 DEF Weight
    <2> QED
      BY <2>5, <2>6
  <1>7. WeightBounded'
    BY <1>6 DEF WeightBounded
  <1>8. RunsBounded'
    <2>1. made \in Nat /\ IsFiniteSet(LateRuns) /\ Cardinality(LateRuns) \in Nat
      BY <1>1, RunParts
    <2>2. \/ LateRuns' = LateRuns
          \/ /\ LateRuns' = LateRuns \cup {lost}
             /\ answer = "none" /\ awaited.kind = "run"
      BY <1>1 DEF LateRuns
    <2>3. \/ Cardinality(LateRuns') = Cardinality(LateRuns)
          \/ /\ Cardinality(LateRuns') \in Nat
             /\ Cardinality(LateRuns') <= Cardinality(LateRuns) + 1
             /\ RunOwed
      <3>1. CASE LateRuns' = LateRuns
        BY <3>1
      <3>2. CASE LateRuns' = LateRuns \cup {lost} /\ answer = "none" /\ awaited.kind = "run"
        BY <1>1, <2>1, <3>2, FS_AddElement DEF RunOwed
      <3> QED
        BY <2>2, <3>1, <3>2
    <2> QED
      BY <1>1, <1>4, <2>1, <2>3 DEF CInv, RunsBounded
  <1>9. FlushedBefore'
    BY <1>2 DEF FlushedBefore
  <1>10. Undisturbed'
    BY <1>1 DEF Undisturbed
  <1> QED
    BY <1>3, <1>7, <1>8, <1>9, <1>10 DEF CInv

(***************************************************************************)
(* The API.                                                                *)
(***************************************************************************)

(* A request adds one row to each step that it has, and makes a run if it   *)
(* is for one.                                                              *)
LEMMA ServeCounts ==
  ASSUME TypeOK, NEW request \in Requests, WellFormed(request), Serve(request)
  PROVE  /\ \A n \in Steps : copies'[n] = copies[n] + (IF Has(request, n) THEN 1 ELSE 0)
         /\ made' = made + (IF request.kind = "run" THEN 1 ELSE 0)
  <1>1. copies \in [Steps -> Nat] /\ made \in Nat /\ step \in Nat
    BY DEF TypeOK
  <1>2. CASE request.kind = "batch"
    <2> DEFINE q == request.events
               rows(n) == {i \in DOMAIN q : q[i] = n}
    <2>1. PICK lo \in 0 .. step, hi \in 0 .. step : lo <= hi /\ IsSpan(q, lo, hi)
      BY <1>2 DEF WellFormed
    <2>2. q \in Seq(Events) /\ lo \in Nat /\ hi \in Nat
      BY <1>1, <2>1 DEF Requests
    <2>3. /\ copies' = [n \in Steps |-> copies[n] + Cardinality(rows(n))]
          /\ made' = made
      BY <1>2 DEF Serve
    <2>4. ASSUME NEW n \in Steps
          PROVE  Cardinality(rows(n)) = IF Has(request, n) THEN 1 ELSE 0
      <3>1. DOMAIN q = 1 .. hi - lo + 1 /\ \A i \in 1 .. hi - lo + 1 : q[i] = lo + i - 1
        BY <2>1, <2>2, LenProperties DEF IsSpan
      <3>2. Has(request, n) <=> n \in lo .. hi
        BY <1>2, <2>1, <2>2, SpanEvents DEF Has
      <3>3. n \in Nat
        BY DEF Steps
      <3>4. rows(n) = IF Has(request, n) THEN {n - lo + 1} ELSE {}
        BY <2>1, <2>2, <3>1, <3>2, <3>3
      <3> HIDE DEF rows
      <3> QED
        BY <3>4, FS_Singleton, FS_EmptySet
    <2> QED
      BY <1>1, <1>2, <2>3, <2>4
  <1>3. CASE request.kind = "step"
    <2>1. PICK k \in 1 .. step : request.events = <<k>>
      BY <1>3 DEF WellFormed
    <2>2. k \in Steps /\ request.events[1] = k
      BY <2>1 DEF TypeOK, Steps
    <2>3. copies' = [copies EXCEPT ![k] = copies[k] + 1] /\ made' = made
      BY <1>3, <2>2 DEF Serve
    <2>4. EventsOf(<<k>>) = {k}
      BY DEF EventsOf
    <2>5. \A n \in Steps : Has(request, n) <=> n = k
      BY <1>3, <2>1, <2>4 DEF Has
    <2>6. \A n \in Steps : copies'[n] = copies[n] + (IF n = k THEN 1 ELSE 0)
      BY <1>1, <2>2, <2>3
    <2> QED
      BY <1>1, <1>3, <2>3, <2>5, <2>6
  <1>4. CASE request.kind \in {"run", "complete", "analyze"}
    <2>1. /\ copies' = copies
          /\ made' = made + (IF request.kind = "run" THEN 1 ELSE 0)
      BY <1>1, <1>4 DEF Serve, server
    <2>2. \A n : ~Has(request, n)
      BY <1>4 DEF Has
    <2> QED
      BY <1>1, <2>1, <2>2
  <1> QED
    BY <1>2, <1>3, <1>4 DEF Requests, Kinds

LEMMA ArriveCounts ==
  ASSUME CInv, IInv', Arrive
  PROVE  CInv'
  <1>1. /\ UNCHANGED <<batched, step, batch, known, pc, after, awaited, late, failures>>
        /\ pc = "await" /\ answer = "none" /\ answer' = "ok" /\ Serve(awaited)
        /\ TypeOK /\ failures \in Nat /\ step \in 0 .. MaxSteps
    BY DEF Arrive, client, CInv, IInv, TypeOK
  <1>2. awaited \in Requests /\ WellFormed(awaited)
    BY <1>1 DEF CInv, IInv, TypeOK, AwaitedWellFormed
  <1>3. /\ \A n \in Steps : copies'[n] = copies[n] + (IF Has(awaited, n) THEN 1 ELSE 0)
        /\ made' = made + (IF awaited.kind = "run" THEN 1 ELSE 0)
    BY <1>1, <1>2, ServeCounts
  <1>4. awaited.kind \in {"batch", "step"} => batch = <<>>
    BY <1>1, <1>2 DEF CInv, IInv, AwaitedWellFormed, QueueIsSuffix, WellFormed
  <1>5. \A n : /\ Pending(n) <=> Has(awaited, n) \/ n \in EventsOf(batch)
               /\ Pending(n)' <=> n \in EventsOf(batch)
               /\ Has(awaited, n) => n \notin EventsOf(batch)
    BY <1>1, <1>4, EventsOfQueues DEF Pending, Has
  <1>6. ASSUME NEW n \in Steps
        PROVE  Weight(n)' <= 1 + (IF batched THEN failures ELSE 0)
    <2>1. /\ copies[n] \in Nat /\ Cardinality(LateWith(n)) \in Nat
          /\ Weight(n) <= 1 + (IF batched THEN failures ELSE 0)
      BY <1>1, WeightParts DEF CInv, WeightBounded
    <2>2. LateWith(n)' = LateWith(n)
      BY <1>1, SameLate
    <2>3. Weight(n)' = copies'[n] + Cardinality(LateWith(n)) + (IF Pending(n)' THEN 1 ELSE 0)
      BY <2>2 DEF Weight
    <2> QED
      BY <1>1, <1>3, <1>5, <2>1, <2>3 DEF Weight
  <1>7. WeightBounded'
    BY <1>1, <1>6 DEF WeightBounded
  <1>8. RunsBounded'
    <2>1. made \in Nat /\ Cardinality(LateRuns) \in Nat
      BY <1>1, RunParts DEF CInv
    <2>2. LateRuns' = LateRuns
      BY <1>1, SameLate
    <2>3. /\ awaited.kind = "run" => RunOwed /\ ~RunOwed'
          /\ awaited.kind # "run" => RunOwed' = RunOwed
      BY <1>1 DEF RunOwed
    <2> QED
      BY <1>1, <1>3, <2>1, <2>2, <2>3 DEF CInv, RunsBounded
  <1>9. FlushedBefore'
    BY <1>1 DEF CInv, FlushedBefore
  <1>10. Undisturbed'
    <2>1. failures = 0 => late' = {} /\ EmptyAtCall'
      BY <1>1 DEF CInv, Undisturbed, EmptyAtCall
    <2>2. ASSUME failures = 0, ~batched, NEW n \in 1 .. step
          PROVE  copies'[n] > 0 \/ Pending(n)'
      <3>1. copies[n] > 0 \/ Pending(n)
        BY <2>2 DEF CInv, Undisturbed
      <3>2. n \in Steps /\ copies[n] \in Nat
        BY <1>1 DEF TypeOK, Steps
      <3> QED
        BY <1>3, <1>5, <3>1, <3>2
    <2> QED
      BY <1>1, <2>1, <2>2 DEF Undisturbed
  <1> QED
    BY <1>1, <1>7, <1>8, <1>9, <1>10 DEF CInv

LEMMA ArriveLateCounts ==
  ASSUME CInv, IInv', ArriveLate
  PROVE  CInv'
  <1>1. PICK m \in late : Serve(m.request) /\ late' = late \ {m}
    BY DEF ArriveLate
  <1>2. /\ UNCHANGED <<batched, step, batch, known, pc, after, awaited, answer, failures>>
        /\ TypeOK /\ failures \in Nat /\ IsFiniteSet(late)
    BY DEF ArriveLate, client, CInv, IInv, TypeOK
  <1>3. m.request \in Requests /\ WellFormed(m.request)
    BY <1>2 DEF CInv, IInv, TypeOK, LateWellFormed
  <1>4. /\ \A n \in Steps : copies'[n] = copies[n] + (IF Has(m.request, n) THEN 1 ELSE 0)
        /\ made' = made + (IF m.request.kind = "run" THEN 1 ELSE 0)
    BY <1>1, <1>2, <1>3, ServeCounts
  <1>5. IsFiniteSet(late')
    BY <1>1, <1>2, FS_Subset
  <1>6. ASSUME NEW n \in Steps
        PROVE  Weight(n)' <= 1 + (IF batched THEN failures ELSE 0)
    <2>1. /\ copies[n] \in Nat /\ IsFiniteSet(LateWith(n)) /\ Cardinality(LateWith(n)) \in Nat
          /\ Weight(n) <= 1 + (IF batched THEN failures ELSE 0)
      BY <1>2, WeightParts DEF CInv, WeightBounded
    <2>2. LateWith(n)' = LateWith(n) \ {m} /\ (m \in LateWith(n) <=> Has(m.request, n))
      BY <1>1 DEF LateWith
    <2>3. Cardinality(LateWith(n)')
              = Cardinality(LateWith(n)) - (IF Has(m.request, n) THEN 1 ELSE 0)
      <3>1. Cardinality(LateWith(n) \ {m})
                = IF m \in LateWith(n) THEN Cardinality(LateWith(n)) - 1 ELSE Cardinality(LateWith(n))
        BY <2>1, FS_RemoveElement
      <3> QED
        BY <2>1, <2>2, <3>1
    <2>4. Pending(n)' <=> Pending(n)
      BY <1>2 DEF Pending
    <2>5. Weight(n)' = copies'[n] + Cardinality(LateWith(n)') + (IF Pending(n)' THEN 1 ELSE 0)
      BY DEF Weight
    <2> QED
      BY <1>2, <1>4, <2>1, <2>3, <2>4, <2>5 DEF Weight
  <1>7. WeightBounded'
    BY <1>2, <1>6 DEF WeightBounded
  <1>8. RunsBounded'
    <2>1. made \in Nat /\ IsFiniteSet(LateRuns) /\ Cardinality(LateRuns) \in Nat
      BY <1>2, RunParts
    <2>2. LateRuns' = LateRuns \ {m} /\ (m \in LateRuns <=> m.request.kind = "run")
      BY <1>1 DEF LateRuns
    <2>3. Cardinality(LateRuns')
              = Cardinality(LateRuns) - (IF m.request.kind = "run" THEN 1 ELSE 0)
      <3>1. Cardinality(LateRuns \ {m})
                = IF m \in LateRuns THEN Cardinality(LateRuns) - 1 ELSE Cardinality(LateRuns)
        BY <2>1, FS_RemoveElement
      <3> QED
        BY <2>1, <2>2, <3>1
    <2>4. RunOwed' <=> RunOwed
      BY <1>2 DEF RunOwed
    <2> QED
      BY <1>2, <1>4, <2>1, <2>3, <2>4 DEF CInv, RunsBounded
  <1>9. FlushedBefore'
    BY <1>2 DEF CInv, FlushedBefore
  <1>10. Undisturbed'
    BY <1>1, <1>2 DEF CInv, Undisturbed
  <1> QED
    BY <1>5, <1>7, <1>8, <1>9, <1>10 DEF CInv

LEMMA InitCInv == Init => CInv
  <1> SUFFICES ASSUME Init PROVE CInv
    OBVIOUS
  <1>1. IInv
    BY InitIInv
  <1>2. late = {} /\ IsFiniteSet(late) /\ Cardinality({}) = 0
    BY FS_EmptySet DEF Init
  <1>3. LateRuns = {} /\ \A n : LateWith(n) = {} /\ ~Pending(n)
    BY <1>2, EventsOfQueues DEF Init, LateRuns, LateWith, Pending
  <1>4. WeightBounded
    <2> SUFFICES ASSUME NEW n \in Steps
                 PROVE  Weight(n) <= 1 + (IF batched THEN failures ELSE 0)
      BY DEF WeightBounded
    <2>1. copies[n] = 0 /\ Cardinality(LateWith(n)) = 0 /\ ~Pending(n)
      BY <1>2, <1>3 DEF Init
    <2>2. Weight(n) = 0
      BY <2>1 DEF Weight
    <2> QED
      BY <2>2 DEF Init
  <1>6. RunsBounded
    BY <1>2, <1>3 DEF Init, RunsBounded, RunOwed
  <1>5. FlushedBefore /\ Undisturbed
    BY <1>2 DEF Init, FlushedBefore, Undisturbed, EmptyAtCall
  <1> QED
    BY <1>1, <1>2, <1>4, <1>5, <1>6 DEF CInv

LEMMA NextCInv ==
  ASSUME CInv, [Next]_vars
  PROVE  CInv'
  <1>1. IInv'
    BY NextIInv DEF CInv
  <1>2. CASE Host
    BY <1>1, <1>2, RecordCounts, CallCounts DEF Host
  <1>3. CASE Progress
    BY <1>1, <1>3, EnsureRunCounts, AppendStepCounts, PostCallCounts, AnsweredCounts,
       RaisedCounts
    DEF Progress
  <1>4. CASE Arrive \/ ArriveLate \/ Reject
    BY <1>1, <1>4, ArriveCounts, ArriveLateCounts, RejectCounts
  <1>5. CASE UNCHANGED vars
    <2>1. UNCHANGED <<client, network, server>>
      BY <1>5 DEF vars
    <2>2. /\ LateRuns' = LateRuns /\ RunOwed' = RunOwed
          /\ \A n : LateWith(n)' = LateWith(n) /\ Pending(n)' = Pending(n)
      BY <2>1 DEF client, network, LateRuns, RunOwed, LateWith, Pending
    <2>3. WeightBounded' /\ RunsBounded'
      BY <2>1, <2>2 DEF CInv, WeightBounded, Weight, RunsBounded, client, network, server
    <2>4. IsFiniteSet(late') /\ FlushedBefore' /\ Undisturbed'
      BY <2>1, <2>2 DEF CInv, FlushedBefore, Undisturbed, EmptyAtCall, client, network, server
    <2> QED
      BY <1>1, <2>3, <2>4 DEF CInv
  <1> QED
    BY <1>2, <1>3, <1>4, <1>5 DEF Next

(* CInv holds in every reachable state. *)
THEOREM CountInvariance == Spec => []CInv
  <1>1. CInv /\ [Next]_vars => CInv'
    BY NextCInv
  <1> QED
    BY <1>1, InitCInv, PTL DEF Spec

(* Every row that repeats a step and every run too many has a post that     *)
(* raised as its cause, and without a queue no step is ever stored twice.   *)
THEOREM CopiesHaveFailures == Spec => []CopiesNeedFailures
  <1>1. ASSUME CInv PROVE CopiesNeedFailures
    <2>1. TypeOK /\ IsFiniteSet(late)
      BY <1>1 DEF CInv, IInv
    <2>2. ASSUME NEW n \in Steps PROVE copies[n] <= 1 + (IF batched THEN failures ELSE 0)
      <3>1. /\ copies[n] \in Nat /\ failures \in Nat /\ Cardinality(LateWith(n)) \in Nat
            /\ Weight(n) <= 1 + (IF batched THEN failures ELSE 0)
        BY <1>1, <2>1, WeightParts DEF CInv, WeightBounded
      <3> QED
        BY <3>1 DEF Weight
    <2>3. made <= 1 + failures
      <3>1. made \in Nat /\ failures \in Nat /\ Cardinality(LateRuns) \in Nat
        BY <2>1, RunParts
      <3> QED
        BY <1>1, <3>1 DEF CInv, RunsBounded
    <2> QED
      BY <2>2, <2>3 DEF CopiesNeedFailures
  <1> QED
    BY <1>1, CountInvariance, PTL

(* A completion, and a close, of a tracer none of whose posts raised comes  *)
(* after all of its steps have been stored, each once.                      *)
LEMMA StoredAtEnd ==
  ASSUME CInv, [Next]_vars, vars' # vars, failures' = 0,
         (completed' /\ ~completed) \/ pc' = "closed"
  PROVE  \A n \in 1 .. step : copies[n] = 1
  <1>1. TypeOK /\ IsFiniteSet(late) /\ failures \in Nat /\ step \in 0 .. MaxSteps
    BY DEF CInv, IInv, TypeOK
  <1>2. failures = 0 /\ ~Raised
    BY <1>1 DEF Next, Host, Progress, Record, Call, EnsureRun, AppendStep, PostCall,
       Answered, Raised, Arrive, ArriveLate, Reject, vars, network
  <1>3. late = {} /\ ~ArriveLate
    BY <1>2 DEF CInv, Undisturbed, ArriveLate
  (* Nothing is unsent but a batch that has just been stored. *)
  <1>4. /\ Unsent # <<>> => /\ pc = "await" /\ awaited.kind = "batch" /\ answer = "ok"
        /\ \A n \in 1 .. step : ~batched => ~Pending(n)
    <2>1. CASE Arrive /\ completed' /\ ~completed
      <3>1. pc = "await" /\ awaited.kind = "complete"
        BY <2>1 DEF Arrive, Serve, server
      <3>2. batch = <<>>
        BY <1>2, <3>1 DEF CInv, Undisturbed, EmptyAtCall
      <3> QED
        BY <3>1, <3>2, EventsOfQueues DEF Unsent, Pending, Has
    <2>2. CASE Call("closed") /\ pc' = "closed"
      <3>1. batch = <<>> /\ pc = "idle"
        BY <2>2 DEF Call, Flush, Post
      <3> QED
        BY <3>1, EventsOfQueues DEF Unsent, Pending
    <2>3. CASE Answered /\ pc' = "closed"
      <3>1. pc = "await" /\ answer = "ok" /\ after = "closed"
        BY <2>3 DEF Answered
      <3>2. awaited.kind = "batch" /\ WellFormed(awaited)
        BY <3>1 DEF CInv, IInv, FlushedBefore, AwaitedWellFormed
      <3> QED
        BY <3>1, <3>2 DEF WellFormed
    <2>4. \/ Arrive /\ completed' /\ ~completed
          \/ Call("closed") /\ pc' = "closed"
          \/ Answered /\ pc' = "closed"
      <3>1. CASE completed' /\ ~completed
        BY <1>3, <3>1 DEF Next, Host, Progress, Record, Call, EnsureRun, AppendStep,
           PostCall, Answered, Raised, Reject, vars, server
      <3>2. CASE pc' = "closed"
        <4>1. ~Arrive /\ ~Reject
          BY <3>2 DEF Arrive, Reject, client
        <4>2. ~EnsureRun /\ ~AppendStep /\ ~PostCall
          BY <3>2 DEF EnsureRun, AppendStep, PostCall, Flush, Post, Goto
        <4>3. \A more \in BOOLEAN : ~Record(more)
          BY <3>2 DEF Record, Goto
        <4>4. \A label \in {"idle", "complete", "analyze"} : ~Call(label)
          BY <3>2 DEF Call, Flush, Post, Goto
        <4> QED
          BY <1>2, <1>3, <3>2, <4>1, <4>2, <4>3, <4>4 DEF Next, Host, Progress
      <3> QED
        BY <3>1, <3>2
    <2> QED
      BY <2>1, <2>2, <2>3, <2>4
  <1>5. ASSUME NEW n \in 1 .. step PROVE copies[n] > 0
    <2>1. n \in Steps
      BY <1>1 DEF Steps
    <2>2. CASE ~batched
      BY <1>2, <1>4, <2>2 DEF CInv, Undisturbed
    <2>3. CASE batched
      <3>1. known
        BY <1>1, <2>3 DEF CInv, IInv, QueueIsSuffix
      <3>2. PICK lo \in 0 .. step + 1 : IsSpan(Unsent, lo, step) /\ StoredBefore(lo)
        BY <2>3, <3>1 DEF CInv, IInv, QueueIsSuffix
      <3>3. CASE n < lo
        BY <2>1, <3>2, <3>3 DEF StoredBefore
      <3>4. CASE n >= lo
        <4>1. Unsent \in Seq(Events)
          BY UnsentType DEF CInv, IInv
        <4>2. EventsOf(Unsent) = lo .. step
          BY <1>1, <3>2, <3>4, <4>1, SpanEvents
        <4>3. n \in EventsOf(Unsent)
          BY <1>1, <3>2, <3>4, <4>2
        <4>4. Unsent # <<>>
          BY <4>3, EventsOfQueues
        <4> QED
          BY <1>4, <2>1, <4>3, <4>4 DEF CInv, IInv, AwaitedWellFormed, Unsent
      <3> QED
        BY <1>1, <3>2, <3>3, <3>4
    <2> QED
      BY <2>2, <2>3
  <1>6. ASSUME NEW n \in 1 .. step PROVE copies[n] = 1
    <2>1. n \in Steps
      BY <1>1 DEF Steps
    <2>2. /\ copies[n] \in Nat /\ Cardinality(LateWith(n)) \in Nat
          /\ Weight(n) <= 1 + (IF batched THEN failures ELSE 0)
      BY <1>1, <2>1, WeightParts DEF CInv, WeightBounded
    <2> QED
      BY <1>2, <1>5, <2>2 DEF Weight
  <1> QED
    BY <1>6

(* No run is completed, and no tracer closed, before its steps are stored,  *)
(* once each, unless a post raised.                                         *)
THEOREM CompletesWhenStored == Spec => CompletedWhenStored
  <1>1. ASSUME CInv, [Next]_vars
        PROVE  [failures' = 0 /\ ((completed' /\ ~completed) \/ (pc' = "closed"))
                => \A n \in 1 .. step : copies[n] = 1]_vars
    BY <1>1, StoredAtEnd
  <1> QED
    BY <1>1, CountInvariance, PTL DEF Spec, CompletedWhenStored

(***************************************************************************)
(* Why every call of the host returns.                                     *)
(***************************************************************************)

InCall == pc \notin {"idle", "closed"}

(* The steps left after the reply, when the post succeeds. *)
LeftAfter == IF after \in {"idle", "closed"} THEN 0 ELSE 3

LeftHere ==
    CASE pc = "await" -> LeftAfter + (IF answer = "none" THEN 2 ELSE 1)
      [] pc = "run" -> 6
      [] pc \in {"append", "complete", "analyze"} -> 3
      [] OTHER -> 0

(* An observation whose run could not be posted may record its exception.   *)
LeftAgain ==
    IF again /\ (pc = "run" \/ (pc = "await" /\ awaited.kind = "run")) THEN 10 ELSE 0

Left == LeftHere + LeftAgain

(* A step that does not take the call closer to its return is none of its. *)
Forward == InCall => Left' < Left \/ UNCHANGED <<client, awaited, answer>>

(* A reply, an error or a timeout can end every wait. *)
WaitCanEnd ==
    pc = "await" =>
        /\ awaited \in Requests
        /\ answer = "error" => failures < MaxFailures

LEMMA LeftNat == Left \in Nat
  <1>1. LeftAfter \in Nat
    BY DEF LeftAfter
  <1>2. LeftHere \in Nat
    BY <1>1 DEF LeftHere
  <1>3. LeftAgain \in Nat
    BY DEF LeftAgain
  <1> QED
    BY <1>2, <1>3 DEF Left

LEMMA ForwardStep ==
  ASSUME IInv, [Next]_vars
  PROVE  [Forward]_vars
  <1> SUFFICES ASSUME InCall, vars' # vars
               PROVE  Left' < Left \/ UNCHANGED <<client, awaited, answer>>
    BY DEF Forward
  <1> USE DEF Left, LeftHere, LeftAfter, LeftAgain
  <1>1. TypeOK /\ AwaitedWellFormed
    BY DEF IInv
  <1>2. CASE Host
    BY <1>2 DEF Host, Record, Call, InCall
  <1>3. CASE EnsureRun
    <2>1. pc = "run" /\ again' = again /\ pc' \in {"append", "await"}
      BY <1>3 DEF EnsureRun, Flush, Post, Goto
    <2>2. pc' = "await" => after' = "append" /\ answer' = "none"
      BY <1>3 DEF EnsureRun, Flush, Post, Goto
    <2> QED
      BY <2>1, <2>2
  <1>4. CASE AppendStep
    <2>1. pc = "append" /\ again' = again /\ pc' \in {"idle", "await"}
      BY <1>4 DEF AppendStep, Flush, Post, Goto
    <2>2. pc' = "await" =>
              after' = "idle" /\ answer' = "none" /\ awaited'.kind \in {"batch", "step"}
      BY <1>4 DEF AppendStep, Flush, Post, Goto
    <2> QED
      BY <2>1, <2>2
  <1>5. CASE PostCall
    BY <1>5 DEF PostCall, Post
  <1>6. CASE Answered
    <2>1. pc = "await" /\ answer = "ok" /\ pc' = after /\ again' = again
      BY <1>6 DEF Answered
    <2>2. after \in {"idle", "append", "complete", "analyze", "closed"}
      BY <1>1 DEF TypeOK
    <2> QED
      BY <2>1, <2>2
  <1>7. CASE Raised
    <2>1. pc = "await"
      BY <1>7 DEF Raised
    <2>2. CASE awaited.kind = "run"
      <3>1. after = "append"
        BY <1>1, <2>1, <2>2 DEF AwaitedWellFormed
      <3>2. pc' = (IF again THEN "run" ELSE "idle") /\ again' = FALSE
        BY <1>7, <2>2 DEF Raised
      <3> QED
        BY <2>1, <2>2, <3>1, <3>2
    <2>3. CASE awaited.kind # "run"
      <3>1. pc' = after /\ again' = again
        BY <1>7, <2>3 DEF Raised
      <3>2. after \in {"idle", "append", "complete", "analyze", "closed"}
        BY <1>1 DEF TypeOK
      <3> QED
        BY <2>1, <2>3, <3>1, <3>2
    <2> QED
      BY <2>2, <2>3
  <1>8. CASE Arrive \/ Reject
    <2>1. /\ pc = "await" /\ answer = "none" /\ answer' # "none"
          /\ UNCHANGED <<pc, after, again, awaited>>
      BY <1>8 DEF Arrive, Reject, client
    <2> QED
      BY <2>1
  <1>9. CASE ArriveLate
    BY <1>9 DEF ArriveLate
  <1> QED
    BY <1>2, <1>3, <1>4, <1>5, <1>6, <1>7, <1>8, <1>9 DEF Next, Progress

(* While the host is in a call, every step but the arrival of a request     *)
(* that was given up brings the call closer to its return, by a measure of  *)
(* what is left of it: none of its posts is tried again for ever.           *)
THEOREM CallsMoveForward == Spec => [][Forward]_vars
  BY Invariance, ForwardStep, PTL DEF Spec

(* No call is stuck in a wait: the reply it waits for can always come, or   *)
(* the post can still raise.                                                *)
THEOREM WaitsCanEnd == Spec => []WaitCanEnd
  <1> DEFINE J == IInv /\ WaitCanEnd
  <1>1. Init => J
    BY InitIInv DEF Init, WaitCanEnd
  <1>2. J /\ [Next]_vars => J'
    <2> SUFFICES ASSUME J, [Next]_vars PROVE WaitCanEnd'
      BY NextIInv
    <2>1. IInv'
      BY NextIInv
    <2>2. pc' = "await" => awaited' \in Requests
      BY <2>1 DEF IInv, TypeOK, AwaitedWellFormed
    <2>3. pc' = "await" /\ answer' = "error" => failures' < MaxFailures
      BY DEF WaitCanEnd, Next, Host, Progress, Record, Call, EnsureRun, AppendStep,
         PostCall, Answered, Raised, Arrive, ArriveLate, Reject, Flush, Post, Goto,
         vars, client, network
    <2> QED
      BY <2>2, <2>3 DEF WaitCanEnd
  <1> QED
    BY <1>1, <1>2, PTL DEF Spec
=============================================================================
