------------------------- MODULE TracerThreadsProofs -------------------------
(***************************************************************************)
(* Proofs about TracerThreads for any threads and bounds.                  *)
(***************************************************************************)
EXTENDS TracerThreads, FiniteSetTheorems, TLAPS

(* What the place of a thread says of the rest of its state.                *)
ThreadInv(t) ==
    /\ pc[t] \in {"name", "announce"} => batched
    /\ pc[t] = "announce" => runId # NoRun
    /\ pc[t] = "create" => ~batched
    /\ after[t] = "append" =>
           /\ batched
           /\ pc[t] \in {"append", "size", "flush", "copy", "clear", "post", "requeue"}
    /\ Recording(t) => calls[t] # 0
    /\ pc[t] \notin {"clear", "post", "requeue"} => taken[t] = <<>>
    /\ pc[t] = "requeue" => failures # 0

Control ==
    /\ \A t \in Threads : ThreadInv(t)
    /\ ~batched => queue = <<>> /\ \A t \in Threads : taken[t] = <<>>

(* Without a race, a clear drops nothing that its thread has not copied.    *)
Snapshots ==
    ~raced =>
        \A t \in Threads :
            pc[t] = "clear" => EventsOf(queue) \subseteq EventsOf(taken[t])

(* The threads that found no run and are about to make one.                 *)
Making == {t \in Threads : pc[t] \in {"name", "create"}}

RunsMade ==
    /\ runId = NoRun => made <= failures
    /\ made + Cardinality(Making) <= Cardinality(Threads) + failures

(* The event has not been queued or posted yet.                             *)
Unissued(e) ==
    \/ e.n = 0 /\ (runId = NoRun \/ pc[e.by] \in {"name", "announce"})
    \/ e.n > calls[e.by]
    \/ e.n # 0 /\ e.n = calls[e.by] /\ Recording(e.by)

Holders(e) == {t \in Threads : e \in EventsOf(taken[t])}

Once(q) == \A i, j \in DOMAIN q : q[i] = q[j] => i = j

UnissuedNowhere ==
    \A e \in Events :
        Unissued(e) => copies[e] = 0 /\ e \notin EventsOf(queue) /\ Holders(e) = {}

(* While an event is queued, none of the flushes that copied it has cleared *)
(* the queue, let alone stored it.                                          *)
QueuedIsNew ==
    \A e \in EventsOf(queue) :
        copies[e] = 0 /\ \A t \in Holders(e) : pc[t] = "clear"

QueuedOnce == Once(queue) /\ \A t \in Threads : Once(taken[t])

CopiesBounded ==
    \A e \in Events : copies[e] + Cardinality(Holders(e)) <= Cardinality(Threads)

Copying ==
    failures = 0 => QueuedIsNew /\ QueuedOnce /\ CopiesBounded

(* An event is in one place: in the queue, perhaps with the thread that is  *)
(* about to clear it, or with one thread that posts it, or requeues it.     *)
(* While it is in one, each row of it is due to a failure.                  *)
InOnePlace(e) ==
    /\ \A t, u \in Holders(e) : t = u
    /\ e \in EventsOf(queue) => \A t \in Holders(e) : pc[t] = "clear"
    /\ copies[e] <= 1 + failures
    /\ e \in EventsOf(queue) \/ Holders(e) # {} => copies[e] <= failures

Apart == ~overlapped => QueuedOnce /\ \A e \in Events : InOnePlace(e)

PostedOnce == ~batched => \A e \in Events : copies[e] <= 1

IInv ==
    /\ TypeOK /\ Control /\ Snapshots /\ LossNeedsRace /\ RunsMade
    /\ UnissuedNowhere /\ Copying /\ Apart /\ PostedOnce

USE ThreadsAssumption, BoundsAssumption, NoRunAssumption

(***************************************************************************)
(* Queues and rows.                                                        *)
(***************************************************************************)

LEMMA EventsOfQueues ==
    /\ EventsOf(<<>>) = {}
    /\ \A e \in Events : EventsOf(<<e>>) = {e}
    /\ \A q, r \in Seq(Events) : EventsOf(q \o r) = EventsOf(q) \cup EventsOf(r)
    /\ \A q \in Seq(Events) : EventsOf(q) \subseteq Events
<1>1. EventsOf(<<>>) = {}
    BY DEF EventsOf
<1>2. \A e \in Events : EventsOf(<<e>>) = {e}
    BY DEF EventsOf
<1>3. ASSUME NEW q \in Seq(Events), NEW r \in Seq(Events)
      PROVE  EventsOf(q \o r) = EventsOf(q) \cup EventsOf(r)
    <2>1. ASSUME NEW i \in DOMAIN r
          PROVE  Len(q) + i \in DOMAIN (q \o r) /\ (q \o r)[Len(q) + i] = r[i]
        OBVIOUS
    <2>2. \A i \in DOMAIN q : i \in DOMAIN (q \o r) /\ (q \o r)[i] = q[i]
        OBVIOUS
    <2>3. \A i \in DOMAIN (q \o r) :
              i \in DOMAIN q \/ (i - Len(q) \in DOMAIN r /\ (q \o r)[i] = r[i - Len(q)])
        OBVIOUS
    <2>4. EventsOf(q \o r) \subseteq EventsOf(q) \cup EventsOf(r)
        BY <2>3 DEF EventsOf
    <2>5. EventsOf(q) \subseteq EventsOf(q \o r)
        BY <2>2, Zenon DEF EventsOf
    <2>6. EventsOf(r) \subseteq EventsOf(q \o r)
        BY <2>1, Zenon DEF EventsOf
    <2>. QED
        BY <2>4, <2>5, <2>6
<1>4. \A q \in Seq(Events) : EventsOf(q) \subseteq Events
    BY DEF EventsOf
<1>. QED
    BY <1>1, <1>2, <1>3, <1>4

LEMMA StoredCounts ==
    ASSUME copies \in [Events -> Nat], NEW q \in Seq(Events)
    PROVE  /\ Stored(q) \in [Events -> Nat]
           /\ \A e \in Events \ EventsOf(q) : Stored(q)[e] = copies[e]
           /\ \A e \in EventsOf(q) : Stored(q)[e] > copies[e]
           /\ Once(q) => \A e \in EventsOf(q) : Stored(q)[e] = copies[e] + 1
<1>. DEFINE places(e) == {i \in DOMAIN q : q[i] = e}
<1>1. IsFiniteSet(DOMAIN q)
    <2>1. DOMAIN q = 1 .. Len(q) /\ Len(q) \in Nat
        OBVIOUS
    <2>. QED
        BY <2>1, FS_Interval
<1>2. ASSUME NEW e \in Events
      PROVE  /\ IsFiniteSet(places(e)) /\ Cardinality(places(e)) \in Nat
             /\ Stored(q)[e] = copies[e] + Cardinality(places(e))
    <2>1. IsFiniteSet(places(e))
        <3>. places(e) \subseteq DOMAIN q
            OBVIOUS
        <3>. QED
            BY <1>1, FS_Subset
    <2>2. Cardinality(places(e)) \in Nat
        BY <2>1, FS_CardinalityType
    <2>. QED
        BY <2>1, <2>2 DEF Stored
<1>3. Stored(q) \in [Events -> Nat]
    <2>1. \A e \in Events : Stored(q)[e] \in Nat
        <3>1. ASSUME NEW e \in Events PROVE Stored(q)[e] \in Nat
            <4>1. copies[e] \in Nat
                OBVIOUS
            <4>. HIDE DEF places
            <4>. QED
                BY <1>2, <4>1
        <3>. QED
            BY <3>1
    <2>2. Stored(q) = [e \in Events |-> Stored(q)[e]]
        BY DEF Stored
    <2>. QED
        BY <2>1, <2>2
<1>4. ASSUME NEW e \in Events \ EventsOf(q) PROVE Stored(q)[e] = copies[e]
    <2>1. places(e) = {}
        BY DEF EventsOf
    <2>. QED
        BY <1>2, <2>1, FS_EmptySet
<1>5. ASSUME NEW e \in EventsOf(q) PROVE Stored(q)[e] > copies[e]
    <2>1. e \in Events /\ places(e) # {}
        BY DEF EventsOf
    <2>2. Cardinality(places(e)) # 0
        BY <1>2, <2>1, FS_EmptySet
    <2>. QED
        BY <1>2, <2>1, <2>2
<1>6. ASSUME Once(q), NEW e \in EventsOf(q) PROVE Stored(q)[e] = copies[e] + 1
    <2>1. PICK i \in DOMAIN q : q[i] = e
        BY DEF EventsOf
    <2>2. e \in Events /\ places(e) = {i}
        BY <1>6, <2>1 DEF Once
    <2>3. Cardinality(places(e)) = 1
        BY <2>2, FS_Singleton
    <2>. QED
        BY <1>2, <2>2, <2>3
<1>. QED
    BY <1>3, <1>4, <1>5, <1>6

(* Queueing an event that is nowhere keeps the queue free of copies.        *)
LEMMA OnceMore ==
    ASSUME NEW q \in Seq(Events), NEW e \in Events, Once(q), e \notin EventsOf(q)
    PROVE  Once(q \o <<e>>)
BY DEF Once, EventsOf

LEMMA OnceBoth ==
    ASSUME NEW q \in Seq(Events), NEW r \in Seq(Events), Once(q), Once(r),
           \A d \in EventsOf(r) : d \notin EventsOf(q)
    PROVE  Once(q \o r)
<1>. SUFFICES ASSUME NEW i \in DOMAIN (q \o r), NEW j \in DOMAIN (q \o r),
                     (q \o r)[i] = (q \o r)[j]
              PROVE  i = j
    BY DEF Once
<1>1. \A k \in DOMAIN (q \o r) :
          \/ k \in DOMAIN q /\ (q \o r)[k] = q[k]
          \/ k - Len(q) \in DOMAIN r /\ (q \o r)[k] = r[k - Len(q)]
    OBVIOUS
<1>2. i \in Int /\ j \in Int /\ Len(q) \in Int
    OBVIOUS
<1>3. \A k \in DOMAIN q, l \in DOMAIN r : q[k] # r[l]
    BY DEF EventsOf
<1>. QED
    BY <1>1, <1>2, <1>3 DEF Once

LEMMA Steps ==
    ASSUME TypeOK, NEW t \in Threads
    PROVE  /\ Step(t) \in Events /\ <<Step(t)>> \in Seq(Events)
           /\ [by |-> t, n |-> 0] \in Events /\ <<[by |-> t, n |-> 0]>> \in Seq(Events)
BY DEF TypeOK, Step, Events

(***************************************************************************)
(* The steps, one invariant after the other.                               *)
(***************************************************************************)

LEMMA TypeStep ==
    ASSUME TypeOK, NEW t \in Threads, Record(t) \/ CallFlush(t) \/ Progress(t)
    PROVE  TypeOK'
<1>1. CASE Record(t)
    BY <1>1 DEF TypeOK, Record, Goto, host, server, races
<1>2. CASE CallFlush(t)
    BY <1>2 DEF TypeOK, CallFlush, Goto, host, server, races
<1>3. CASE TestRun(t)
    BY <1>3 DEF TypeOK, TestRun, Goto, host, server, races
<1>4. CASE NameRun(t)
    BY <1>4 DEF TypeOK, NameRun, Goto, host, races
<1>5. CASE Announce(t)
    BY <1>5, Steps DEF TypeOK, Announce, Enqueue, Goto, host, server
<1>6. CASE CreateRun(t)
    <2>1. made' \in Nat /\ failures' \in 0 .. MaxFailures /\ runId' \in 1 .. made' \cup {NoRun}
        BY <1>6 DEF TypeOK, CreateRun
    <2>2. pc' = [pc EXCEPT ![t] = "append"] \/ pc' = [pc EXCEPT ![t] = "idle"]
        BY <1>6 DEF CreateRun, Goto
    <2>. QED
        BY <1>6, <2>1, <2>2 DEF TypeOK, CreateRun, host, races
<1>7. CASE AppendStep(t)
    <2>1. copies' \in [Events -> Nat]
        <3>1. copies' = copies \/ copies' = Stored(<<Step(t)>>)
            BY <1>7 DEF AppendStep
        <3>2. copies \in [Events -> Nat]
            BY DEF TypeOK
        <3>3. Stored(<<Step(t)>>) \in [Events -> Nat]
            BY <3>2, Steps, StoredCounts
        <3>. QED
            BY <3>1, <3>2, <3>3
    <2>2. queue' \in Seq(Events)
        <3>1. queue' = queue \/ queue' = queue \o <<Step(t)>>
            BY <1>7 DEF AppendStep, Enqueue
        <3>2. queue \in Seq(Events) /\ <<Step(t)>> \in Seq(Events)
            BY Steps DEF TypeOK
        <3>. QED
            BY <3>1, <3>2
    <2>6. raced' \in BOOLEAN
        BY <1>7, Zenon DEF TypeOK, AppendStep, Enqueue
    <2>3. pc' = [pc EXCEPT ![t] = "size"] \/ pc' = [pc EXCEPT ![t] = "idle"]
        BY <1>7 DEF AppendStep, Goto
    <2>4. after' = after \/ after' = [after EXCEPT ![t] = "idle"]
        BY <1>7 DEF AppendStep
    <2>5. failures' \in 0 .. MaxFailures
        BY <1>7 DEF TypeOK, AppendStep
    <2>. QED
        BY <1>7, <2>1, <2>2, <2>3, <2>4, <2>5, <2>6 DEF TypeOK, AppendStep, host
<1>8. CASE TestSize(t)
    BY <1>8 DEF TypeOK, TestSize, Goto, host, server, races
<1>9. CASE TestEmpty(t)
    BY <1>9 DEF TypeOK, TestEmpty, Goto, host, server, races
<1>10. CASE CopyBatch(t)
    BY <1>10 DEF TypeOK, CopyBatch, Clearing, Goto, host, server
<1>11. CASE ClearBatch(t)
    BY <1>11 DEF TypeOK, ClearBatch, Goto, host, server, races
<1>12. CASE PostBatch(t)
    <2>1. copies' \in [Events -> Nat]
        <3>1. taken[t] \in Seq(Events)
            BY DEF TypeOK
        <3>. QED
            BY <1>12, <3>1, StoredCounts DEF TypeOK, PostBatch
    <2>2. pc' = [pc EXCEPT ![t] = after[t]] \/ pc' = [pc EXCEPT ![t] = "requeue"]
        BY <1>12 DEF PostBatch, Goto
    <2>3. taken' = taken \/ taken' = [taken EXCEPT ![t] = <<>>]
        BY <1>12 DEF PostBatch
    <2>4. failures' \in 0 .. MaxFailures
        BY <1>12 DEF TypeOK, PostBatch
    <2>5. UNCHANGED <<host, runId, queue, after, made, races>>
        BY <1>12 DEF PostBatch
    <2>6. taken' \in [Threads -> Seq(Events)]
        <3>1. taken \in [Threads -> Seq(Events)] /\ <<>> \in Seq(Events)
            BY DEF TypeOK
        <3>. QED
            BY <2>3, <3>1
    <2>7. after[t] \in {"idle", "append"}
        BY DEF TypeOK
    <2>. QED
        BY <2>1, <2>2, <2>4, <2>5, <2>6, <2>7 DEF TypeOK, host, races
<1>13. CASE Requeue(t)
    <2>1. queue' \in Seq(Events)
        <3>1. taken[t] \in Seq(Events)
            BY DEF TypeOK
        <3>. QED
            BY <1>13, <3>1 DEF TypeOK, Requeue, Enqueue
    <2>2. raced' \in BOOLEAN
        BY <1>13, Zenon DEF TypeOK, Requeue, Enqueue
    <2>3. taken' = [taken EXCEPT ![t] = <<>>] /\ pc' = [pc EXCEPT ![t] = after[t]]
        BY <1>13 DEF Requeue, Goto
    <2>4. UNCHANGED <<host, runId, after, server, overlapped>>
        BY <1>13 DEF Requeue
    <2>5. taken' \in [Threads -> Seq(Events)]
        BY <2>3 DEF TypeOK
    <2>6. after[t] \in {"idle", "append"}
        BY DEF TypeOK
    <2>. QED
        BY <2>1, <2>2, <2>3, <2>4, <2>5, <2>6 DEF TypeOK, host, server
<1>. QED
    BY <1>1, <1>2, <1>3, <1>4, <1>5, <1>6, <1>7, <1>8, <1>9, <1>10, <1>11, <1>12, <1>13
       DEF Progress

(* What a step of one thread leaves alone.                                  *)
LEMMA Undisturbed ==
    ASSUME TypeOK, NEW t \in Threads, Record(t) \/ CallFlush(t) \/ Progress(t)
    PROVE  /\ \A u \in Threads \ {t} :
                  pc'[u] = pc[u] /\ after'[u] = after[u] /\ calls'[u] = calls[u]
                      /\ taken'[u] = taken[u]
           /\ batched' = batched /\ failures' >= failures
           /\ runId' = NoRun => runId = NoRun
<1>1. CASE Record(t)
    BY <1>1 DEF TypeOK, Record, Goto, host, server, races
<1>2. CASE CallFlush(t)
    BY <1>2 DEF TypeOK, CallFlush, Goto, host, server, races
<1>3. CASE TestRun(t)
    BY <1>3 DEF TypeOK, TestRun, Goto, host, server, races
<1>4. CASE NameRun(t)
    BY <1>4 DEF TypeOK, NameRun, Goto, host, server, races
<1>5. CASE Announce(t)
    BY <1>5 DEF TypeOK, Announce, Goto, host, server, races
<1>6. CASE CreateRun(t)
    BY <1>6 DEF TypeOK, CreateRun, Goto, host, server, races
<1>7. CASE AppendStep(t)
    BY <1>7 DEF TypeOK, AppendStep, Goto, host, server, races
<1>8. CASE TestSize(t)
    BY <1>8 DEF TypeOK, TestSize, Goto, host, server, races
<1>9. CASE TestEmpty(t)
    BY <1>9 DEF TypeOK, TestEmpty, Goto, host, server, races
<1>10. CASE CopyBatch(t)
    BY <1>10 DEF TypeOK, CopyBatch, Goto, host, server, races
<1>11. CASE ClearBatch(t)
    BY <1>11 DEF TypeOK, ClearBatch, Goto, host, server, races
<1>12. CASE PostBatch(t)
    BY <1>12 DEF TypeOK, PostBatch, Goto, host, server, races
<1>13. CASE Requeue(t)
    BY <1>13 DEF TypeOK, Requeue, Goto, host, server, races
<1>. QED
    BY <1>1, <1>2, <1>3, <1>4, <1>5, <1>6, <1>7, <1>8, <1>9, <1>10, <1>11, <1>12, <1>13
       DEF Progress

LEMMA ControlStep ==
    ASSUME TypeOK, Control, NEW t \in Threads, Record(t) \/ CallFlush(t) \/ Progress(t)
    PROVE  Control'
<1>. USE DEF TypeOK, Control, ThreadInv, Recording, Goto, host, server, races
<1>. DEFINE Goal == /\ ThreadInv(t)'
                    /\ ~batched => queue' = <<>> /\ taken'[t] = <<>>
<1>1. ASSUME Record(t) PROVE Goal
    <2>1. calls'[t] # 0
        BY <1>1 DEF Record
    <2>2. pc'[t] = "run" /\ after'[t] # "append" /\ taken'[t] = <<>>
        BY <1>1 DEF Record
    <2>3. queue' = queue
        BY <1>1 DEF Record
    <2>. QED
        BY <2>1, <2>2, <2>3
<1>2. ASSUME CallFlush(t) PROVE Goal
    BY <1>2 DEF CallFlush
<1>3. ASSUME TestRun(t) PROVE Goal
    BY <1>3 DEF TestRun
<1>4. ASSUME NameRun(t) PROVE Goal
    <2>1. runId' # NoRun
        BY <1>4 DEF NameRun
    <2>2. /\ pc'[t] = "announce" /\ after'[t] = after[t] /\ calls'[t] = calls[t]
          /\ taken'[t] = taken[t] /\ queue' = queue /\ batched' = batched
        BY <1>4 DEF NameRun
    <2>3. batched /\ after[t] # "append" /\ calls[t] # 0 /\ taken[t] = <<>>
        BY <1>4 DEF NameRun
    <2>. QED
        BY <2>1, <2>2, <2>3
<1>5. ASSUME Announce(t) PROVE Goal
    BY <1>5 DEF Announce, Enqueue
<1>6. ASSUME CreateRun(t) PROVE Goal
    BY <1>6 DEF CreateRun
<1>7. ASSUME AppendStep(t) PROVE Goal
    BY <1>7 DEF AppendStep, Enqueue
<1>8. ASSUME TestSize(t) PROVE Goal
    BY <1>8 DEF TestSize
<1>9. ASSUME TestEmpty(t) PROVE Goal
    BY <1>9 DEF TestEmpty
<1>10. ASSUME CopyBatch(t) PROVE Goal
    BY <1>10 DEF CopyBatch
<1>11. ASSUME ClearBatch(t) PROVE Goal
    BY <1>11 DEF ClearBatch
<1>12. ASSUME PostBatch(t) PROVE Goal
    BY <1>12 DEF PostBatch
<1>13. ASSUME Requeue(t) PROVE Goal
    BY <1>13 DEF Requeue, Enqueue
<1>14. Goal
    BY <1>1, <1>2, <1>3, <1>4, <1>5, <1>6, <1>7, <1>8, <1>9, <1>10, <1>11, <1>12, <1>13
       DEF Progress
<1>15. ASSUME NEW u \in Threads, u # t PROVE ThreadInv(u)'
    <2>1. /\ pc'[u] = pc[u] /\ after'[u] = after[u] /\ calls'[u] = calls[u]
          /\ taken'[u] = taken[u] /\ batched' = batched /\ failures' >= failures
          /\ (runId' = NoRun => runId = NoRun)
        BY <1>15, Undisturbed
    <2>2. failures' # 0 \/ failures = 0
        BY <2>1
    <2>. QED
        BY <2>1, <2>2
<1>. QED
    BY <1>14, <1>15, Undisturbed

(***************************************************************************)
(* No step is lost without a race.                                         *)
(***************************************************************************)

(* An append that is no race finds no other thread between copy and clear.  *)
LEMMA QueueingAlone ==
    ASSUME NEW t \in Threads, NEW q, Enqueue(t, q), ~raced'
    PROVE  ~raced /\ \A u \in Threads \ {t} : pc[u] # "clear"
BY Zenon DEF Enqueue, Clearing

(* What a step does to the queue.                                           *)
LEMMA QueueChanges ==
    ASSUME TypeOK, NEW t \in Threads, Record(t) \/ CallFlush(t) \/ Progress(t)
    PROVE  \/ UNCHANGED <<queue, raced>>
           \/ ClearBatch(t) /\ raced' = raced
           \/ /\ \E q \in Seq(Events) : Enqueue(t, q)
              /\ pc'[t] # "clear"
<1>1. CASE Record(t) \/ CallFlush(t) \/ TestRun(t) \/ NameRun(t) \/ CreateRun(t)
           \/ TestSize(t) \/ TestEmpty(t) \/ CopyBatch(t) \/ ClearBatch(t) \/ PostBatch(t)
    BY <1>1, Zenon DEF Record, CallFlush, TestRun, NameRun, CreateRun, TestSize,
       TestEmpty, CopyBatch, ClearBatch, PostBatch, races
<1>2. CASE Announce(t)
    <2>1. \E q \in Seq(Events) : Enqueue(t, q)
        BY <1>2, Steps DEF Announce
    <2>2. pc'[t] # "clear"
        BY <1>2 DEF TypeOK, Announce, Goto
    <2>. QED
        BY <2>1, <2>2
<1>3. CASE AppendStep(t)
    <2>1. UNCHANGED <<queue, raced>> \/ \E q \in Seq(Events) : Enqueue(t, q)
        BY <1>3, Steps, Zenon DEF AppendStep
    <2>2. pc'[t] # "clear"
        BY <1>3 DEF TypeOK, AppendStep, Goto
    <2>. QED
        BY <2>1, <2>2
<1>4. CASE Requeue(t)
    <2>1. \E q \in Seq(Events) : Enqueue(t, q)
        BY <1>4 DEF TypeOK, Requeue
    <2>2. pc'[t] # "clear"
        BY <1>4 DEF TypeOK, Requeue, Goto
    <2>. QED
        BY <2>1, <2>2
<1>. QED
    BY <1>1, <1>2, <1>3, <1>4 DEF Progress

LEMMA RacesStay ==
    ASSUME TypeOK, NEW t \in Threads, Record(t) \/ CallFlush(t) \/ Progress(t), ~raced'
    PROVE  ~raced
BY QueueChanges, QueueingAlone

LEMMA SnapshotsStep ==
    ASSUME TypeOK, Control, Snapshots,
           NEW t \in Threads, Record(t) \/ CallFlush(t) \/ Progress(t)
    PROVE  Snapshots'
<1>. SUFFICES ASSUME ~raced', NEW u \in Threads, pc'[u] = "clear"
              PROVE  EventsOf(queue') \subseteq EventsOf(taken'[u])
    BY DEF Snapshots, EventsOf
<1>1. u # t => pc'[u] = pc[u] /\ taken'[u] = taken[u]
    BY Undisturbed
<1>2. CASE UNCHANGED <<queue, raced>>
    <2>1. CASE u # t
        BY <1>1, <1>2, <2>1 DEF Snapshots
    <2>2. CASE u = t
        <3>1. CopyBatch(t)
            BY <2>2 DEF TypeOK, Progress, Record, CallFlush, TestRun, NameRun, Announce,
               CreateRun, AppendStep, TestSize, TestEmpty, ClearBatch, PostBatch,
               Requeue, Goto
        <3>2. taken'[t] = queue
            BY <3>1 DEF TypeOK, CopyBatch
        <3>. QED
            BY <1>2, <2>2, <3>2
    <2>. QED
        BY <2>1, <2>2
<1>3. CASE ClearBatch(t)
    BY <1>3, EventsOfQueues DEF ClearBatch
<1>4. CASE (\E q \in Seq(Events) : Enqueue(t, q)) /\ pc'[t] # "clear"
    BY <1>1, <1>4, QueueingAlone
<1>. QED
    BY <1>2, <1>3, <1>4, QueueChanges

(* The number of steps that a thread has queued or posted.                  *)
Settled(u) == calls[u] - (IF Recording(u) THEN 1 ELSE 0)

LEMMA SettledStep ==
    ASSUME TypeOK, Control, batched,
           NEW t \in Threads, Record(t) \/ CallFlush(t) \/ Progress(t)
    PROVE  \A u \in Threads :
               \/ Settled(u)' <= Settled(u)
               \/ /\ u = t /\ AppendStep(t)
                  /\ Settled(u)' = calls[u] /\ Settled(u) = calls[u] - 1
<1>. SUFFICES ASSUME NEW u \in Threads
              PROVE  \/ Settled(u)' <= Settled(u)
                     \/ /\ u = t /\ AppendStep(t)
                        /\ Settled(u)' = calls[u] /\ Settled(u) = calls[u] - 1
    OBVIOUS
<1>1. CASE u # t
    <2>1. calls[u] \in Nat
        BY DEF TypeOK
    <2>2. pc'[u] = pc[u] /\ after'[u] = after[u] /\ calls'[u] = calls[u]
        BY <1>1, Undisturbed
    <2>. QED
        BY <1>1, <2>1, <2>2 DEF Settled, Recording
<1>2. calls[t] \in Nat
    BY DEF TypeOK
<1>3. CASE Record(t)
    <2>1. calls'[t] = calls[t] + 1 /\ Recording(t)'
        BY <1>3 DEF TypeOK, Record, Recording, Goto
    <2>2. ~Recording(t)
        BY <1>3 DEF Control, ThreadInv, Record, Recording
    <2>. QED
        BY <1>1, <1>2, <2>1, <2>2 DEF Settled, Recording
<1>4. CASE AppendStep(t)
    <2>1. calls'[t] = calls[t] /\ ~Recording(t)'
        BY <1>4 DEF TypeOK, Control, ThreadInv, AppendStep, Recording, Goto, host
    <2>2. Recording(t)
        BY <1>4 DEF AppendStep, Recording
    <2>. QED
        BY <1>1, <1>2, <1>4, <2>1, <2>2 DEF Settled, Recording
<1>5. ASSUME u = t, calls'[t] = calls[t], Recording(t) => Recording(t)'
      PROVE  Settled(u)' <= Settled(u)
    BY <1>2, <1>5 DEF Settled, Recording
<1>. USE DEF TypeOK, Control, ThreadInv, Recording, Goto, host
<1>6. CASE CallFlush(t)
    BY <1>1, <1>5, <1>6 DEF CallFlush
<1>7. CASE TestRun(t)
    BY <1>1, <1>5, <1>7 DEF TestRun
<1>8. CASE NameRun(t)
    BY <1>1, <1>5, <1>8 DEF NameRun
<1>9. CASE Announce(t)
    BY <1>1, <1>5, <1>9 DEF Announce
<1>10. CASE CreateRun(t)
    BY <1>1, <1>5, <1>10 DEF CreateRun
<1>11. CASE TestSize(t)
    BY <1>1, <1>5, <1>11 DEF TestSize
<1>12. CASE TestEmpty(t)
    BY <1>1, <1>5, <1>12 DEF TestEmpty
<1>13. CASE CopyBatch(t)
    BY <1>1, <1>5, <1>13 DEF CopyBatch
<1>14. CASE ClearBatch(t)
    BY <1>1, <1>5, <1>14 DEF ClearBatch
<1>15. CASE PostBatch(t)
    BY <1>1, <1>5, <1>15 DEF PostBatch
<1>16. CASE Requeue(t)
    BY <1>1, <1>5, <1>16 DEF Requeue
<1>. QED
    BY <1>1, <1>3, <1>4, <1>6, <1>7, <1>8, <1>9, <1>10, <1>11, <1>12, <1>13, <1>14, <1>15,
       <1>16 DEF Progress

LEMMA NewlyRecorded ==
    ASSUME TypeOK, Control, batched, NEW e \in Events, e \in Recorded',
           NEW t \in Threads, Record(t) \/ CallFlush(t) \/ Progress(t)
    PROVE  e \in Recorded \/ e \in EventsOf(queue')
<1>. DEFINE upTo == Settled(e.by)
<1>1. e.by \in Threads /\ e.n \in Nat
    BY DEF Events
<1>2. e.n \in 1 .. upTo' /\ (e \in Recorded <=> e.n \in 1 .. upTo)
    BY DEF Recorded, Settled
<1>3. upTo \in Int /\ upTo' \in Int
    <2>1. calls[e.by] \in Int /\ calls'[e.by] \in Int
        BY <1>1, TypeStep DEF TypeOK
    <2>. QED
        BY <2>1 DEF Settled
<1>4. CASE upTo' <= upTo
    BY <1>1, <1>2, <1>3, <1>4
<1>5. CASE e.by = t /\ AppendStep(t) /\ upTo' = calls[t] /\ upTo = calls[t] - 1
    <2>1. CASE e.n <= upTo
        BY <1>1, <1>2, <1>3, <2>1
    <2>2. CASE e.n > upTo
        <3>1. e = Step(t)
            BY <1>1, <1>2, <1>3, <1>5, <2>2 DEF Events, Step, TypeOK
        <3>2. queue' = queue \o <<Step(t)>>
            BY <1>5 DEF AppendStep, Enqueue
        <3>3. queue \in Seq(Events) /\ Step(t) \in Events /\ <<Step(t)>> \in Seq(Events)
            BY Steps DEF TypeOK
        <3>4. Step(t) \in EventsOf(queue \o <<Step(t)>>)
            BY <3>3, EventsOfQueues
        <3>. QED
            BY <3>1, <3>2, <3>4, Zenon
    <2>. QED
        BY <1>1, <1>3, <2>1, <2>2
<1>6. upTo' <= upTo
        \/ (e.by = t /\ AppendStep(t) /\ upTo' = calls[t] /\ upTo = calls[t] - 1)
    BY <1>1, SettledStep DEF Settled, Recording
<1>. QED
    BY <1>4, <1>5, <1>6

(* The event is stored, queued or being flushed.                            *)
Kept(e) ==
    \/ copies[e] > 0
    \/ e \in EventsOf(queue)
    \/ \E u \in Threads : e \in EventsOf(taken[u])

LEMMA CopiesStay ==
    ASSUME TypeOK, NEW t \in Threads, Record(t) \/ CallFlush(t) \/ Progress(t)
    PROVE  \A e \in Events : copies'[e] >= copies[e]
<1>. SUFFICES ASSUME NEW e \in Events PROVE copies'[e] >= copies[e]
    OBVIOUS
<1>1. copies \in [Events -> Nat] /\ copies[e] \in Nat
    BY DEF TypeOK
<1>2. copies' = copies \/ \E q \in Seq(Events) : copies' = Stored(q)
    <2>1. CASE AppendStep(t)
        BY <2>1, Steps, Zenon DEF AppendStep
    <2>2. CASE PostBatch(t)
        <3>1. taken[t] \in Seq(Events)
            BY DEF TypeOK
        <3>. QED
            BY <2>2, <3>1, Zenon DEF PostBatch
    <2>. QED
        BY <2>1, <2>2 DEF Progress, Record, CallFlush, TestRun, NameRun, Announce,
           CreateRun, TestSize, TestEmpty, CopyBatch, ClearBatch, Requeue, server
<1>3. ASSUME NEW q \in Seq(Events), copies' = Stored(q)
      PROVE  copies'[e] >= copies[e]
    BY <1>1, <1>3, StoredCounts
<1>. QED
    BY <1>1, <1>2, <1>3

LEMMA KeptStays ==
    ASSUME TypeOK, Control, Snapshots, NEW e \in Events, Kept(e),
           NEW t \in Threads, Record(t) \/ CallFlush(t) \/ Progress(t), ~raced'
    PROVE  Kept(e)'
<1>1. CASE copies[e] > 0
    <2>1. copies[e] \in Nat /\ copies'[e] \in Nat
        BY TypeStep DEF TypeOK
    <2>. QED
        BY <1>1, <2>1, CopiesStay DEF Kept
<1>2. CASE e \in EventsOf(queue)
    <2>1. CASE UNCHANGED <<queue, raced>>
        BY <1>2, <2>1 DEF Kept
    <2>2. CASE ClearBatch(t)
        <3>1. ~raced /\ pc[t] = "clear" /\ taken' = taken
            BY <2>2, RacesStay DEF ClearBatch
        <3>2. e \in EventsOf(taken[t])
            BY <1>2, <3>1 DEF Snapshots
        <3>. QED
            BY <3>1, <3>2 DEF Kept
    <2>3. CASE \E q \in Seq(Events) : Enqueue(t, q)
        <3>1. PICK q \in Seq(Events) : queue' = queue \o q
            BY <2>3 DEF Enqueue
        <3>2. e \in EventsOf(queue \o q)
            BY <1>2, EventsOfQueues DEF TypeOK
        <3>. QED
            BY <3>1, <3>2 DEF Kept
    <2>. QED
        BY <2>1, <2>2, <2>3, QueueChanges
<1>3. CASE \E u \in Threads : e \in EventsOf(taken[u])
    <2>1. PICK u \in Threads : e \in EventsOf(taken[u])
        BY <1>3
    <2>2. CASE taken'[u] = taken[u]
        BY <2>1, <2>2 DEF Kept
    <2>3. taken[u] # <<>> /\ taken[u] \in Seq(Events)
        BY <2>1, EventsOfQueues DEF TypeOK
    <2>4. CASE u = t /\ PostBatch(t)
        <3>1. taken'[t] = taken[t] \/ copies' = Stored(taken[t])
            BY <2>4 DEF PostBatch
        <3>2. CASE copies' = Stored(taken[t])
            <4>1. copies' [e] > copies[e] /\ copies[e] \in Nat /\ copies'[e] \in Nat
                BY <2>1, <2>3, <2>4, <3>2, StoredCounts DEF TypeOK
            <4>. QED
                BY <4>1 DEF Kept
        <3>. QED
            BY <2>2, <2>4, <3>1, <3>2
    <2>5. CASE u = t /\ Requeue(t)
        <3>1. queue' = queue \o taken[t]
            BY <2>5 DEF Requeue, Enqueue
        <3>2. e \in EventsOf(queue \o taken[t])
            BY <2>1, <2>3, <2>5, EventsOfQueues DEF TypeOK
        <3>. QED
            BY <3>1, <3>2 DEF Kept
    <2>6. CASE u = t /\ CopyBatch(t)
        BY <2>3, <2>6 DEF Control, ThreadInv, CopyBatch
    <2>7. u # t \/ PostBatch(t) \/ Requeue(t) \/ CopyBatch(t) \/ taken' = taken
        BY Zenon DEF Progress, Record, CallFlush, TestRun, NameRun, Announce, CreateRun,
           AppendStep, TestSize, TestEmpty, ClearBatch
    <2>. QED
        BY <2>2, <2>4, <2>5, <2>6, <2>7, Undisturbed
<1>. QED
    BY <1>1, <1>2, <1>3 DEF Kept

LEMMA LossStep ==
    ASSUME TypeOK, Control, Snapshots, LossNeedsRace,
           NEW t \in Threads, Record(t) \/ CallFlush(t) \/ Progress(t)
    PROVE  LossNeedsRace'
<1>. SUFFICES ASSUME batched', ~raced', NEW e \in Events, e \in Recorded' PROVE Kept(e)'
    BY DEF LossNeedsRace, Kept, Recorded
<1>1. batched /\ ~raced
    BY Undisturbed, RacesStay
<1>2. CASE e \in Recorded
    <2>1. Kept(e)
        BY <1>1, <1>2 DEF LossNeedsRace, Kept
    <2>. QED
        BY <2>1, KeptStays
<1>3. CASE e \in EventsOf(queue')
    BY <1>3 DEF Kept, EventsOf
<1>. QED
    BY <1>1, <1>2, <1>3, NewlyRecorded

(***************************************************************************)
(* Runs.                                                                   *)
(***************************************************************************)

LEMMA MakingIsFinite ==
    /\ Cardinality(Threads) \in Nat
    /\ IsFiniteSet(Making) /\ Cardinality(Making) \in Nat
    /\ Cardinality(Making) <= Cardinality(Threads)
<1>1. Making \subseteq Threads
    BY DEF Making
<1>. QED
    BY <1>1, FS_Subset, FS_CardinalityType

LEMMA RunsMadeStep ==
    ASSUME TypeOK, RunsMade, NEW t \in Threads, Record(t) \/ CallFlush(t) \/ Progress(t)
    PROVE  RunsMade'
<1>1. /\ made \in Nat /\ failures \in Nat /\ made' \in Nat /\ failures' \in Nat
      /\ failures' >= failures
    BY TypeStep, Undisturbed DEF TypeOK
<1>2. /\ Cardinality(Threads) \in Nat
      /\ Cardinality(Making) \in Nat /\ Cardinality(Making') \in Nat
      /\ Cardinality(Making') <= Cardinality(Threads)
    <2>1. Making' \subseteq Threads
        BY DEF Making
    <2>. QED
        BY <2>1, MakingIsFinite, FS_Subset, FS_CardinalityType
<1>3. CASE /\ Making' \subseteq Making /\ made' = made
           /\ runId' = NoRun => runId = NoRun
    <2>1. Cardinality(Making') <= Cardinality(Making)
        BY <1>3, MakingIsFinite, FS_Subset
    <2>. QED
        BY <1>1, <1>2, <1>3, <2>1 DEF RunsMade
<1>4. CASE TestRun(t)
    <2>1. made' = made /\ runId' = runId /\ failures' = failures
        BY <1>4 DEF TestRun, server
    <2>2. CASE runId = NoRun
        BY <1>1, <1>2, <2>1, <2>2 DEF RunsMade
    <2>3. CASE runId # NoRun
        <3>1. Making' \subseteq Making
            BY <1>4, <2>3 DEF TypeOK, TestRun, Making, Goto
        <3>. QED
            BY <1>3, <2>1, <3>1
    <2>. QED
        BY <2>2, <2>3
<1>5. CASE NameRun(t) \/ CreateRun(t)
    <2>1. t \in Making /\ Making' = Making \ {t}
        BY <1>5 DEF TypeOK, NameRun, CreateRun, Making, Goto
    <2>2. Cardinality(Making') = Cardinality(Making) - 1
        BY <2>1, MakingIsFinite, FS_RemoveElement
    <2>3. \/ made' = made + 1 /\ runId' # NoRun /\ failures' = failures
          \/ made' \in {made, made + 1} /\ runId' = runId /\ failures' = failures + 1
        BY <1>1, <1>5 DEF NameRun, CreateRun
    <2>. QED
        BY <1>1, <1>2, <2>2, <2>3 DEF RunsMade
<1>6. CASE Record(t) \/ CallFlush(t) \/ Announce(t) \/ AppendStep(t) \/ TestSize(t)
           \/ TestEmpty(t) \/ CopyBatch(t) \/ ClearBatch(t) \/ PostBatch(t) \/ Requeue(t)
    <2>1. pc'[t] \notin {"name", "create"}
        BY <1>6 DEF TypeOK, Record, CallFlush, Announce, AppendStep, TestSize, TestEmpty,
           CopyBatch, ClearBatch, PostBatch, Requeue, Goto
    <2>2. Making' \subseteq Making
        BY <2>1, Undisturbed DEF Making
    <2>3. made' = made /\ runId' = runId
        BY <1>6 DEF Record, CallFlush, Announce, AppendStep, TestSize, TestEmpty,
           CopyBatch, ClearBatch, PostBatch, Requeue, server
    <2>. QED
        BY <1>3, <2>2, <2>3
<1>. QED
    BY <1>4, <1>5, <1>6 DEF Progress

(***************************************************************************)
(* Copies.                                                                 *)
(***************************************************************************)

LEMMA UnissuedBefore ==
    ASSUME TypeOK, Control, NEW t \in Threads, Record(t) \/ CallFlush(t) \/ Progress(t),
           NEW e \in Events, Unissued(e)'
    PROVE  Unissued(e)
<1>1. e.by \in Threads /\ e.n \in Nat
    BY DEF Events
<1>2. CASE e.by # t
    <2>1. /\ pc'[e.by] = pc[e.by] /\ after'[e.by] = after[e.by]
          /\ calls'[e.by] = calls[e.by] /\ (runId' = NoRun => runId = NoRun)
        BY <1>1, <1>2, Undisturbed
    <2>. QED
        BY <2>1 DEF Unissued, Recording
<1>3. ASSUME calls'[t] = calls[t], Recording(t)' => Recording(t),
             pc'[t] \in {"name", "announce"} =>
                 pc[t] \in {"name", "announce"} \/ runId = NoRun,
             e.by = t
      PROVE  Unissued(e)
    <2>1. runId' = NoRun => runId = NoRun
        BY Undisturbed
    <2>. QED
        BY <1>3, <2>1 DEF Unissued, Recording
<1>4. CASE Record(t)
    <2>1. calls' = [calls EXCEPT ![t] = calls[t] + 1] /\ calls[t] \in Nat /\ runId' = runId
          /\ pc'[t] = "run"
        BY <1>4 DEF TypeOK, Record, Goto
    <2>. QED
        BY <1>1, <1>2, <2>1 DEF TypeOK, Unissued
<1>5. CASE TestRun(t)
    BY <1>2, <1>3, <1>5 DEF TypeOK, TestRun, Goto, Recording, host
<1>6. CASE CallFlush(t) \/ NameRun(t) \/ Announce(t) \/ CreateRun(t) \/ AppendStep(t)
           \/ TestSize(t) \/ TestEmpty(t) \/ CopyBatch(t) \/ ClearBatch(t) \/ PostBatch(t)
           \/ Requeue(t)
    <2>1. calls'[t] = calls[t]
        BY <1>6 DEF CallFlush, NameRun, Announce, CreateRun, AppendStep, TestSize,
           TestEmpty, CopyBatch, ClearBatch, PostBatch, Requeue, host
    <2>2. Recording(t)' => Recording(t)
        BY <1>6 DEF TypeOK, Control, ThreadInv, CallFlush, NameRun, Announce, CreateRun,
           AppendStep, TestSize, TestEmpty, CopyBatch, ClearBatch, PostBatch, Requeue,
           Recording, Goto
    <2>3. pc'[t] \in {"name", "announce"} => pc[t] \in {"name", "announce"}
        BY <1>6 DEF TypeOK, CallFlush, NameRun, Announce, CreateRun, AppendStep, TestSize,
           TestEmpty, CopyBatch, ClearBatch, PostBatch, Requeue, Goto
    <2>. QED
        BY <1>2, <1>3, <2>1, <2>2, <2>3
<1>. QED
    BY <1>4, <1>5, <1>6 DEF Progress

(* The kinds of steps, as far as copies go.                                 *)
Quiet(t) ==
    /\ UNCHANGED <<queue, taken, copies, overlapped>>
    /\ pc[t] # "clear"

Queues(t, e) ==
    /\ Unissued(e) /\ ~Unissued(e)'
    /\ batched
    /\ queue' = queue \o <<e>>
    /\ UNCHANGED <<taken, copies, overlapped>>
    /\ pc[t] # "clear"

Posts(e) ==
    /\ Unissued(e) /\ ~Unissued(e)'
    /\ ~batched
    /\ copies' = Stored(<<e>>)
    /\ UNCHANGED <<queue, taken, overlapped>>

Stores(t) ==
    /\ pc[t] = "post"
    /\ copies' = Stored(taken[t])
    /\ taken' = [taken EXCEPT ![t] = <<>>]
    /\ UNCHANGED <<queue, overlapped>>

(* The batch is stored although its post raises. *)
StoresUnanswered(t) ==
    /\ pc[t] = "post"
    /\ failures' = failures + 1
    /\ copies' = Stored(taken[t])
    /\ UNCHANGED <<queue, taken, overlapped>>

LEMMA KindsOfSteps ==
    ASSUME TypeOK, Control, NEW t \in Threads, Record(t) \/ CallFlush(t) \/ Progress(t)
    PROVE  \/ Quiet(t)
           \/ \E e \in Events : Queues(t, e) \/ Posts(e)
           \/ CopyBatch(t)
           \/ ClearBatch(t)
           \/ Stores(t)
           \/ StoresUnanswered(t)
           \/ Requeue(t)
<1>1. CASE Record(t) \/ CallFlush(t) \/ TestRun(t) \/ NameRun(t) \/ CreateRun(t)
           \/ TestSize(t) \/ TestEmpty(t)
    BY <1>1 DEF TypeOK, Record, CallFlush, TestRun, NameRun, CreateRun, TestSize, TestEmpty,
       Quiet, server, races
<1>2. CASE Announce(t)
    <2>. DEFINE e == [by |-> t, n |-> 0]
    <2>1. e \in Events
        BY Steps
    <2>2. Unissued(e)
        BY <1>2 DEF Announce, Unissued
    <2>3. ~Unissued(e)'
        BY <1>2 DEF TypeOK, Control, ThreadInv, Announce, Unissued, Goto, host
    <2>4. Queues(t, e)
        BY <1>2, <2>2, <2>3 DEF Control, ThreadInv, Announce, Enqueue, Queues, server
    <2>. QED
        BY <2>1, <2>4
<1>3. CASE AppendStep(t)
    <2>1. Step(t) \in Events
        BY Steps
    <2>2. Unissued(Step(t))
        BY <1>3 DEF Control, ThreadInv, AppendStep, Unissued, Step, Recording
    <2>3. ~Unissued(Step(t))'
        BY <1>3 DEF TypeOK, Control, ThreadInv, AppendStep, Unissued, Step, Recording, Goto, host
    <2>4. Queues(t, Step(t)) \/ Posts(Step(t)) \/ Quiet(t)
        BY <1>3, <2>2, <2>3 DEF TypeOK, AppendStep, Enqueue, Queues, Posts, Quiet
    <2>. QED
        BY <2>1, <2>4
<1>4. CASE PostBatch(t)
    BY <1>4 DEF TypeOK, PostBatch, Quiet, Stores, StoresUnanswered, races
<1>. QED
    BY <1>1, <1>2, <1>3, <1>4 DEF Progress

(* A step moves the events of the queue and of the batches under way, and   *)
(* stores each at most once, or is the one that issues an event.            *)
LEMMA UnissuedStep ==
    ASSUME TypeOK, Control, UnissuedNowhere,
           NEW t \in Threads, Record(t) \/ CallFlush(t) \/ Progress(t)
    PROVE  UnissuedNowhere'
<1>. SUFFICES ASSUME NEW d \in Events, Unissued(d)'
              PROVE  copies'[d] = 0 /\ d \notin EventsOf(queue') /\ Holders(d)' = {}
    BY DEF UnissuedNowhere, EventsOf
<1>1. Unissued(d)
    BY UnissuedBefore
<1>2. copies[d] = 0 /\ d \notin EventsOf(queue) /\ Holders(d) = {}
    BY <1>1 DEF UnissuedNowhere
<1>3. ASSUME NEW u \in Threads PROVE d \notin EventsOf(taken[u]) /\ taken[u] \in Seq(Events)
    BY <1>2 DEF Holders, TypeOK
<1>4. /\ copies \in [Events -> Nat] /\ queue \in Seq(Events)
      /\ taken \in [Threads -> Seq(Events)]
    BY DEF TypeOK
<1>5. \A u \in Threads : d \notin EventsOf(taken'[u])
    <2>1. taken'[t] = taken[t] \/ taken'[t] = <<>> \/ taken'[t] = queue
        BY <1>4, KindsOfSteps DEF Quiet, Queues, Posts, Stores, StoresUnanswered,
           CopyBatch, ClearBatch, Requeue, server
    <2>. QED
        BY <1>2, <1>3, <2>1, Undisturbed, EventsOfQueues
<1>6. d \notin EventsOf(queue')
    <2>1. ASSUME NEW e \in Events, Queues(t, e) PROVE d \notin EventsOf(queue \o <<e>>)
        <3>1. d # e /\ <<e>> \in Seq(Events) /\ EventsOf(<<e>>) = {e}
            BY <2>1, EventsOfQueues DEF Queues
        <3>. QED
            BY <1>2, <1>4, <3>1, EventsOfQueues
    <2>2. d \notin EventsOf(queue \o taken[t])
        BY <1>2, <1>3, <1>4, EventsOfQueues
    <2>3. \/ queue' = queue \/ queue' = <<>> \/ queue' = queue \o taken[t]
          \/ \E e \in Events : Queues(t, e)
        BY KindsOfSteps DEF Quiet, Posts, Stores, StoresUnanswered, CopyBatch, ClearBatch,
           Requeue, Enqueue
    <2>. QED
        BY <1>2, <2>1, <2>2, <2>3, EventsOfQueues DEF Queues
<1>7. copies'[d] = 0
    <2>1. ASSUME NEW e \in Events, Posts(e) PROVE Stored(<<e>>)[d] = 0
        <3>1. d # e /\ <<e>> \in Seq(Events) /\ EventsOf(<<e>>) = {e}
            BY <2>1, EventsOfQueues DEF Posts
        <3>. QED
            BY <1>2, <1>4, <3>1, StoredCounts
    <2>2. Stored(taken[t])[d] = 0
        BY <1>2, <1>3, <1>4, StoredCounts
    <2>3. \/ copies' = copies \/ copies' = Stored(taken[t])
          \/ \E e \in Events : Posts(e)
        BY KindsOfSteps DEF Quiet, Queues, Stores, StoresUnanswered, CopyBatch, ClearBatch,
           Requeue, server
    <2>. QED
        BY <1>2, <2>1, <2>2, <2>3 DEF Posts
<1>. QED
    BY <1>5, <1>6, <1>7 DEF Holders

LEMMA HoldersAreFinite ==
    ASSUME NEW e
    PROVE  /\ IsFiniteSet(Holders(e)) /\ Cardinality(Holders(e)) \in Nat
           /\ Cardinality(Holders(e)) <= Cardinality(Threads)
<1>1. Holders(e) \subseteq Threads
    BY DEF Holders
<1>. QED
    BY <1>1, FS_Subset, FS_CardinalityType

(* How each kind of step moves and stores events.                           *)

LEMMA QuietChanges ==
    ASSUME TypeOK, NEW t \in Threads, Record(t) \/ CallFlush(t) \/ Progress(t), Quiet(t)
    PROVE  /\ UNCHANGED <<queue, taken, copies, overlapped>>
           /\ \A d : Holders(d)' = Holders(d)
           /\ \A u \in Threads : pc[u] = "clear" => pc'[u] = "clear"
BY Undisturbed DEF Quiet, Holders

LEMMA QueuesChanges ==
    ASSUME TypeOK, UnissuedNowhere, NEW t \in Threads, NEW e \in Events,
           Record(t) \/ CallFlush(t) \/ Progress(t), Queues(t, e)
    PROVE  /\ UNCHANGED <<taken, copies, overlapped>>
           /\ EventsOf(queue') = EventsOf(queue) \cup {e}
           /\ Once(queue) => Once(queue')
           /\ copies[e] = 0 /\ Holders(e) = {}
           /\ \A d : Holders(d)' = Holders(d)
           /\ \A u \in Threads : pc[u] = "clear" => pc'[u] = "clear"
<1>1. copies[e] = 0 /\ e \notin EventsOf(queue) /\ Holders(e) = {}
    BY DEF Queues, UnissuedNowhere
<1>2. queue' = queue \o <<e>> /\ queue \in Seq(Events)
    BY DEF Queues, TypeOK
<1>3. EventsOf(queue \o <<e>>) = EventsOf(queue) \cup {e}
    <2>1. <<e>> \in Seq(Events) /\ EventsOf(<<e>>) = {e}
        BY EventsOfQueues
    <2>. QED
        BY <1>2, <2>1, EventsOfQueues
<1>4. Once(queue) => Once(queue \o <<e>>)
    BY <1>1, <1>2, OnceMore
<1>5. \A u \in Threads : pc[u] = "clear" => pc'[u] = "clear"
    BY Undisturbed DEF Queues
<1>6. UNCHANGED <<taken, copies, overlapped>> /\ \A d : Holders(d)' = Holders(d)
    BY DEF Queues, Holders
<1>. QED
    BY <1>1, <1>2, <1>3, <1>4, <1>5, <1>6

LEMMA PostsChanges ==
    ASSUME TypeOK, Control, UnissuedNowhere, NEW t \in Threads, NEW e \in Events,
           Record(t) \/ CallFlush(t) \/ Progress(t), Posts(e)
    PROVE  /\ UNCHANGED <<queue, taken, overlapped>>
           /\ queue = <<>> /\ EventsOf(queue) = {}
           /\ copies'[e] = 1
           /\ \A d \in Events \ {e} : copies'[d] = copies[d]
           /\ \A d : Holders(d) = {} /\ Holders(d)' = {}
<1>1. UNCHANGED <<queue, taken, overlapped>> /\ ~batched
    BY DEF Posts
<1>2. queue = <<>> /\ \A u \in Threads : taken[u] = <<>>
    BY <1>1 DEF Control
<1>3. EventsOf(queue) = {} /\ \A d : Holders(d) = {}
    BY <1>2, EventsOfQueues DEF Holders
<1>4. copies'[e] = 1 /\ \A d \in Events \ {e} : copies'[d] = copies[d]
    <2>1. copies \in [Events -> Nat] /\ <<e>> \in Seq(Events) /\ Once(<<e>>)
        BY DEF TypeOK, Once
    <2>2. EventsOf(<<e>>) = {e}
        BY EventsOfQueues
    <2>3. /\ Stored(<<e>>)[e] = copies[e] + 1
          /\ \A d \in Events \ {e} : Stored(<<e>>)[d] = copies[d]
        BY <2>1, <2>2, StoredCounts
    <2>4. copies' = Stored(<<e>>) /\ copies[e] = 0
        BY DEF Posts, UnissuedNowhere
    <2>. QED
        BY <2>3, <2>4
<1>5. \A d : Holders(d)' = Holders(d)
    BY <1>1 DEF Holders
<1>. QED
    BY <1>1, <1>2, <1>3, <1>4, <1>5

LEMMA CopyChanges ==
    ASSUME TypeOK, Control, NEW t \in Threads,
           Record(t) \/ CallFlush(t) \/ Progress(t), CopyBatch(t)
    PROVE  /\ UNCHANGED <<queue, copies>>
           /\ taken'[t] = queue /\ \A u \in Threads \ {t} : taken'[u] = taken[u]
           /\ overlapped' = (overlapped \/ Clearing(t))
           /\ \A d : /\ t \notin Holders(d)
                     /\ Holders(d)' = IF d \in EventsOf(queue) THEN Holders(d) \cup {t}
                                      ELSE Holders(d)
           /\ \A u \in Threads : u = t \/ pc[u] = "clear" => pc'[u] = "clear"
<1>1. UNCHANGED <<queue, copies>> /\ overlapped' = (overlapped \/ Clearing(t))
    BY DEF CopyBatch, server
<1>2. /\ taken[t] = <<>> /\ taken'[t] = queue /\ pc'[t] = "clear"
      /\ \A u \in Threads \ {t} : taken'[u] = taken[u] /\ pc'[u] = pc[u]
    BY DEF TypeOK, Control, ThreadInv, CopyBatch, Goto
<1>3. ASSUME NEW d
      PROVE  /\ t \notin Holders(d)
             /\ Holders(d)' = IF d \in EventsOf(queue) THEN Holders(d) \cup {t} ELSE Holders(d)
    BY <1>2, EventsOfQueues DEF Holders
<1>. QED
    BY <1>1, <1>2, <1>3

LEMMA ClearChanges ==
    ASSUME NEW t \in Threads, ClearBatch(t)
    PROVE  /\ UNCHANGED <<taken, copies, overlapped>>
           /\ queue' = <<>> /\ EventsOf(queue') = {}
           /\ \A d : Holders(d)' = Holders(d)
<1>1. UNCHANGED <<taken, copies, overlapped>> /\ queue' = <<>>
    BY DEF ClearBatch, server, races
<1>. QED
    BY <1>1, EventsOfQueues DEF Holders

(* A batch without copies adds a row of each of its events.                 *)
LEMMA StoreCopies ==
    ASSUME TypeOK, NEW t \in Threads, Once(taken[t]), copies' = Stored(taken[t]),
           NEW d \in Events
    PROVE  /\ copies[d] \in Nat
           /\ t \in Holders(d) => copies'[d] = copies[d] + 1
           /\ t \notin Holders(d) => copies'[d] = copies[d]
<1>1. copies \in [Events -> Nat] /\ taken[t] \in Seq(Events)
    BY DEF TypeOK
<1>2. t \in Holders(d) <=> d \in EventsOf(taken[t])
    BY DEF Holders
<1>3. /\ d \in EventsOf(taken[t]) => Stored(taken[t])[d] = copies[d] + 1
      /\ d \notin EventsOf(taken[t]) => Stored(taken[t])[d] = copies[d]
    BY <1>1, StoredCounts
<1>. QED
    BY <1>1, <1>2, <1>3

(* A stored or requeued batch is no longer held.                            *)
LEMMA Relinquished ==
    ASSUME TypeOK, NEW t \in Threads, taken' = [taken EXCEPT ![t] = <<>>]
    PROVE  /\ taken'[t] = <<>> /\ \A u \in Threads \ {t} : taken'[u] = taken[u]
           /\ \A d : Holders(d)' = Holders(d) \ {t}
<1>1. taken'[t] = <<>> /\ \A u \in Threads \ {t} : taken'[u] = taken[u]
    BY DEF TypeOK
<1>. QED
    BY <1>1, EventsOfQueues DEF Holders

(***************************************************************************)
(* Copies without a failure.                                               *)
(***************************************************************************)

LEMMA QuietCopies ==
    ASSUME TypeOK, Copying, failures = 0, NEW t \in Threads,
           Record(t) \/ CallFlush(t) \/ Progress(t), Quiet(t)
    PROVE  (QueuedIsNew /\ QueuedOnce /\ CopiesBounded)'
<1>1. QueuedIsNew' /\ CopiesBounded'
    BY QuietChanges DEF Copying, QueuedIsNew, CopiesBounded, Holders
<1>2. QueuedOnce'
    BY QuietChanges DEF Copying, QueuedOnce
<1>. QED
    BY <1>1, <1>2

LEMMA QueuedCopies ==
    ASSUME TypeOK, UnissuedNowhere, Copying, failures = 0, NEW t \in Threads,
           Record(t) \/ CallFlush(t) \/ Progress(t), NEW e \in Events, Queues(t, e)
    PROVE  (QueuedIsNew /\ QueuedOnce /\ CopiesBounded)'
<1>. USE DEF Copying
<1>1. QueuedIsNew'
    <2>1. ASSUME NEW d \in EventsOf(queue')
          PROVE  copies'[d] = 0 /\ \A u \in Holders(d)' : pc'[u] = "clear"
        <3>1. copies[d] = 0 /\ \A u \in Holders(d) : pc[u] = "clear"
            BY <2>1, QueuesChanges DEF QueuedIsNew
        <3>. QED
            BY <3>1, QueuesChanges DEF Holders
    <2>. QED
        BY <2>1 DEF QueuedIsNew, EventsOf
<1>2. QueuedOnce'
    BY QueuesChanges DEF QueuedOnce
<1>3. CopiesBounded'
    BY QueuesChanges DEF CopiesBounded
<1>. QED
    BY <1>1, <1>2, <1>3

LEMMA PostedCopies ==
    ASSUME TypeOK, Control, UnissuedNowhere, Copying, failures = 0, NEW t \in Threads,
           Record(t) \/ CallFlush(t) \/ Progress(t), NEW e \in Events, Posts(e)
    PROVE  (QueuedIsNew /\ QueuedOnce /\ CopiesBounded)'
<1>. USE DEF Copying
<1>1. QueuedIsNew'
    BY PostsChanges DEF QueuedIsNew, EventsOf
<1>2. QueuedOnce'
    BY PostsChanges DEF QueuedOnce
<1>3. CopiesBounded'
    <2>. SUFFICES ASSUME NEW d \in Events
                  PROVE  copies'[d] + Cardinality(Holders(d)') <= Cardinality(Threads)
        BY DEF CopiesBounded, Holders, EventsOf
    <2>1. Cardinality(Threads) \in Nat /\ Cardinality(Threads) >= 1
        BY FS_CardinalityType, FS_EmptySet
    <2>2. Holders(d)' = {} /\ Holders(d) = {} /\ Cardinality(Holders(d)) = 0
        BY PostsChanges, FS_EmptySet
    <2>3. CASE d = e
        BY <2>1, <2>2, <2>3, PostsChanges
    <2>4. CASE d # e
        BY <2>2, <2>4, PostsChanges DEF CopiesBounded
    <2>. QED
        BY <2>3, <2>4
<1>. QED
    BY <1>1, <1>2, <1>3

LEMMA CopiedCopies ==
    ASSUME TypeOK, Control, Copying, failures = 0, NEW t \in Threads,
           Record(t) \/ CallFlush(t) \/ Progress(t), CopyBatch(t)
    PROVE  (QueuedIsNew /\ QueuedOnce /\ CopiesBounded)'
<1>. USE DEF Copying
<1>1. QueuedIsNew'
    <2>1. ASSUME NEW d \in EventsOf(queue'), NEW u \in Holders(d)'
          PROVE  pc'[u] = "clear"
        <3>1. d \in EventsOf(queue) /\ u \in Holders(d) \cup {t} /\ u \in Threads
            BY <2>1, CopyChanges DEF Holders
        <3>. QED
            BY <3>1, CopyChanges DEF QueuedIsNew
    <2>. QED
        BY <2>1, CopyChanges DEF QueuedIsNew, EventsOf, Holders
<1>2. QueuedOnce'
    BY CopyChanges DEF QueuedOnce
<1>3. CopiesBounded'
    <2>. SUFFICES ASSUME NEW d \in Events
                  PROVE  copies'[d] + Cardinality(Holders(d)') <= Cardinality(Threads)
        BY DEF CopiesBounded, Holders, EventsOf
    <2>1. CASE d \notin EventsOf(queue)
        BY <2>1, CopyChanges DEF CopiesBounded
    <2>2. CASE d \in EventsOf(queue)
        <3>1. copies'[d] = 0 /\ Holders(d)' \subseteq Threads
            BY <2>2, CopyChanges DEF QueuedIsNew, Holders
        <3>2. Cardinality(Holders(d)') <= Cardinality(Threads)
              /\ Cardinality(Holders(d)') \in Nat
            BY <3>1, FS_Subset, FS_CardinalityType
        <3>. QED
            BY <3>1, <3>2
    <2>. QED
        BY <2>1, <2>2
<1>. QED
    BY <1>1, <1>2, <1>3

LEMMA ClearedCopies ==
    ASSUME TypeOK, Copying, failures = 0, NEW t \in Threads, ClearBatch(t)
    PROVE  (QueuedIsNew /\ QueuedOnce /\ CopiesBounded)'
<1>. USE DEF Copying
<1>1. QueuedIsNew'
    BY ClearChanges DEF QueuedIsNew, EventsOf
<1>2. QueuedOnce'
    BY ClearChanges DEF QueuedOnce, Once
<1>3. CopiesBounded'
    BY ClearChanges DEF CopiesBounded
<1>. QED
    BY <1>1, <1>2, <1>3

LEMMA StoredCopies ==
    ASSUME TypeOK, Copying, failures = 0, NEW t \in Threads,
           Record(t) \/ CallFlush(t) \/ Progress(t), Stores(t)
    PROVE  (QueuedIsNew /\ QueuedOnce /\ CopiesBounded)'
<1>. USE DEF Copying
<1>1. /\ queue' = queue /\ \A d : Holders(d)' = Holders(d) \ {t}
      /\ taken'[t] = <<>> /\ \A u \in Threads \ {t} : taken'[u] = taken[u]
    BY Relinquished DEF Stores
<1>2. ASSUME NEW d \in Events
      PROVE  /\ copies[d] \in Nat
             /\ t \in Holders(d) => copies'[d] = copies[d] + 1
             /\ t \notin Holders(d) => copies'[d] = copies[d]
    BY StoreCopies DEF Stores, QueuedOnce
<1>3. QueuedIsNew'
    <2>1. ASSUME NEW d \in EventsOf(queue')
          PROVE  copies'[d] = 0 /\ \A u \in Holders(d)' : pc'[u] = "clear"
        <3>1. d \in Events /\ d \in EventsOf(queue)
            BY <1>1, <2>1, EventsOfQueues DEF TypeOK
        <3>2. copies[d] = 0 /\ \A u \in Holders(d) : pc[u] = "clear"
            BY <3>1 DEF QueuedIsNew
        <3>3. t \notin Holders(d)
            BY <3>2 DEF Stores
        <3>4. \A u \in Holders(d) : u \in Threads \ {t}
            BY <3>3 DEF Holders
        <3>. QED
            BY <1>1, <1>2, <3>1, <3>2, <3>3, <3>4, Undisturbed
    <2>. QED
        BY <2>1 DEF QueuedIsNew, EventsOf, Holders
<1>4. QueuedOnce'
    BY <1>1 DEF QueuedOnce, Once
<1>5. CopiesBounded'
    <2>. SUFFICES ASSUME NEW d \in Events
                  PROVE  copies'[d] + Cardinality(Holders(d)') <= Cardinality(Threads)
        BY DEF CopiesBounded, Holders, EventsOf
    <2>1. IsFiniteSet(Holders(d)) /\ Cardinality(Holders(d)) \in Nat
        BY HoldersAreFinite
    <2>2. copies[d] + Cardinality(Holders(d)) <= Cardinality(Threads)
        BY DEF CopiesBounded
    <2>3. CASE t \in Holders(d)
        <3>1. Cardinality(Holders(d)') = Cardinality(Holders(d)) - 1
            BY <1>1, <2>1, <2>3, FS_RemoveElement
        <3>. QED
            BY <1>2, <2>1, <2>2, <2>3, <3>1
    <2>4. CASE t \notin Holders(d)
        BY <1>1, <1>2, <2>2, <2>4
    <2>. QED
        BY <2>3, <2>4
<1>. QED
    BY <1>3, <1>4, <1>5

LEMMA CopyingStep ==
    ASSUME TypeOK, Control, UnissuedNowhere, Copying,
           NEW t \in Threads, Record(t) \/ CallFlush(t) \/ Progress(t)
    PROVE  Copying'
<1>. SUFFICES ASSUME failures' = 0
              PROVE  (QueuedIsNew /\ QueuedOnce /\ CopiesBounded)'
    BY DEF Copying
<1>1. failures = 0
    BY Undisturbed DEF TypeOK
<1>2. ~StoresUnanswered(t)
    BY <1>1 DEF StoresUnanswered
<1>3. ~Requeue(t)
    BY <1>1 DEF Requeue, Control, ThreadInv
<1>. QED
    BY <1>1, <1>2, <1>3, KindsOfSteps, QuietCopies, QueuedCopies, PostedCopies,
       CopiedCopies, ClearedCopies, StoredCopies

(***************************************************************************)
(* Copies without an overlap.                                              *)
(***************************************************************************)

LEMMA ApartStep ==
    ASSUME TypeOK, Control, UnissuedNowhere, Apart,
           NEW t \in Threads, Record(t) \/ CallFlush(t) \/ Progress(t)
    PROVE  Apart'
<1>. DEFINE Goal == QueuedOnce' /\ \A e \in Events : InOnePlace(e)'
<1>. SUFFICES ASSUME ~overlapped' PROVE Goal
    BY DEF Apart
<1>1. failures \in Nat /\ failures' \in Nat /\ failures' >= failures
    BY TypeStep, Undisturbed DEF TypeOK
<1>2. \A d \in Events : copies[d] \in Nat
    BY DEF TypeOK
<1>3. ~overlapped
    BY KindsOfSteps DEF Quiet, Queues, Posts, CopyBatch, ClearBatch, Stores,
       StoresUnanswered, Requeue, races
<1>4. QueuedOnce /\ \A e \in Events : InOnePlace(e)
    BY <1>3 DEF Apart
<1>5. CASE Quiet(t)
    <2>1. QueuedOnce'
        BY <1>4, <1>5, QuietChanges DEF QueuedOnce
    <2>2. ASSUME NEW d \in Events PROVE InOnePlace(d)'
        <3>1. Holders(d)' = Holders(d) /\ Holders(d) \subseteq Threads
            BY <1>5, QuietChanges DEF Holders
        <3>. QED
            BY <1>1, <1>2, <1>4, <1>5, <3>1, QuietChanges DEF InOnePlace
    <2>. QED
        BY <2>1, <2>2
<1>6. ASSUME NEW e \in Events, Queues(t, e) PROVE Goal
    <2>1. QueuedOnce'
        BY <1>4, <1>6, QueuesChanges DEF QueuedOnce
    <2>2. ASSUME NEW d \in Events PROVE InOnePlace(d)'
        <3>1. Holders(d)' = Holders(d) /\ Holders(d) \subseteq Threads
            BY <1>6, QueuesChanges DEF Holders
        <3>. QED
            BY <1>1, <1>2, <1>4, <1>6, <3>1, QueuesChanges DEF InOnePlace
    <2>. QED
        BY <2>1, <2>2
<1>7. ASSUME NEW e \in Events, Posts(e) PROVE Goal
    <2>1. QueuedOnce'
        BY <1>4, <1>7, PostsChanges DEF QueuedOnce
    <2>2. ASSUME NEW d \in Events PROVE InOnePlace(d)'
        <3>1. Holders(d)' = {} /\ EventsOf(queue') = {}
            BY <1>7, PostsChanges
        <3>2. copies'[d] = 1 \/ copies'[d] = copies[d]
            BY <1>7, PostsChanges
        <3>3. copies[d] <= 1 + failures
            BY <1>4 DEF InOnePlace
        <3>. QED
            BY <1>1, <1>2, <3>1, <3>2, <3>3 DEF InOnePlace
    <2>. QED
        BY <2>1, <2>2
<1>8. CASE CopyBatch(t)
    <2>1. QueuedOnce'
        BY <1>4, <1>8, CopyChanges DEF QueuedOnce
    <2>2. \A u \in Threads \ {t} : pc[u] # "clear"
        BY <1>8, CopyChanges DEF Clearing
    <2>3. ASSUME NEW d \in Events PROVE InOnePlace(d)'
        <3>1. CASE d \in EventsOf(queue)
            <4>1. Holders(d) = {}
                BY <1>4, <1>8, <2>2, <3>1, CopyChanges DEF InOnePlace, Holders
            <4>2. Holders(d)' = {t} /\ pc'[t] = "clear"
                BY <1>8, <3>1, <4>1, CopyChanges
            <4>3. copies'[d] <= failures
                BY <1>4, <1>8, <3>1, CopyChanges DEF InOnePlace
            <4>. QED
                BY <1>1, <1>2, <1>8, <4>2, <4>3, CopyChanges DEF InOnePlace
        <3>2. CASE d \notin EventsOf(queue)
            <4>1. Holders(d)' = Holders(d) /\ EventsOf(queue') = EventsOf(queue)
                  /\ copies' = copies
                BY <1>8, <3>2, CopyChanges
            <4>. QED
                BY <1>1, <1>2, <1>4, <3>2, <4>1 DEF InOnePlace
        <3>. QED
            BY <3>1, <3>2
    <2>. QED
        BY <2>1, <2>3
<1>9. CASE ClearBatch(t)
    <2>1. QueuedOnce'
        BY <1>4, <1>9, ClearChanges DEF QueuedOnce, Once
    <2>2. ASSUME NEW d \in Events PROVE InOnePlace(d)'
        BY <1>1, <1>2, <1>4, <1>9, ClearChanges DEF InOnePlace
    <2>. QED
        BY <2>1, <2>2
<1>10. CASE Stores(t)
    <2>1. /\ queue' = queue /\ \A d : Holders(d)' = Holders(d) \ {t}
          /\ taken'[t] = <<>> /\ \A u \in Threads \ {t} : taken'[u] = taken[u]
        BY <1>10, Relinquished DEF Stores
    <2>2. QueuedOnce'
        BY <1>4, <2>1 DEF QueuedOnce, Once
    <2>3. ASSUME NEW d \in Events PROVE InOnePlace(d)'
        <3>1. /\ t \in Holders(d) => copies'[d] = copies[d] + 1
              /\ t \notin Holders(d) => copies'[d] = copies[d]
            BY <1>4, <1>10, StoreCopies DEF Stores, QueuedOnce
        <3>2. CASE t \in Holders(d)
            <4>1. Holders(d)' = {} /\ d \notin EventsOf(queue') /\ copies[d] <= failures
                BY <1>4, <1>10, <2>1, <3>2 DEF InOnePlace, Stores
            <4>. QED
                BY <1>1, <1>2, <3>1, <3>2, <4>1 DEF InOnePlace
        <3>3. CASE t \notin Holders(d)
            <4>1. /\ Holders(d)' = Holders(d) /\ EventsOf(queue') = EventsOf(queue)
                  /\ copies'[d] = copies[d]
                BY <2>1, <3>1, <3>3
            <4>2. \A u \in Holders(d) : pc'[u] = pc[u]
                BY <3>3, Undisturbed DEF Holders
            <4>. QED
                BY <1>1, <1>2, <1>4, <4>1, <4>2 DEF InOnePlace
        <3>. QED
            BY <3>2, <3>3
    <2>. QED
        BY <2>2, <2>3
<1>11. CASE StoresUnanswered(t)
    <2>1. /\ queue' = queue /\ taken' = taken /\ failures' = failures + 1
          /\ \A d : Holders(d)' = Holders(d)
        BY <1>11 DEF StoresUnanswered, Holders
    <2>2. QueuedOnce'
        BY <1>4, <2>1 DEF QueuedOnce
    <2>3. ASSUME NEW d \in Events PROVE InOnePlace(d)'
        <3>1. /\ t \in Holders(d) => copies'[d] = copies[d] + 1
              /\ t \notin Holders(d) => copies'[d] = copies[d]
            BY <1>4, <1>11, StoreCopies DEF StoresUnanswered, QueuedOnce
        <3>2. \/ copies[d] <= failures
              \/ copies[d] <= 1 + failures /\ d \notin EventsOf(queue) /\ Holders(d) = {}
            BY <1>4 DEF InOnePlace
        <3>3. copies'[d] <= failures'
            BY <1>1, <1>2, <2>1, <3>1, <3>2
        <3>4. d \in EventsOf(queue') => \A u \in Holders(d)' : pc'[u] = "clear"
            <4>1. d \in EventsOf(queue) => \A u \in Holders(d) : pc[u] = "clear"
                BY <1>4 DEF InOnePlace
            <4>2. pc[t] # "clear"
                BY <1>11 DEF StoresUnanswered
            <4>. QED
                BY <2>1, <4>1, <4>2, Undisturbed DEF Holders
        <3>5. copies'[d] \in Nat
            BY <1>2, <3>1
        <3>6. \A u, v \in Holders(d) : u = v
            BY <1>4 DEF InOnePlace
        <3>. QED
            BY <1>1, <2>1, <3>3, <3>4, <3>5, <3>6 DEF InOnePlace
    <2>. QED
        BY <2>2, <2>3
<1>12. CASE Requeue(t)
    <2>1. /\ \A d : Holders(d)' = Holders(d) \ {t}
          /\ taken'[t] = <<>> /\ \A u \in Threads \ {t} : taken'[u] = taken[u]
        BY <1>12, Relinquished DEF Requeue
    <2>2. queue' = queue \o taken[t] /\ copies' = copies /\ failures' = failures
        BY <1>12 DEF Requeue, Enqueue, server
    <2>3. queue \in Seq(Events) /\ taken[t] \in Seq(Events)
        BY DEF TypeOK
    <2>4. EventsOf(queue \o taken[t]) = EventsOf(queue) \cup EventsOf(taken[t])
        BY <2>3, EventsOfQueues
    <2>5. ASSUME NEW d \in EventsOf(taken[t])
          PROVE  d \in Events /\ t \in Holders(d) /\ d \notin EventsOf(queue)
        <3>1. d \in Events /\ t \in Holders(d)
            BY <2>3, EventsOfQueues DEF Holders
        <3>. QED
            BY <1>4, <1>12, <3>1 DEF InOnePlace, Requeue
    <2>6. QueuedOnce'
        <3>1. Once(queue \o taken[t])
            BY <1>4, <2>3, <2>5, OnceBoth DEF QueuedOnce
        <3>2. Once(queue')
            BY <2>2, <3>1, Zenon
        <3>3. \A u \in Threads : Once(taken'[u])
            BY <1>4, <2>1 DEF QueuedOnce, Once
        <3>. QED
            BY <3>2, <3>3 DEF QueuedOnce, Once
    <2>7. ASSUME NEW d \in Events PROVE InOnePlace(d)'
        <3>1. CASE d \in EventsOf(taken[t])
            <4>1. Holders(d)' = {} /\ copies[d] <= failures
                BY <1>4, <2>1, <2>5, <3>1 DEF InOnePlace
            <4>. QED
                BY <1>1, <1>2, <2>2, <4>1 DEF InOnePlace
        <3>2. CASE d \notin EventsOf(taken[t])
            <4>1. t \notin Holders(d)
                BY <3>2 DEF Holders
            <4>2. /\ Holders(d)' = Holders(d)
                  /\ d \in EventsOf(queue \o taken[t]) <=> d \in EventsOf(queue)
                BY <2>1, <2>4, <3>2, <4>1
            <4>3. \A u \in Holders(d) : pc'[u] = pc[u]
                BY <4>1, Undisturbed DEF Holders
            <4>. QED
                BY <1>1, <1>2, <1>4, <2>2, <4>2, <4>3 DEF InOnePlace
        <3>. QED
            BY <3>1, <3>2
    <2>. QED
        BY <2>6, <2>7
<1>. QED
    BY <1>5, <1>6, <1>7, <1>8, <1>9, <1>10, <1>11, <1>12, KindsOfSteps

LEMMA PostedOnceStep ==
    ASSUME TypeOK, Control, UnissuedNowhere, PostedOnce,
           NEW t \in Threads, Record(t) \/ CallFlush(t) \/ Progress(t)
    PROVE  PostedOnce'
<1>. SUFFICES ASSUME ~batched, NEW d \in Events PROVE copies'[d] <= 1
    BY Undisturbed DEF PostedOnce
<1>1. copies[d] <= 1 /\ copies \in [Events -> Nat]
    BY DEF PostedOnce, TypeOK
<1>2. CASE copies' = copies
    BY <1>1, <1>2
<1>3. ASSUME NEW e \in Events, Posts(e) PROVE copies'[d] <= 1
    BY <1>1, <1>3, PostsChanges
<1>4. CASE copies' = Stored(taken[t])
    <2>1. taken[t] = <<>> /\ <<>> \in Seq(Events) /\ d \notin EventsOf(<<>>)
        BY EventsOfQueues DEF Control
    <2>. QED
        BY <1>1, <1>4, <2>1, StoredCounts
<1>. QED
    BY <1>2, <1>3, <1>4, KindsOfSteps
       DEF Quiet, Queues, CopyBatch, ClearBatch, Stores, StoresUnanswered, Requeue, server

(***************************************************************************)
(* Theorems.                                                               *)
(***************************************************************************)

LEMMA Initially == Init => IInv
<1>. SUFFICES ASSUME Init PROVE IInv
    OBVIOUS
<1>. USE DEF Init
<1>1. TypeOK
    <2>1. 0 \in 0 .. MaxCalls /\ 0 \in 0 .. MaxFailures /\ <<>> \in Seq(Events)
        OBVIOUS
    <2>2. /\ calls \in [Threads -> 0 .. MaxCalls] /\ taken \in [Threads -> Seq(Events)]
          /\ copies \in [Events -> Nat]
        BY <2>1
    <2>. QED
        BY <2>1, <2>2 DEF TypeOK
<1>2. Control
    BY DEF Control, ThreadInv, Recording
<1>3. Snapshots
    BY DEF Snapshots
<1>4. LossNeedsRace
    <2>1. Recorded = {}
        BY DEF Recorded, Events, Recording
    <2>. QED
        BY <2>1 DEF LossNeedsRace
<1>5. RunsMade
    <2>1. Making = {}
        BY DEF Making
    <2>2. Cardinality(Making) = 0
        BY <2>1, FS_EmptySet
    <2>. QED
        BY <2>2, MakingIsFinite DEF RunsMade
<1>6. UnissuedNowhere /\ Copying /\ Apart /\ PostedOnce
    <2>1. \A e : Holders(e) = {}
        BY EventsOfQueues DEF Holders
    <2>2. \A e : Cardinality(Holders(e)) = 0
        BY <2>1, FS_EmptySet
    <2>3. UnissuedNowhere /\ QueuedIsNew
        BY <2>1, EventsOfQueues DEF UnissuedNowhere, QueuedIsNew
    <2>4. QueuedOnce
        BY DEF QueuedOnce, Once
    <2>5. CopiesBounded
        BY <2>2, MakingIsFinite DEF CopiesBounded
    <2>6. Apart /\ PostedOnce
        BY <2>1, <2>4, EventsOfQueues DEF Apart, InOnePlace, PostedOnce
    <2>. QED
        BY <2>3, <2>4, <2>5, <2>6 DEF Copying
<1>. QED
    BY <1>1, <1>2, <1>3, <1>4, <1>5, <1>6 DEF IInv

LEMMA Inductive == IInv /\ [Next]_vars => IInv'
<1>. SUFFICES ASSUME IInv, [Next]_vars PROVE IInv'
    OBVIOUS
<1>1. CASE Next
    <2>1. PICK t \in Threads : Record(t) \/ CallFlush(t) \/ Progress(t)
        BY <1>1 DEF Next
    <2>. QED
        BY <2>1, TypeStep, ControlStep, SnapshotsStep, LossStep, RunsMadeStep, UnissuedStep,
           CopyingStep, ApartStep, PostedOnceStep DEF IInv
<1>2. CASE UNCHANGED vars
    <2>. USE <1>2 DEF IInv, vars, host, server, races
    <2>1. TypeOK'
        BY DEF TypeOK
    <2>2. Control' /\ Snapshots' /\ RunsMade'
        BY DEF Control, ThreadInv, Recording, Snapshots, EventsOf, RunsMade, Making
    <2>3. LossNeedsRace'
        BY DEF LossNeedsRace, Recorded, Recording, EventsOf
    <2>4. \A e : Holders(e)' = Holders(e)
        BY DEF Holders, EventsOf
    <2>5. UnissuedNowhere' /\ (failures = 0 => QueuedIsNew)'
        BY <2>4 DEF Copying, UnissuedNowhere, QueuedIsNew, Unissued, Recording, EventsOf
    <2>6. (failures = 0 => QueuedOnce)' /\ (failures = 0 => CopiesBounded)'
        BY <2>4 DEF Copying, QueuedOnce, CopiesBounded
    <2>7. Apart'
        BY <2>4 DEF Apart, InOnePlace, QueuedOnce, EventsOf
    <2>8. PostedOnce'
        BY DEF PostedOnce
    <2>. QED
        BY <2>1, <2>2, <2>3, <2>5, <2>6, <2>7, <2>8 DEF Copying
<1>. QED
    BY <1>1, <1>2

(* The inductive invariant of threads that share a tracer.                  *)
THEOREM Invariance == Spec => []IInv
<1>. QED
    BY Initially, Inductive, PTL DEF Spec

(* The variables keep their types.                                          *)
THEOREM TypeCorrect == Spec => []TypeOK
<1>1. IInv => TypeOK
    BY DEF IInv
<1>. QED
    BY <1>1, Invariance, PTL

(* However many threads share a queueing tracer, a step is lost only when   *)
(* one queues between the copy and the clear of another.                    *)
THEOREM LossesNeedRaces == Spec => []LossNeedsRace
<1>1. IInv => LossNeedsRace
    BY DEF IInv
<1>. QED
    BY <1>1, Invariance, PTL

(* A step is stored twice only after a failed post, once for each, or when  *)
(* two flushes copied the queue before either cleared it, and without a     *)
(* failure at most once per thread; each thread makes at most one run.      *)
THEOREM CopiesNeedOverlaps == Spec => []CopiesNeedRaces
<1>1. ASSUME IInv PROVE CopiesNeedRaces
    <2>1. made \in Nat /\ failures \in Nat /\ \A e \in Events : copies[e] \in Nat
        BY <1>1 DEF IInv, TypeOK
    <2>2. made <= Cardinality(Threads) + failures
        BY <1>1, <2>1, MakingIsFinite DEF IInv, RunsMade
    <2>3. ASSUME failures = 0, NEW e \in Events PROVE copies[e] <= Cardinality(Threads)
        <3>1. copies[e] + Cardinality(Holders(e)) <= Cardinality(Threads)
            BY <1>1, <2>3 DEF IInv, Copying, CopiesBounded
        <3>. QED
            BY <2>1, <3>1, HoldersAreFinite, MakingIsFinite
    <2>4. ASSUME NEW e \in Events
          PROVE  /\ ~batched => copies[e] <= 1
                 /\ ~overlapped => copies[e] <= 1 + failures
        BY <1>1 DEF IInv, PostedOnce, Apart, InOnePlace
    <2>. QED
        BY <2>2, <2>3, <2>4 DEF CopiesNeedRaces
<1>. QED
    BY <1>1, Invariance, PTL
=============================================================================
