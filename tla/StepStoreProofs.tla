--------------------------- MODULE StepStoreProofs ---------------------------
(***************************************************************************)
(* Proofs about StepStore for any number of runs, requests and events.     *)
(***************************************************************************)
EXTENDS StepStore, FiniteSetTheorems, WellFoundedInduction, TLAPS

USE DisjointRequests, NoOneAssumption, NoRowAssumption, NumbersAssumption

Count(rows, r) == Cardinality(StepsOf(rows, r))

LEMMA CountType ==
  ASSUME NEW rows, NEW r, IsFiniteSet(rows)
  PROVE  /\ IsFiniteSet(StepsOf(rows, r))
         /\ Count(rows, r) \in Nat
         /\ Count(rows, r) = 0 <=> StepsOf(rows, r) = {}
  <1>1. IsFiniteSet(StepsOf(rows, r))
    BY FS_Subset DEF StepsOf
  <1> QED
    BY <1>1, FS_CardinalityType, FS_EmptySet DEF Count

LEMMA CountOne ==
  ASSUME NEW rows, IsFiniteSet(rows), NEW s, s \notin rows, NEW r
  PROVE  /\ IsFiniteSet(rows \cup {s})
         /\ Count(rows \cup {s}, r) =
              IF s.run = r THEN Count(rows, r) + 1 ELSE Count(rows, r)
  <1>1. IsFiniteSet(rows \cup {s})
    BY FS_AddElement
  <1>2. CASE s.run = r
    <2>1. StepsOf(rows \cup {s}, r) = StepsOf(rows, r) \cup {s}
      BY <1>2 DEF StepsOf
    <2>2. s \notin StepsOf(rows, r)
      BY DEF StepsOf
    <2> QED
      BY <1>1, <1>2, <2>1, <2>2, CountType, FS_AddElement DEF Count
  <1>3. CASE s.run # r
    <2>1. StepsOf(rows \cup {s}, r) = StepsOf(rows, r)
      BY <1>3 DEF StepsOf
    <2> QED
      BY <1>1, <1>3, <2>1 DEF Count
  <1> QED
    BY <1>2, <1>3

LEMMA SingleRow ==
  ASSUME NEW s
  PROVE  /\ IsFiniteSet({s})
         /\ Count({s}, s.run) = 1
         /\ StepsOf({s}, s.run) = {s}
         /\ \A x : x # s.run => StepsOf({s}, x) = {}
  <1>1. StepsOf({s}, s.run) = {s}
    BY DEF StepsOf
  <1>2. \A x : x # s.run => StepsOf({s}, x) = {}
    BY DEF StepsOf
  <1> QED
    BY <1>1, <1>2, FS_Singleton DEF Count

LEMMA CountUnion ==
  ASSUME NEW A, IsFiniteSet(A), NEW B, IsFiniteSet(B), A \cap B = {}, NEW r
  PROVE  /\ IsFiniteSet(A \cup B)
         /\ Count(A \cup B, r) = Count(A, r) + Count(B, r)
  <1>1. StepsOf(A \cup B, r) = StepsOf(A, r) \cup StepsOf(B, r)
    BY DEF StepsOf
  <1>2. StepsOf(A, r) \cap StepsOf(B, r) = {}
    BY DEF StepsOf
  <1>3. IsFiniteSet(A \cup B)
    BY FS_Union
  <1>4. /\ IsFiniteSet(StepsOf(A, r)) /\ IsFiniteSet(StepsOf(B, r))
        /\ Count(A, r) \in Nat /\ Count(B, r) \in Nat
    BY CountType
  <1>5. Cardinality(StepsOf(A, r) \cup StepsOf(B, r)) =
          Cardinality(StepsOf(A, r)) + Cardinality(StepsOf(B, r))
            - Cardinality(StepsOf(A, r) \cap StepsOf(B, r))
    BY <1>4, FS_Union
  <1>6. Cardinality(StepsOf(A, r) \cap StepsOf(B, r)) = 0
    BY <1>2, FS_EmptySet
  <1>7. Count(A \cup B, r) = Count(A, r) + Count(B, r) - 0
    BY <1>1, <1>5, <1>6 DEF Count
  <1> QED
    BY <1>3, <1>4, <1>7

(* A finite set of numbered rows has a last one: the row with the fewest    *)
(* rows above it.                                                           *)
LEMMA LastRow ==
  ASSUME NEW rows, IsFiniteSet(rows), rows # {}, \A s \in rows : s.number \in Nat
  PROVE  \E s \in rows : \A t \in rows : t.number <= s.number
  <1> DEFINE above(s) == {u \in rows : s.number < u.number}
             F == {above(s) : s \in rows}
             R == StrictSubsetOrdering(rows)
  <1>1. F # {} /\ F \subseteq FiniteSubsetsOf(rows)
    <2>1. ASSUME NEW s \in rows PROVE IsFiniteSet(above(s)) /\ above(s) \subseteq rows
      BY FS_Subset
    <2> QED
      BY <2>1 DEF FiniteSubsetsOf
  <1>2. IsWellFoundedOn(R, FiniteSubsetsOf(rows))
    BY FS_StrictSubsetOrderingWellFounded
  <1>3. \E x \in F : \A y \in F : <<y, x>> \notin R
    <2> HIDE DEF F, R
    <2> QED
      BY <1>1, <1>2, WFMin
  <1>4. PICK s \in rows : \A t \in rows : <<above(t), above(s)>> \notin R
    BY <1>3
  <1>5. ASSUME NEW t \in rows, ~(t.number <= s.number) PROVE FALSE
    <2>1. s.number \in Nat /\ t.number \in Nat /\ s.number < t.number
      BY <1>5
    <2>2. above(t) \subseteq above(s) /\ t \in above(s) /\ t \notin above(t)
      BY <2>1
    <2>3. <<above(t), above(s)>> \in R
      BY <2>2 DEF StrictSubsetOrdering
    <2> QED
      BY <1>4, <2>3
  <1> QED
    BY <1>5

-----------------------------------------------------------------------------
(* A request that is not in flight has no session and no locks. *)
SessionClosed(q) ==
    ~InFlight(q) =>
        /\ session[q] = Nothing
        /\ fresh[q] = {} /\ dirty[q] = {} /\ added[q] = {}
        /\ \A r \in Runs : runLock[r] # q

(* An open batch is at one of its events and has added earlier ones only. *)
AtEvent(q) ==
    q \in Batches /\ pc[q] = "open" =>
        /\ content[q] \in Contents
        /\ at[q] \in 1 .. Len(content[q])
        /\ \A s \in added[q] : s.pos < at[q]

OwnRows(q) == IsFiniteSet(added[q]) /\ \A s \in added[q] : s.by = q

(* The count a session will write is at most the stored steps, which only   *)
(* grow, and its own.                                                       *)
SessionCounts(q) ==
    \A r \in Runs :
        session[q][r] # NoRow =>
            session[q][r] <= Count(steps, r) + Count(added[q], r)

(* A session writes the runs it added steps to, with a count, and otherwise *)
(* only runs it inserts, whose key is free.                                 *)
SessionWrites(q) ==
    \A r \in Runs :
        /\ StepsOf(added[q], r) # {} => r \in Changed(q) /\ session[q][r] # 0
        /\ r \in Changed(q) =>
              /\ session[q][r] # NoRow
              /\ StepsOf(added[q], r) # {} \/ r \in fresh[q]
        /\ r \in fresh[q] /\ runLock[r] = q => total[r] = NoRow

RequestInv(q) ==
    /\ SessionClosed(q)
    /\ AtEvent(q)
    /\ OwnRows(q)
    /\ SessionCounts(q)
    /\ SessionWrites(q)

(* The table has rows of answered requests only. *)
AnsweredRows == IsFiniteSet(steps) /\ \A s \in steps : pc[s.by] = "ok"

IInv ==
    /\ TypeOK
    /\ AnsweredRows
    /\ TotalAtMostSteps
    /\ SteppedRunIsCounted
    /\ \A q \in Requests : RequestInv(q)

LEMMA InitIInv == Init => IInv
  <1> SUFFICES ASSUME Init PROVE IInv
    OBVIOUS
  <1>1. TypeOK
    BY DEF Init, TypeOK, Requests, Nothing
  <1>2. AnsweredRows /\ TotalAtMostSteps /\ SteppedRunIsCounted
    BY FS_EmptySet DEF Init, AnsweredRows, TotalAtMostSteps, SteppedRunIsCounted,
                       Nothing, StepsOf
  <1>3. ASSUME NEW q \in Requests PROVE RequestInv(q)
    BY <1>3, FS_EmptySet
    DEF Init, RequestInv, SessionClosed, AtEvent, OwnRows, SessionCounts,
        SessionWrites, Nothing, Changed, StepsOf, Requests
  <1> QED
    BY <1>1, <1>2, <1>3 DEF IInv

(* What a request x has of its own. *)
SameLocals(x) ==
    /\ pc'[x] = pc[x] /\ session'[x] = session[x] /\ fresh'[x] = fresh[x]
    /\ dirty'[x] = dirty[x] /\ added'[x] = added[x]
    /\ \A r \in Runs : runLock'[r] = x <=> runLock[r] = x
    /\ x \in Batches => content'[x] = content[x] /\ at'[x] = at[x]

(* A step of one request that leaves the tables alone concerns its own      *)
(* invariant only.                                                          *)
LEMMA LocalStep ==
  ASSUME IInv, TypeOK', NEW q \in Requests, pc[q] # "ok",
         UNCHANGED <<total, steps>>,
         \A x \in Requests \ {q} : SameLocals(x),
         RequestInv(q)'
  PROVE  IInv'
  <1>1. AnsweredRows'
    <2> SUFFICES ASSUME NEW s \in steps PROVE pc'[s.by] = "ok"
      BY DEF IInv, AnsweredRows
    <2>1. s.by \in Requests /\ pc[s.by] = "ok"
      BY DEF IInv, AnsweredRows, TypeOK, StepRow
    <2> QED
      BY <2>1 DEF SameLocals
  <1>2. TotalAtMostSteps' /\ SteppedRunIsCounted'
    BY DEF IInv, TotalAtMostSteps, SteppedRunIsCounted
  <1>3. ASSUME NEW x \in Requests \ {q} PROVE RequestInv(x)'
    <2>1. RequestInv(x) /\ SameLocals(x)
      BY DEF IInv
    <2>2. SessionClosed(x)' /\ AtEvent(x)' /\ OwnRows(x)' /\ SessionCounts(x)'
      BY <2>1 DEF RequestInv, SameLocals, SessionClosed, AtEvent, OwnRows,
                  SessionCounts, Count, InFlight
    <2>3. SessionWrites(x)'
      BY <2>1 DEF RequestInv, SameLocals, SessionWrites, Changed
    <2> QED
      BY <2>2, <2>3 DEF RequestInv
  <1> QED
    BY <1>1, <1>2, <1>3 DEF IInv
-----------------------------------------------------------------------------
LEMMA AddStepIInv ==
  ASSUME IInv, NEW q \in Adders, NEW r \in Runs, NEW n \in Numbers, AddStep(q, r, n)
  PROVE  IInv'
  <1> DEFINE row == [run |-> r, number |-> n, by |-> q, pos |-> 1]
  <1>1. /\ q \in Requests /\ q \notin Batches
        /\ session[q] = Nothing /\ fresh[q] = {} /\ dirty[q] = {} /\ added[q] = {}
        /\ \A x \in Runs : runLock[x] # q
    BY DEF AddStep, IInv, RequestInv, SessionClosed, InFlight, Requests
  <1>2. pc[q] = "idle" /\ UNCHANGED <<total, steps, runLock, content, at, fresh>>
    BY DEF AddStep
  <1>3. CASE total[r] = NoRow
    <2>1. pc' = [pc EXCEPT ![q] = "missing"] /\ UNCHANGED <<session, dirty, added>>
      BY <1>3 DEF AddStep, Advance
    <2>2. TypeOK'
      BY <1>2, <2>1 DEF IInv, TypeOK, Requests
    <2>3. \A x \in Requests \ {q} : SameLocals(x)
      BY <1>2, <2>1 DEF SameLocals, IInv, TypeOK
    <2>4. RequestInv(q)'
      BY <1>1, <1>2, <2>1
      DEF IInv, TypeOK, RequestInv, SessionClosed, AtEvent, OwnRows, SessionCounts,
          SessionWrites, Changed, InFlight
    <2> QED
      BY <1>1, <1>2, <2>2, <2>3, <2>4, LocalStep
  <1>4. CASE total[r] # NoRow
    <2>1. /\ pc' = [pc EXCEPT ![q] = "commit"]
          /\ session' = [session EXCEPT ![q][r] = total[r] + 1]
          /\ dirty' = [dirty EXCEPT ![q] = {r}]
          /\ added' = [added EXCEPT ![q] = {row}]
      BY <1>4 DEF AddStep, Advance
    <2>2. row \in StepRow
      BY <1>1 DEF StepRow
    <2>3. TypeOK'
      BY <1>2, <1>4, <2>1, <2>2 DEF IInv, TypeOK, Requests
    <2>4. \A x \in Requests \ {q} : SameLocals(x)
      BY <1>2, <2>1 DEF SameLocals, IInv, TypeOK
    <2>5. /\ pc'[q] = "commit" /\ added'[q] = {row} /\ dirty'[q] = {r}
          /\ session'[q] = [Nothing EXCEPT ![r] = total[r] + 1]
      BY <1>1, <2>1 DEF IInv, TypeOK
    <2>6. row.run = r /\ row.by = q
      OBVIOUS
    <2> HIDE DEF row
    <2>7. StepsOf({row}, r) # {} /\ \A x \in Runs \ {r} : StepsOf({row}, x) = {}
      BY <2>6, SingleRow
    <2>8. IsFiniteSet({row}) /\ Count({row}, r) = 1
      BY <2>6, SingleRow
    <2>9. total[r] \in Nat /\ total[r] <= Count(steps, r) /\ Count(steps, r) \in Nat
      BY <1>4, CountType
      DEF IInv, TypeOK, TotalAtMostSteps, AnsweredRows, Count
    <2>10. SessionClosed(q)' /\ AtEvent(q)' /\ OwnRows(q)'
      BY <1>1, <2>5, <2>6, <2>8 DEF SessionClosed, AtEvent, OwnRows, InFlight
    <2>11. SessionCounts(q)'
      BY <1>2, <2>5, <2>8, <2>9 DEF SessionCounts, Nothing, Count
    <2>12. /\ \A x \in Runs : x \in Changed(q)' <=> x = r
           /\ session'[q][r] \notin {NoRow, 0} /\ fresh'[q] = {}
      BY <1>1, <1>2, <2>5, <2>9 DEF Changed, Nothing
    <2>13. SessionWrites(q)'
      BY <2>5, <2>7, <2>12 DEF SessionWrites
    <2> QED
      BY <1>1, <1>2, <2>3, <2>4, <2>10, <2>11, <2>13, LocalStep DEF RequestInv
  <1> QED
    BY <1>3, <1>4

LEMMA BatchStartIInv ==
  ASSUME IInv, NEW b \in Batches, BatchStart(b)
  PROVE  IInv'
  <1>1. PICK c \in Contents : content' = [content EXCEPT ![b] = c]
    BY DEF BatchStart
  <1>2. /\ pc[b] = "idle" /\ pc' = [pc EXCEPT ![b] = "open"]
        /\ at' = [at EXCEPT ![b] = 1]
        /\ UNCHANGED <<total, steps, runLock, session, fresh, dirty, added>>
    BY DEF BatchStart, Advance
  <1>3. /\ b \in Requests
        /\ session[b] = Nothing /\ fresh[b] = {} /\ dirty[b] = {} /\ added[b] = {}
        /\ \A x \in Runs : runLock[x] # b
    BY <1>2 DEF IInv, RequestInv, SessionClosed, InFlight, Requests
  <1>4. TypeOK'
    BY <1>1, <1>2 DEF IInv, TypeOK, Requests
  <1>5. \A x \in Requests \ {b} : SameLocals(x)
    BY <1>1, <1>2 DEF SameLocals, IInv, TypeOK
  <1>6. c \in Seq(Events) /\ Len(c) \in Nat /\ Len(c) > 0
    BY ContentsAssumption
  <1>7. /\ pc'[b] = "open" /\ content'[b] = c /\ at'[b] = 1
        /\ session'[b] = Nothing /\ fresh'[b] = {} /\ dirty'[b] = {} /\ added'[b] = {}
    BY <1>1, <1>2, <1>3 DEF IInv, TypeOK
  <1>8. AtEvent(b)'
    BY <1>1, <1>6, <1>7 DEF AtEvent
  <1>9. SessionClosed(b)' /\ OwnRows(b)' /\ SessionCounts(b)' /\ SessionWrites(b)'
    BY <1>2, <1>3, <1>7, FS_EmptySet
    DEF SessionClosed, InFlight, OwnRows, SessionCounts, SessionWrites, Nothing,
        Changed, StepsOf
  <1> QED
    BY <1>2, <1>3, <1>4, <1>5, <1>8, <1>9, LocalStep DEF RequestInv
-----------------------------------------------------------------------------
(* What a request writes when it can flush: no other request holds it, and  *)
(* the runs it inserts are not there.                                       *)
LEMMA ChangedIsOwn ==
  ASSUME IInv, NEW b \in Requests, CanFlush(b)
  PROVE  /\ \A r \in Changed(b) : r \in fresh[b] => total[r] = NoRow
         /\ \A r \in Changed(b) : runLock[r] \in {b, NoOne}
  BY DEF IInv, RequestInv, SessionWrites, CanFlush, Changed

(* A flush locks exactly the changed runs and takes no lock from another    *)
(* request.                                                                 *)
LEMMA FlushLocks ==
  ASSUME IInv, NEW b \in Requests, CanFlush(b), runLock' = Flushed(b)
  PROVE  /\ runLock' \in [Runs -> Requests \cup {NoOne}]
         /\ \A r \in Runs : runLock'[r] = b <=> r \in Changed(b)
         /\ \A x \in Requests \ {b}, r \in Runs : runLock'[r] = x <=> runLock[r] = x
         /\ \A r \in Changed(b) : r \in fresh[b] => total[r] = NoRow
  <1>1. dirty[b] \subseteq Runs
    BY DEF IInv, TypeOK
  <1> QED
    BY <1>1, ChangedIsOwn DEF IInv, TypeOK, CanFlush, Flushed, Changed

(* The step number the server chooses is one after those of the run. *)
LEMMA LastNumberOf ==
  ASSUME IInv, NEW b \in Requests, NEW r \in Runs
  PROVE  /\ LastNumber(b, r) \in Nat
         /\ \A s \in StepsOf(steps \cup added[b], r) : s.number <= LastNumber(b, r)
  <1> DEFINE rows == StepsOf(steps \cup added[b], r)
             Last(n) == \A s \in rows : s.number <= n
             numbers == {0} \cup {s.number : s \in rows}
  <1>1. IsFiniteSet(rows)
    BY CountType, FS_Union DEF IInv, AnsweredRows, RequestInv, OwnRows
  <1>2. \A s \in rows : s.number \in Nat
    BY DEF IInv, TypeOK, StepRow, StepsOf
  <1>3. \E n \in numbers : Last(n)
    <2>1. CASE rows = {}
      BY <2>1
    <2>2. CASE rows # {}
      <3>1. PICK s \in rows : \A t \in rows : t.number <= s.number
        BY <1>1, <1>2, <2>2, LastRow
      <3> QED
        BY <3>1
    <2> QED
      BY <2>1, <2>2
  <1>4. LastNumber(b, r) = CHOOSE n \in numbers : Last(n)
    BY DEF LastNumber
  <1>5. LastNumber(b, r) \in numbers /\ Last(LastNumber(b, r))
    <2> HIDE DEF Last, numbers
    <2> QED
      BY <1>3, <1>4
  <1>6. numbers \subseteq Nat
    <2> HIDE DEF rows
    <2> QED
      BY <1>2
  <1> QED
    BY <1>5, <1>6

(* What the event of an open batch is. *)
LEMMA EventType ==
  ASSUME IInv, NEW b \in Batches, pc[b] = "open"
  PROVE  /\ b \in Requests
         /\ content[b] \in Seq(Events) /\ Len(content[b]) \in Nat
         /\ at[b] \in 1 .. Len(content[b])
         /\ Event(b) \in Events
         /\ Event(b).run \in Runs /\ Event(b).number \in Nat
  <1>1. b \in Requests
    BY DEF Requests
  <1>2. content[b] \in Contents /\ at[b] \in 1 .. Len(content[b])
    BY <1>1 DEF IInv, RequestInv, AtEvent
  <1>3. content[b] \in Seq(Events) /\ Len(content[b]) \in Nat
    BY <1>2, ContentsAssumption
  <1>4. Event(b) \in Events
    BY <1>2, <1>3 DEF Event
  <1> QED
    BY <1>1, <1>2, <1>3, <1>4 DEF Events

LEMMA GetRunIInv ==
  ASSUME IInv, NEW b \in Batches, GetRun(b)
  PROVE  IInv'
  <1> DEFINE r == Event(b).run
  <1>1. b \in Requests /\ r \in Runs
    BY EventType DEF GetRun
  <1> HIDE DEF r
  <1>2. /\ pc[b] = "open" /\ session[b][r] = NoRow
        /\ CanFlush(b) /\ runLock' = Flushed(b)
        /\ UNCHANGED <<total, steps, pc, content, at, added>>
    BY DEF GetRun, r
  <1>3. /\ runLock' \in [Runs -> Requests \cup {NoOne}]
        /\ \A x \in Runs : runLock'[x] = b <=> x \in Changed(b)
        /\ \A x \in Requests \ {b}, y \in Runs : runLock'[y] = x <=> runLock[y] = x
        /\ \A x \in Changed(b) : x \in fresh[b] => total[x] = NoRow
    BY <1>1, <1>2, FlushLocks
  <1>4. /\ r \notin Changed(b) /\ StepsOf(added[b], r) = {}
        /\ Count(added[b], r) = 0 /\ IsFiniteSet(added[b])
    BY <1>1, <1>2, CountType DEF IInv, RequestInv, SessionWrites, OwnRows
  <1>5. RequestInv(b) /\ \A x \in Runs : Count(steps, x) \in Nat
    BY <1>1, CountType DEF IInv, AnsweredRows
  <1>6. CASE total[r] = NoRow
    <2>1. /\ session' = [session EXCEPT ![b][r] = 0]
          /\ fresh' = [fresh EXCEPT ![b] = @ \cup {r}]
          /\ dirty' = [dirty EXCEPT ![b] = {r}]
      BY <1>6 DEF GetRun, r
    <2>2. TypeOK'
      BY <1>1, <1>2, <1>3, <2>1 DEF IInv, TypeOK
    <2>3. \A x \in Requests \ {b} : SameLocals(x)
      BY <1>2, <1>3, <2>1 DEF SameLocals, IInv, TypeOK
    <2>4. /\ session'[b] = [session[b] EXCEPT ![r] = 0]
          /\ fresh'[b] = fresh[b] \cup {r} /\ dirty'[b] = {r} /\ added'[b] = added[b]
          /\ session[b] \in [Runs -> Nat \cup {NoRow}]
      BY <1>1, <1>2, <2>1 DEF IInv, TypeOK
    <2>5. SessionClosed(b)' /\ AtEvent(b)' /\ OwnRows(b)'
      BY <1>2, <1>5, <2>4
      DEF RequestInv, SessionClosed, InFlight, AtEvent, OwnRows
    <2>6. SessionCounts(b)'
      <3> SUFFICES ASSUME NEW x \in Runs, session'[b][x] # NoRow
                   PROVE  session'[b][x] <= Count(steps, x) + Count(added[b], x)
        BY <1>2, <2>4 DEF SessionCounts, Count
      <3>1. CASE x = r
        BY <1>4, <1>5, <2>4, <3>1
      <3>2. CASE x # r
        BY <1>5, <2>4, <3>2 DEF RequestInv, SessionCounts
      <3> QED
        BY <3>1, <3>2
    <2>7. \A x \in Runs : x \in Changed(b)' <=> x \in Changed(b) \/ x = r
      BY <1>1, <1>3, <2>4 DEF Changed
    <2>8. SessionWrites(b)'
      BY <1>1, <1>2, <1>3, <1>4, <1>5, <1>6, <2>4, <2>7 DEF RequestInv, SessionWrites
    <2> QED
      BY <1>1, <1>2, <2>2, <2>3, <2>5, <2>6, <2>8, LocalStep DEF RequestInv
  <1>7. CASE total[r] # NoRow
    <2>1. /\ session' = [session EXCEPT ![b][r] = total[r]]
          /\ fresh' = fresh /\ dirty' = [dirty EXCEPT ![b] = {}]
      BY <1>7 DEF GetRun, r
    <2>2. total[r] \in Nat /\ total[r] <= Count(steps, r)
      BY <1>1, <1>7 DEF IInv, TypeOK, TotalAtMostSteps, Count
    <2>3. TypeOK'
      BY <1>1, <1>2, <1>3, <2>1, <2>2 DEF IInv, TypeOK
    <2>4. \A x \in Requests \ {b} : SameLocals(x)
      BY <1>2, <1>3, <2>1 DEF SameLocals, IInv, TypeOK
    <2>5. /\ session'[b] = [session[b] EXCEPT ![r] = total[r]]
          /\ fresh'[b] = fresh[b] /\ dirty'[b] = {} /\ added'[b] = added[b]
          /\ session[b] \in [Runs -> Nat \cup {NoRow}]
      BY <1>1, <1>2, <2>1 DEF IInv, TypeOK
    <2>6. SessionClosed(b)' /\ AtEvent(b)' /\ OwnRows(b)'
      BY <1>2, <1>5, <2>5
      DEF RequestInv, SessionClosed, InFlight, AtEvent, OwnRows
    <2>7. SessionCounts(b)'
      <3> SUFFICES ASSUME NEW x \in Runs, session'[b][x] # NoRow
                   PROVE  session'[b][x] <= Count(steps, x) + Count(added[b], x)
        BY <1>2, <2>5 DEF SessionCounts, Count
      <3>1. CASE x = r
        BY <1>4, <1>5, <2>2, <2>5, <3>1
      <3>2. CASE x # r
        BY <1>5, <2>5, <3>2 DEF RequestInv, SessionCounts
      <3> QED
        BY <3>1, <3>2
    <2>8. \A x \in Runs : x \in Changed(b)' <=> x \in Changed(b)
      BY <1>1, <1>3, <2>5 DEF Changed
    <2>9. SessionWrites(b)'
      BY <1>1, <1>2, <1>3, <1>4, <1>5, <2>5, <2>8 DEF RequestInv, SessionWrites
    <2> QED
      BY <1>1, <1>2, <2>3, <2>4, <2>6, <2>7, <2>9, LocalStep DEF RequestInv
  <1> QED
    BY <1>6, <1>7

(* A batch moves to the next event, or to its commit after the last. *)
LEMMA NextEventType ==
  ASSUME IInv, NEW b \in Batches, pc[b] = "open", NextEvent(b)
  PROVE  /\ at'[b] = at[b] + 1 /\ pc'[b] \in {"open", "commit"}
         /\ pc'[b] = "open" => at'[b] \in 1 .. Len(content[b])
         /\ pc'[b] = "commit" => at[b] = Len(content[b])
         /\ at' \in [Batches -> Nat]
         /\ pc' \in [Requests -> {"idle", "open", "commit", "ok", "missing", "error", "crashed"}]
         /\ \A x \in Requests \ {b} : pc'[x] = pc[x] /\ (x \in Batches => at'[x] = at[x])
  <1>1. /\ b \in Requests /\ Len(content[b]) \in Nat /\ at[b] \in 1 .. Len(content[b])
    BY EventType
  <1> QED
    BY <1>1 DEF NextEvent, Advance, IInv, TypeOK

LEMMA TraceDoneIInv ==
  ASSUME IInv, NEW b \in Batches, TraceDone(b)
  PROVE  IInv'
  <1>1. /\ b \in Requests /\ pc[b] = "open" /\ NextEvent(b) /\ RequestInv(b)
        /\ UNCHANGED <<total, steps, runLock, content, session, fresh, dirty, added>>
    BY DEF TraceDone, IInv, Requests
  <1>2. TypeOK'
    BY <1>1, NextEventType DEF IInv, TypeOK
  <1>3. \A x \in Requests \ {b} : SameLocals(x)
    BY <1>1, NextEventType DEF SameLocals
  <1>4. AtEvent(b)'
    <2>1. /\ content[b] \in Contents /\ at[b] \in Nat
          /\ \A s \in added[b] : s.pos \in Nat /\ s.pos < at[b]
      BY <1>1 DEF RequestInv, AtEvent, IInv, TypeOK, StepRow
    <2> QED
      BY <1>1, <2>1, NextEventType DEF AtEvent
  <1>5. SessionClosed(b)' /\ OwnRows(b)' /\ SessionCounts(b)' /\ SessionWrites(b)'
    BY <1>1, NextEventType
    DEF RequestInv, SessionClosed, InFlight, OwnRows, SessionCounts, Count,
        SessionWrites, Changed
  <1> QED
    BY <1>1, <1>2, <1>3, <1>4, <1>5, LocalStep DEF RequestInv

LEMMA AddObservationIInv ==
  ASSUME IInv, NEW b \in Batches, AddObservation(b)
  PROVE  IInv'
  <1> DEFINE e == Event(b)
             r == e.run
             n == IF e.number = 0 THEN LastNumber(b, r) + 1 ELSE e.number
             row == [run |-> r, number |-> n, by |-> b, pos |-> at[b]]
  <1>1. b \in Requests /\ r \in Runs /\ e.number \in Nat /\ at[b] \in Nat
    BY EventType DEF AddObservation
  <1>2. /\ pc[b] = "open" /\ session[b][r] # NoRow
        /\ CanFlush(b) /\ runLock' = Flushed(b) /\ NextEvent(b)
        /\ added' = [added EXCEPT ![b] = @ \cup {row}]
        /\ session' = [session EXCEPT ![b][r] = @ + 1]
        /\ dirty' = [dirty EXCEPT ![b] = {r}]
        /\ UNCHANGED <<total, steps, content, fresh>>
    BY DEF AddObservation
  <1>3. n \in Nat
    <2> HIDE DEF e, r
    <2>1. LastNumber(b, r) \in Nat
      BY <1>1, LastNumberOf
    <2> QED
      BY <1>1, <2>1
  <1>4. row.run = r /\ row.by = b /\ row.pos = at[b] /\ row \in StepRow
    BY <1>1, <1>3 DEF StepRow
  <1> HIDE DEF r, n, row
  <1>5. /\ runLock' \in [Runs -> Requests \cup {NoOne}]
        /\ \A x \in Runs : runLock'[x] = b <=> x \in Changed(b)
        /\ \A x \in Requests \ {b}, y \in Runs : runLock'[y] = x <=> runLock[y] = x
        /\ \A x \in Changed(b) : x \in fresh[b] => total[x] = NoRow
    BY <1>1, <1>2, FlushLocks
  <1>6. RequestInv(b) /\ \A x \in Runs : Count(steps, x) \in Nat
    BY <1>1, CountType DEF IInv, AnsweredRows
  <1>7. TypeOK'
    BY <1>1, <1>2, <1>4, <1>5, NextEventType DEF IInv, TypeOK
  <1>8. \A x \in Requests \ {b} : SameLocals(x)
    BY <1>2, <1>5, NextEventType DEF SameLocals, IInv, TypeOK
  <1>9. /\ session'[b] = [session[b] EXCEPT ![r] = @ + 1]
        /\ dirty'[b] = {r} /\ added'[b] = added[b] \cup {row} /\ fresh'[b] = fresh[b]
        /\ session[b] \in [Runs -> Nat \cup {NoRow}]
        /\ \A s \in added[b] : s.pos \in Nat
    BY <1>1, <1>2 DEF IInv, TypeOK, StepRow
  <1>10. /\ IsFiniteSet(added[b]) /\ \A s \in added[b] : s.by = b /\ s.pos < at[b]
    BY <1>2, <1>6 DEF RequestInv, OwnRows, AtEvent
  <1>11. row \notin added[b]
    BY <1>1, <1>4, <1>10
  <1>12. /\ IsFiniteSet(added[b] \cup {row})
         /\ \A x \in Runs : /\ Count(added[b], x) \in Nat
                            /\ Count(added[b] \cup {row}, x) =
                                 IF x = r THEN Count(added[b], x) + 1 ELSE Count(added[b], x)
    BY <1>4, <1>10, <1>11, CountOne, CountType
  <1>13. AtEvent(b)'
    <2>1. content[b] \in Contents
      BY <1>2, <1>6 DEF RequestInv, AtEvent
    <2> QED
      BY <1>1, <1>2, <1>4, <1>9, <1>10, <2>1, NextEventType DEF AtEvent
  <1>14. SessionClosed(b)' /\ OwnRows(b)'
    BY <1>2, <1>4, <1>9, <1>10, <1>12, NextEventType
    DEF SessionClosed, InFlight, OwnRows
  <1>15. SessionCounts(b)'
    <2> SUFFICES ASSUME NEW x \in Runs, session'[b][x] # NoRow
                 PROVE  session'[b][x] <= Count(steps, x) + Count(added[b] \cup {row}, x)
      BY <1>2, <1>9 DEF SessionCounts, Count
    <2>1. session[b][x] # NoRow /\ session[b][x] \in Nat
      BY <1>2, <1>9
    <2>2. session[b][x] <= Count(steps, x) + Count(added[b], x)
      BY <1>6, <2>1 DEF RequestInv, SessionCounts
    <2>3. session'[b][x] = IF x = r THEN session[b][x] + 1 ELSE session[b][x]
      BY <1>9
    <2>4. /\ Count(steps, x) \in Nat /\ Count(added[b], x) \in Nat
          /\ Count(added[b] \cup {row}, x) =
               IF x = r THEN Count(added[b], x) + 1 ELSE Count(added[b], x)
      BY <1>6, <1>12
    <2> QED
      BY <2>1, <2>2, <2>3, <2>4
  <1>16. SessionWrites(b)'
    <2>1. /\ StepsOf(added'[b], r) # {}
          /\ \A x \in Runs \ {r} : StepsOf(added'[b], x) = StepsOf(added[b], x)
      BY <1>4, <1>9 DEF StepsOf
    <2>2. \A x \in Runs : x \in Changed(b)' <=> x \in Changed(b) \/ x = r
      BY <1>1, <1>5, <1>9 DEF Changed
    <2>3. session'[b][r] \in Nat \ {0}
      BY <1>1, <1>2, <1>9
    <2>4. \A x \in Runs \ {r} : session'[b][x] = session[b][x]
      BY <1>9
    <2>5. \A x \in Runs : x \in fresh'[b] /\ runLock'[x] = b => total'[x] = NoRow
      BY <1>2, <1>5, <1>9
    <2>6. ASSUME NEW x \in Runs
          PROVE  /\ StepsOf(added'[b], x) # {} => x \in Changed(b)' /\ session'[b][x] # 0
                 /\ x \in Changed(b)' =>
                       /\ session'[b][x] # NoRow
                       /\ StepsOf(added'[b], x) # {} \/ x \in fresh'[b]
      <3>1. CASE x = r
        BY <2>1, <2>2, <2>3, <3>1
      <3>2. CASE x # r
        BY <1>6, <1>9, <2>1, <2>2, <2>4, <3>2 DEF RequestInv, SessionWrites
      <3> QED
        BY <3>1, <3>2
    <2> QED
      BY <2>5, <2>6 DEF SessionWrites
  <1> QED
    BY <1>1, <1>2, <1>7, <1>8, <1>13, <1>14, <1>15, <1>16, LocalStep DEF RequestInv

LEMMA RollbackIInv ==
  ASSUME IInv, NEW q \in Requests, InFlight(q),
         NEW outcome \in {"error", "crashed"}, Rollback(q, outcome)
  PROVE  IInv'
  <1>1. /\ pc[q] # "ok" /\ pc' = [pc EXCEPT ![q] = outcome] /\ runLock' = Released(q)
        /\ session' = [session EXCEPT ![q] = Nothing]
        /\ fresh' = [fresh EXCEPT ![q] = {}] /\ dirty' = [dirty EXCEPT ![q] = {}]
        /\ added' = [added EXCEPT ![q] = {}]
        /\ UNCHANGED <<total, steps, content, at>>
    BY DEF InFlight, Rollback, Advance, CloseSession
  <1>2. TypeOK'
    BY <1>1 DEF IInv, TypeOK, Released, Nothing
  <1>3. \A x \in Requests \ {q} : SameLocals(x)
    BY <1>1 DEF SameLocals, IInv, TypeOK, Released
  <1>4. /\ pc'[q] \in {"error", "crashed"} /\ session'[q] = Nothing
        /\ fresh'[q] = {} /\ dirty'[q] = {} /\ added'[q] = {}
        /\ \A r \in Runs : runLock'[r] # q
    BY <1>1 DEF IInv, TypeOK, Released
  <1>5. RequestInv(q)'
    BY <1>4, FS_EmptySet
    DEF RequestInv, SessionClosed, AtEvent, OwnRows, SessionCounts, SessionWrites,
        Nothing, Changed, StepsOf
  <1> QED
    BY <1>1, <1>2, <1>3, <1>5, LocalStep

(* What a commit does to the rows and the counter of each run. *)
LEMMA CommitRun ==
  ASSUME IInv, NEW q \in Requests, Commit(q), NEW r \in Runs
  PROVE  /\ Count(steps, r) \in Nat /\ Count(added[q], r) \in Nat
         /\ Count(steps', r) = Count(steps, r) + Count(added[q], r)
         /\ r \in Changed(q) =>
               /\ total'[r] = session[q][r] /\ total'[r] \in Nat
               /\ total'[r] <= Count(steps', r)
               /\ total'[r] = 0 => StepsOf(steps', r) = {}
         /\ r \notin Changed(q) =>
               total'[r] = total[r] /\ StepsOf(steps', r) = StepsOf(steps, r)
  <1>1. /\ pc[q] = "commit" /\ CanFlush(q) /\ RequestInv(q)
        /\ total' = CommittedTotal(q) /\ steps' = steps \cup added[q]
    BY DEF Commit, IInv
  <1>2. /\ IsFiniteSet(steps) /\ IsFiniteSet(added[q]) /\ steps \cap added[q] = {}
    BY <1>1 DEF IInv, AnsweredRows, RequestInv, OwnRows
  <1>3. /\ Count(steps, r) \in Nat /\ Count(added[q], r) \in Nat
        /\ Count(steps', r) = Count(steps, r) + Count(added[q], r)
    <2>1. Count(steps, r) \in Nat /\ Count(added[q], r) \in Nat
      BY <1>2, CountType
    <2>2. Count(steps \cup added[q], r) = Count(steps, r) + Count(added[q], r)
      BY <1>2, CountUnion
    <2>3. Count(steps', r) = Count(steps \cup added[q], r)
      BY <1>1 DEF Count
    <2> QED
      BY <2>1, <2>2, <2>3
  <1>4. StepsOf(steps', r) = StepsOf(steps, r) \cup StepsOf(added[q], r)
    BY <1>1 DEF StepsOf
  <1>5. CASE r \in Changed(q)
    <2>1. total'[r] = session[q][r]
      BY <1>1, <1>5 DEF CommittedTotal
    <2>2. session[q][r] # NoRow /\ session[q][r] \in Nat
      BY <1>1, <1>5 DEF RequestInv, SessionWrites, IInv, TypeOK
    <2>3. session[q][r] <= Count(steps, r) + Count(added[q], r)
      BY <1>1, <2>2 DEF RequestInv, SessionCounts
    <2>4. session[q][r] = 0 => StepsOf(steps, r) = {} /\ StepsOf(added[q], r) = {}
      <3> SUFFICES ASSUME session[q][r] = 0
                   PROVE  StepsOf(steps, r) = {} /\ StepsOf(added[q], r) = {}
        OBVIOUS
      <3>1. StepsOf(added[q], r) = {} /\ r \in fresh[q]
        BY <1>1, <1>5 DEF RequestInv, SessionWrites
      <3>2. total[r] = NoRow
        BY <1>1, <1>5, <3>1, ChangedIsOwn
      <3> QED
        BY <3>1, <3>2 DEF IInv, SteppedRunIsCounted
    <2> QED
      BY <1>3, <1>4, <1>5, <2>1, <2>2, <2>3, <2>4
  <1>6. CASE r \notin Changed(q)
    <2>1. StepsOf(added[q], r) = {}
      BY <1>1, <1>6 DEF RequestInv, SessionWrites
    <2>2. total'[r] = total[r]
      BY <1>1, <1>6 DEF CommittedTotal
    <2> QED
      BY <1>3, <1>4, <1>6, <2>1, <2>2
  <1> QED
    BY <1>5, <1>6

LEMMA CommitIInv ==
  ASSUME IInv, NEW q \in Requests, Commit(q)
  PROVE  IInv'
  <1>1. /\ pc[q] = "commit" /\ CanFlush(q) /\ RequestInv(q)
        /\ total' = CommittedTotal(q) /\ steps' = steps \cup added[q]
        /\ runLock' = Released(q) /\ pc' = [pc EXCEPT ![q] = "ok"]
        /\ session' = [session EXCEPT ![q] = Nothing]
        /\ fresh' = [fresh EXCEPT ![q] = {}] /\ dirty' = [dirty EXCEPT ![q] = {}]
        /\ added' = [added EXCEPT ![q] = {}]
        /\ UNCHANGED <<content, at>>
    BY DEF Commit, IInv, Advance, CloseSession
  <1>2. total' \in [Runs -> Nat \cup {NoRow}]
    <2>1. total' = [r \in Runs |-> total'[r]]
      BY <1>1 DEF CommittedTotal
    <2>2. \A r \in Runs : total'[r] \in Nat \cup {NoRow}
      BY CommitRun DEF IInv, TypeOK
    <2> QED
      BY <2>1, <2>2
  <1>3. TypeOK'
    BY <1>1, <1>2 DEF IInv, TypeOK, Released, Nothing
  <1>4. AnsweredRows'
    <2>1. IsFiniteSet(steps')
      BY <1>1, FS_Union DEF IInv, AnsweredRows, RequestInv, OwnRows
    <2>2. ASSUME NEW s \in steps' PROVE pc'[s.by] = "ok"
      <3>1. CASE s \in steps
        BY <1>1, <3>1 DEF IInv, AnsweredRows, TypeOK, StepRow
      <3>2. CASE s \in added[q]
        BY <1>1, <3>2 DEF RequestInv, OwnRows, IInv, TypeOK
      <3> QED
        BY <1>1, <3>1, <3>2
    <2> QED
      BY <2>1, <2>2 DEF AnsweredRows
  <1>5. TotalAtMostSteps'
    <2> SUFFICES ASSUME NEW r \in Runs, total'[r] # NoRow
                 PROVE  total'[r] <= Count(steps', r)
      BY DEF TotalAtMostSteps, Count
    <2>1. CASE r \in Changed(q)
      BY <2>1, CommitRun
    <2>2. CASE r \notin Changed(q)
      BY <2>2, CommitRun DEF IInv, TotalAtMostSteps, Count
    <2> QED
      BY <2>1, <2>2
  <1>6. SteppedRunIsCounted'
    <2> SUFFICES ASSUME NEW r \in Runs, StepsOf(steps', r) # {}
                 PROVE  total'[r] # NoRow /\ total'[r] > 0
      BY DEF SteppedRunIsCounted
    <2>1. CASE r \in Changed(q)
      <3>1. total'[r] \in Nat /\ total'[r] # 0
        BY <2>1, CommitRun
      <3> QED
        BY <3>1
    <2>2. CASE r \notin Changed(q)
      BY <2>2, CommitRun DEF IInv, SteppedRunIsCounted
    <2> QED
      BY <2>1, <2>2
  <1>7. ASSUME NEW x \in Requests \ {q} PROVE RequestInv(x)'
    <2>1. /\ RequestInv(x)
          /\ pc'[x] = pc[x] /\ session'[x] = session[x] /\ fresh'[x] = fresh[x]
          /\ dirty'[x] = dirty[x] /\ added'[x] = added[x]
          /\ \A r \in Runs : runLock'[r] = x <=> runLock[r] = x
      BY <1>1 DEF IInv, TypeOK, Released
    <2>2. SessionClosed(x)' /\ AtEvent(x)' /\ OwnRows(x)'
      BY <1>1, <2>1 DEF RequestInv, SessionClosed, InFlight, AtEvent, OwnRows
    <2>3. SessionCounts(x)'
      <3> SUFFICES ASSUME NEW r \in Runs, session[x][r] # NoRow
                   PROVE  session[x][r] <= Count(steps', r) + Count(added[x], r)
        BY <2>1 DEF SessionCounts, Count
      <3>1. session[x][r] \in Nat /\ Count(added[x], r) \in Nat
        BY <2>1, CountType DEF IInv, TypeOK, RequestInv, OwnRows
      <3>2. session[x][r] <= Count(steps, r) + Count(added[x], r)
        BY <2>1 DEF RequestInv, SessionCounts
      <3>3. Count(steps, r) \in Nat /\ Count(added[q], r) \in Nat
            /\ Count(steps', r) = Count(steps, r) + Count(added[q], r)
        BY CommitRun
      <3> QED
        BY <3>1, <3>2, <3>3
    <2>4. \A r \in Runs : r \in Changed(x)' <=> r \in Changed(x)
      BY <2>1 DEF Changed
    <2>5. ASSUME NEW r \in Runs, r \in fresh[x], runLock[r] = x PROVE total'[r] = NoRow
      <3>1. total[r] = NoRow
        BY <2>1, <2>5 DEF RequestInv, SessionWrites
      <3>2. r \notin Changed(q)
        BY <1>1, <2>5, ChangedIsOwn
      <3> QED
        BY <3>1, <3>2, CommitRun
    <2>6. SessionWrites(x)'
      BY <2>1, <2>4, <2>5 DEF RequestInv, SessionWrites
    <2> QED
      BY <2>2, <2>3, <2>6 DEF RequestInv
  <1>8. RequestInv(q)'
    <2>1. /\ pc'[q] = "ok" /\ session'[q] = Nothing
          /\ fresh'[q] = {} /\ dirty'[q] = {} /\ added'[q] = {}
          /\ \A r \in Runs : runLock'[r] # q
      BY <1>1 DEF IInv, TypeOK, Released
    <2> QED
      BY <2>1, FS_EmptySet
      DEF RequestInv, SessionClosed, AtEvent, OwnRows, SessionCounts, SessionWrites,
          Nothing, Changed, StepsOf
  <1> QED
    BY <1>3, <1>4, <1>5, <1>6, <1>7, <1>8 DEF IInv
-----------------------------------------------------------------------------
(* The steps of Next, each with the requests it may be taken by. *)
LEMMA NextCases ==
  ASSUME Next
  PROVE  \/ \E q \in Adders, r \in Runs, n \in Numbers : AddStep(q, r, n)
         \/ \E b \in Batches :
               BatchStart(b) \/ GetRun(b) \/ TraceDone(b) \/ AddObservation(b)
         \/ \E q \in Requests : Commit(q)
         \/ \E q \in Requests, outcome \in {"error", "crashed"} :
               InFlight(q) /\ Rollback(q, outcome)
  BY DEF Next, BatchStep, RequestStep, AddSpan, FlushFails, DeadlockDetected, Crash,
         InFlight, Requests

LEMMA StutterIInv ==
  ASSUME IInv, UNCHANGED vars
  PROVE  IInv'
  <1>1. TypeOK' /\ AnsweredRows' /\ TotalAtMostSteps' /\ SteppedRunIsCounted'
    BY DEF IInv, vars, TypeOK, AnsweredRows, TotalAtMostSteps, SteppedRunIsCounted
  <1>2. ASSUME NEW q \in Requests PROVE RequestInv(q)'
    BY DEF IInv, vars, RequestInv, SessionClosed, InFlight, AtEvent, OwnRows,
           SessionCounts, Count, SessionWrites, Changed
  <1> QED
    BY <1>1, <1>2 DEF IInv

LEMMA NextIInv ==
  ASSUME IInv, [Next]_vars
  PROVE  IInv'
  <1>1. CASE UNCHANGED vars
    BY <1>1, StutterIInv
  <1>2. CASE Next
    BY <1>2, NextCases, AddStepIInv, BatchStartIInv, GetRunIInv, TraceDoneIInv,
       AddObservationIInv, CommitIInv, RollbackIInv
  <1> QED
    BY <1>1, <1>2

(* IInv is an inductive invariant. *)
THEOREM Invariance == Spec => []IInv
  BY InitIInv, NextIInv, PTL DEF Spec

(* Every variable keeps its type, the numbers the server chooses included.  *)
THEOREM TypeCorrect == Spec => []TypeOK
  <1>1. IInv => TypeOK
    BY DEF IInv
  <1> QED
    BY <1>1, Invariance, PTL

(* total_steps never exceeds the steps stored for the run. *)
THEOREM TotalsAreBounded == Spec => []TotalAtMostSteps
  <1>1. IInv => TotalAtMostSteps
    BY DEF IInv
  <1> QED
    BY <1>1, Invariance, PTL

(* A run that has steps has a row whose counter is not zero. *)
THEOREM SteppedRunsAreCounted == Spec => []SteppedRunIsCounted
  <1>1. IInv => SteppedRunIsCounted
    BY DEF IInv
  <1> QED
    BY <1>1, Invariance, PTL
-----------------------------------------------------------------------------
(* The observations of a batch before event k. *)
Observations(b, k) ==
    {i \in DOMAIN content[b] : i < k /\ content[b][i].kind = "observation"}

Positions(rows) == {s.pos : s \in rows}

StepsBy(b) == {s \in steps : s.by = b}

(* A batch in flight has added a row for each observation it has passed, and *)
(* has passed them all when it commits.                                      *)
BatchInv(b) ==
    /\ InFlight(b) => Positions(added[b]) = Observations(b, at[b])
    /\ pc[b] = "commit" => at[b] = Len(content[b]) + 1
    /\ Positions(StepsBy(b)) =
          IF pc[b] = "ok" THEN Observations(b, Len(content[b]) + 1) ELSE {}

LEMMA ContentType ==
  ASSUME IInv, NEW b \in Batches
  PROVE  /\ Len(content[b]) \in Nat /\ DOMAIN content[b] = 1 .. Len(content[b])
         /\ b \in Requests
  BY ContentsAssumption DEF IInv, TypeOK, Requests

(* A step that leaves alone what belongs to the batch. *)
LEMMA SameBatch ==
  ASSUME NEW b, BatchInv(b), UNCHANGED <<pc[b], added[b], content[b], at[b], StepsBy(b)>>
  PROVE  BatchInv(b)'
  BY DEF BatchInv, InFlight, Observations, Positions

LEMMA TraceDoneBatch ==
  ASSUME IInv, NEW b \in Batches, BatchInv(b), TraceDone(b)
  PROVE  BatchInv(b)'
  <1>1. /\ pc[b] = "open" /\ Event(b).kind = "trace-create" /\ NextEvent(b)
        /\ UNCHANGED <<steps, content, added>>
    BY DEF TraceDone
  <1>2. /\ at'[b] = at[b] + 1 /\ pc'[b] \in {"open", "commit"}
        /\ pc'[b] = "commit" => at[b] = Len(content[b])
        /\ at[b] \in 1 .. Len(content[b]) /\ DOMAIN content[b] = 1 .. Len(content[b])
        /\ Len(content[b]) \in Nat
    BY <1>1, EventType, NextEventType, ContentType
  <1>3. Observations(b, at[b] + 1) = Observations(b, at[b])
    BY <1>1, <1>2 DEF Observations, Event
  <1>4. Positions(StepsBy(b)) = {}
    BY <1>1 DEF BatchInv
  <1>5. /\ Positions(added'[b]) = Observations(b, at[b])
        /\ Observations(b, at[b])' = Observations(b, at[b] + 1)
        /\ Positions(StepsBy(b))' = {}
    BY <1>1, <1>2, <1>4 DEF BatchInv, InFlight, Observations, Positions, StepsBy
  <1> QED
    BY <1>1, <1>2, <1>3, <1>5 DEF BatchInv, Positions

LEMMA AddObservationBatch ==
  ASSUME IInv, NEW b \in Batches, BatchInv(b), AddObservation(b)
  PROVE  BatchInv(b)'
  <1> DEFINE r == Event(b).run
             n == IF Event(b).number = 0 THEN LastNumber(b, r) + 1 ELSE Event(b).number
             row == [run |-> r, number |-> n, by |-> b, pos |-> at[b]]
  <1>1. row.pos = at[b] /\ added' = [added EXCEPT ![b] = @ \cup {row}]
    BY DEF AddObservation
  <1> HIDE DEF row
  <1>2. /\ pc[b] = "open" /\ Event(b).kind = "observation" /\ NextEvent(b)
        /\ UNCHANGED <<steps, content>>
    BY DEF AddObservation
  <1>3. /\ at'[b] = at[b] + 1 /\ pc'[b] \in {"open", "commit"}
        /\ pc'[b] = "commit" => at[b] = Len(content[b])
        /\ at[b] \in 1 .. Len(content[b]) /\ DOMAIN content[b] = 1 .. Len(content[b])
        /\ Len(content[b]) \in Nat /\ b \in Requests
    BY <1>2, EventType, NextEventType, ContentType
  <1>4. Observations(b, at[b] + 1) = Observations(b, at[b]) \cup {at[b]}
    BY <1>2, <1>3 DEF Observations, Event
  <1>5. added'[b] = added[b] \cup {row}
    BY <1>1, <1>3 DEF IInv, TypeOK
  <1>6. Positions(added[b] \cup {row}) = Positions(added[b]) \cup {at[b]}
    BY <1>1 DEF Positions
  <1>7. Positions(added[b]) = Observations(b, at[b]) /\ Positions(StepsBy(b)) = {}
    BY <1>2 DEF BatchInv, InFlight
  <1>8. Observations(b, at[b])' = Observations(b, at[b] + 1)
    BY <1>2, <1>3 DEF Observations
  <1>9. Positions(StepsBy(b))' = {}
    BY <1>2, <1>7 DEF Positions, StepsBy
  <1>10. Positions(added[b])' = Observations(b, at[b])'
    BY <1>4, <1>5, <1>6, <1>7, <1>8 DEF Positions
  <1> QED
    BY <1>2, <1>3, <1>9, <1>10 DEF BatchInv

LEMMA CommitBatch ==
  ASSUME IInv, NEW b \in Batches, BatchInv(b), Commit(b)
  PROVE  BatchInv(b)'
  <1>1. /\ pc[b] = "commit" /\ pc'[b] = "ok"
        /\ steps' = steps \cup added[b] /\ UNCHANGED content
    BY ContentType DEF Commit, Advance, IInv, TypeOK
  <1>2. StepsBy(b)' = added[b]
    <2>1. \A s \in steps : s.by # b
      BY <1>1 DEF IInv, AnsweredRows
    <2>2. \A s \in added[b] : s.by = b
      BY ContentType DEF IInv, RequestInv, OwnRows
    <2> QED
      BY <1>1, <2>1, <2>2 DEF StepsBy
  <1>3. Positions(added[b]) = Observations(b, Len(content[b]) + 1)
    BY <1>1 DEF BatchInv, InFlight
  <1>4. Observations(b, Len(content[b]) + 1)' = Observations(b, Len(content[b]) + 1)
    BY <1>1 DEF Observations
  <1>5. Positions(StepsBy(b))' = Observations(b, Len(content[b]) + 1)'
    BY <1>2, <1>3, <1>4 DEF Positions
  <1> QED
    BY <1>1, <1>5 DEF BatchInv, InFlight

LEMMA NextBatchInv ==
  ASSUME IInv, [Next]_vars, NEW b \in Batches, BatchInv(b)
  PROVE  BatchInv(b)'
  <1>1. CASE UNCHANGED vars
    BY <1>1, SameBatch DEF vars, StepsBy
  <1>2. ASSUME NEW q \in Adders, NEW r \in Runs, NEW n \in Numbers, AddStep(q, r, n)
        PROVE  BatchInv(b)'
    <2>1. UNCHANGED <<pc[b], added[b], content[b], at[b], StepsBy(b)>>
      BY <1>2 DEF AddStep, Advance, StepsBy, IInv, TypeOK, Requests
    <2> QED
      BY <2>1, SameBatch
  <1>3. ASSUME NEW x \in Batches, BatchStart(x) PROVE BatchInv(b)'
    <2>1. /\ pc[x] = "idle" /\ pc' = [pc EXCEPT ![x] = "open"]
          /\ at' = [at EXCEPT ![x] = 1] /\ UNCHANGED <<steps, added>>
          /\ \A y \in Batches \ {x} : content'[y] = content[y]
      BY <1>3 DEF BatchStart, Advance, IInv, TypeOK
    <2>2. CASE x = b
      <3>1. pc'[b] = "open" /\ at'[b] = 1 /\ added'[b] = {}
        BY <2>1, <2>2, ContentType
        DEF IInv, TypeOK, RequestInv, SessionClosed, InFlight
      <3>2. Observations(b, at[b])' = {}
        <4>1. \A i \in DOMAIN content'[b] : i \in Int /\ i >= 1
          BY <1>3, <2>2, ContentsAssumption DEF BatchStart, IInv, TypeOK
        <4> QED
          BY <3>1, <4>1 DEF Observations
      <3>3. Positions(StepsBy(b))' = {}
        BY <2>1, <2>2 DEF BatchInv, Positions, StepsBy
      <3> QED
        BY <3>1, <3>2, <3>3 DEF BatchInv, Positions
    <2>3. CASE x # b
      <3>1. UNCHANGED <<pc[b], added[b], content[b], at[b], StepsBy(b)>>
        BY <2>1, <2>3 DEF StepsBy, IInv, TypeOK, Requests
      <3> QED
        BY <3>1, SameBatch
    <2> QED
      BY <2>2, <2>3
  <1>4. ASSUME NEW x \in Batches, GetRun(x) PROVE BatchInv(b)'
    BY <1>4, SameBatch DEF GetRun, StepsBy
  <1>5. ASSUME NEW x \in Batches, TraceDone(x) \/ AddObservation(x) PROVE BatchInv(b)'
    <2>1. CASE x = b
      BY <1>5, <2>1, TraceDoneBatch, AddObservationBatch
    <2>2. CASE x # b
      <3>1. UNCHANGED <<pc[b], added[b], content[b], at[b], StepsBy(b)>>
        BY <1>5, <2>2, NextEventType, ContentType
        DEF TraceDone, AddObservation, StepsBy, IInv, TypeOK
      <3> QED
        BY <3>1, SameBatch
    <2> QED
      BY <2>1, <2>2
  <1>6. ASSUME NEW q \in Requests, Commit(q) PROVE BatchInv(b)'
    <2>1. CASE q = b
      BY <1>6, <2>1, CommitBatch
    <2>2. CASE q # b
      <3>1. \A s \in added[q] : s.by = q
        BY DEF IInv, RequestInv, OwnRows
      <3>2. UNCHANGED <<pc[b], added[b], content[b], at[b], StepsBy(b)>>
        BY <1>6, <2>2, <3>1 DEF Commit, Advance, CloseSession, StepsBy, IInv, TypeOK
      <3> QED
        BY <3>2, SameBatch
    <2> QED
      BY <2>1, <2>2
  <1>7. ASSUME NEW q \in Requests, NEW outcome \in {"error", "crashed"},
               InFlight(q), Rollback(q, outcome)
        PROVE  BatchInv(b)'
    <2>1. CASE q = b
      <3>1. /\ pc[b] # "ok" /\ pc'[b] \in {"error", "crashed"} /\ UNCHANGED steps
        BY <1>7, <2>1 DEF Rollback, Advance, InFlight, IInv, TypeOK
      <3>2. Positions(StepsBy(b))' = {}
        BY <3>1 DEF BatchInv, Positions, StepsBy
      <3> QED
        BY <3>1, <3>2 DEF BatchInv, InFlight
    <2>2. CASE q # b
      <3>1. UNCHANGED <<pc[b], added[b], content[b], at[b], StepsBy(b)>>
        BY <1>7, <2>2 DEF Rollback, Advance, CloseSession, StepsBy, IInv, TypeOK
      <3> QED
        BY <3>1, SameBatch
    <2> QED
      BY <2>1, <2>2
  <1> QED
    BY <1>1, <1>2, <1>3, <1>4, <1>5, <1>6, <1>7, NextCases

(* A batch stores all of its observations when it succeeds and none         *)
(* otherwise, whatever its SELECTs flushed and whoever aborted it.          *)
THEOREM BatchesAreAtomic == Spec => []BatchAllOrNothing
  <1> DEFINE Inv == IInv /\ \A b \in Batches : BatchInv(b)
  <1>1. Init => Inv
    <2>1. ASSUME Init, NEW b \in Batches PROVE BatchInv(b)
      BY <2>1 DEF Init, BatchInv, InFlight, Positions, StepsBy, Requests
    <2> QED
      BY <2>1, InitIInv
  <1>2. Inv /\ [Next]_vars => Inv'
    BY NextIInv, NextBatchInv
  <1>3. Inv => BatchAllOrNothing
    <2> SUFFICES ASSUME Inv, NEW b \in Batches
                 PROVE  {s.pos : s \in {x \in steps : x.by = b}} =
                          IF pc[b] = "ok"
                          THEN {i \in DOMAIN content[b] :
                                  content[b][i].kind = "observation"}
                          ELSE {}
      BY DEF BatchAllOrNothing
    <2>1. Observations(b, Len(content[b]) + 1) =
            {i \in DOMAIN content[b] : content[b][i].kind = "observation"}
      BY ContentType DEF Observations
    <2> QED
      BY <2>1 DEF BatchInv, Positions, StepsBy
  <1> QED
    BY <1>1, <1>2, <1>3, PTL DEF Spec

-----------------------------------------------------------------------------
(* Of two rows of a run, a later one that the server numbered is numbered   *)
(* higher.                                                                  *)
Increasing(rows, events) ==
    \A s, t \in rows :
        s.run = t.run /\ s.pos < t.pos /\ events[t.pos].number = 0
            => s.number < t.number

OrderInv(b) == Increasing(added[b], content[b]) /\ Increasing(StepsBy(b), content[b])

LEMMA SameOrder ==
  ASSUME NEW b, OrderInv(b), UNCHANGED <<added[b], content[b], StepsBy(b)>>
  PROVE  OrderInv(b)'
  BY DEF OrderInv, Increasing

(* The new row comes after those of the session, and its number, if the     *)
(* server chooses it, is above theirs.                                      *)
LEMMA AddObservationOrder ==
  ASSUME IInv, NEW b \in Batches, OrderInv(b), AddObservation(b)
  PROVE  OrderInv(b)'
  <1> DEFINE r == Event(b).run
             n == IF Event(b).number = 0 THEN LastNumber(b, r) + 1 ELSE Event(b).number
             row == [run |-> r, number |-> n, by |-> b, pos |-> at[b]]
  <1>1. /\ row.run = r /\ row.pos = at[b]
        /\ Event(b).number = 0 => row.number = LastNumber(b, r) + 1
        /\ added' = [added EXCEPT ![b] = @ \cup {row}]
    BY DEF AddObservation
  <1>2. pc[b] = "open" /\ UNCHANGED <<steps, content>>
    BY DEF AddObservation
  <1>3. b \in Requests /\ r \in Runs /\ at[b] \in Nat
    BY <1>2, EventType
  <1> HIDE DEF row
  <1>4. added'[b] = added[b] \cup {row}
    BY <1>1, <1>3 DEF IInv, TypeOK
  <1>5. \A s \in added[b] : s.pos < at[b] /\ s.pos \in Nat /\ s.number \in Nat
    BY <1>2, <1>3 DEF IInv, RequestInv, AtEvent, TypeOK, StepRow
  <1>6. ASSUME NEW s \in added[b], s.run = r, Event(b).number = 0
        PROVE  s.number < row.number
    <2>1. s \in StepsOf(steps \cup added[b], r)
      BY <1>6 DEF StepsOf
    <2>2. LastNumber(b, r) \in Nat /\ s.number <= LastNumber(b, r)
      BY <1>3, <2>1, LastNumberOf
    <2> QED
      BY <1>1, <1>5, <1>6, <2>2
  <1>7. Increasing(added'[b], content[b])
    <2> SUFFICES ASSUME NEW s \in added[b] \cup {row}, NEW t \in added[b] \cup {row},
                        s.run = t.run, s.pos < t.pos, content[b][t.pos].number = 0
                 PROVE  s.number < t.number
      BY <1>4 DEF Increasing
    <2>1. CASE t = row
      BY <1>1, <1>3, <1>5, <1>6, <2>1 DEF Event
    <2>2. CASE s = row /\ t \in added[b]
      BY <1>1, <1>3, <1>5, <2>2
    <2>3. CASE s \in added[b] /\ t \in added[b]
      BY <2>3 DEF OrderInv, Increasing
    <2> QED
      BY <2>1, <2>2, <2>3
  <1> QED
    BY <1>2, <1>7 DEF OrderInv, Increasing, StepsBy

LEMMA CommitOrder ==
  ASSUME IInv, NEW b \in Batches, OrderInv(b), Commit(b)
  PROVE  OrderInv(b)'
  <1>1. /\ pc[b] = "commit" /\ added'[b] = {}
        /\ steps' = steps \cup added[b] /\ UNCHANGED content
    BY ContentType DEF Commit, CloseSession, IInv, TypeOK
  <1>2. StepsBy(b)' = added[b]
    <2>1. \A s \in steps : s.by # b
      BY <1>1 DEF IInv, AnsweredRows
    <2>2. \A s \in added[b] : s.by = b
      BY ContentType DEF IInv, RequestInv, OwnRows
    <2> QED
      BY <1>1, <2>1, <2>2 DEF StepsBy
  <1> QED
    BY <1>1, <1>2 DEF OrderInv, Increasing

LEMMA NextOrderInv ==
  ASSUME IInv, [Next]_vars, NEW b \in Batches, OrderInv(b)
  PROVE  OrderInv(b)'
  <1>1. CASE UNCHANGED vars
    BY <1>1, SameOrder DEF vars, StepsBy
  <1>2. ASSUME NEW q \in Adders, NEW r \in Runs, NEW n \in Numbers, AddStep(q, r, n)
        PROVE  OrderInv(b)'
    <2>1. UNCHANGED <<added[b], content[b], StepsBy(b)>>
      BY <1>2 DEF AddStep, StepsBy, IInv, TypeOK, Requests
    <2> QED
      BY <2>1, SameOrder
  <1>3. ASSUME NEW x \in Batches, BatchStart(x) PROVE OrderInv(b)'
    <2>1. /\ pc[x] = "idle" /\ UNCHANGED <<steps, added>>
          /\ \A y \in Batches \ {x} : content'[y] = content[y]
      BY <1>3 DEF BatchStart, IInv, TypeOK
    <2>2. CASE x = b
      <3>1. added[b] = {} /\ StepsBy(b) = {}
        BY <2>1, <2>2, ContentType
        DEF IInv, RequestInv, SessionClosed, InFlight, AnsweredRows, StepsBy
      <3> QED
        BY <2>1, <3>1 DEF OrderInv, Increasing, StepsBy
    <2>3. CASE x # b
      BY <2>1, <2>3, SameOrder DEF StepsBy
    <2> QED
      BY <2>2, <2>3
  <1>4. ASSUME NEW x \in Batches, GetRun(x) \/ TraceDone(x) PROVE OrderInv(b)'
    BY <1>4, SameOrder DEF GetRun, TraceDone, StepsBy
  <1>5. ASSUME NEW x \in Batches, AddObservation(x) PROVE OrderInv(b)'
    <2>1. CASE x = b
      BY <1>5, <2>1, AddObservationOrder
    <2>2. CASE x # b
      <3>1. UNCHANGED <<added[b], content[b], StepsBy(b)>>
        BY <1>5, <2>2, ContentType DEF AddObservation, StepsBy, IInv, TypeOK
      <3> QED
        BY <3>1, SameOrder
    <2> QED
      BY <2>1, <2>2
  <1>6. ASSUME NEW q \in Requests, Commit(q) PROVE OrderInv(b)'
    <2>1. CASE q = b
      BY <1>6, <2>1, CommitOrder
    <2>2. CASE q # b
      <3>1. \A s \in added[q] : s.by = q
        BY DEF IInv, RequestInv, OwnRows
      <3>2. UNCHANGED <<added[b], content[b], StepsBy(b)>>
        BY <1>6, <2>2, <3>1 DEF Commit, CloseSession, StepsBy, IInv, TypeOK
      <3> QED
        BY <3>2, SameOrder
    <2> QED
      BY <2>1, <2>2
  <1>7. ASSUME NEW q \in Requests, NEW outcome \in {"error", "crashed"},
               InFlight(q), Rollback(q, outcome)
        PROVE  OrderInv(b)'
    <2>1. UNCHANGED <<steps, content>> /\ added'[b] \in {added[b], {}}
      BY <1>7, ContentType DEF Rollback, CloseSession, IInv, TypeOK
    <2> QED
      BY <2>1 DEF OrderInv, Increasing, StepsBy
  <1> QED
    BY <1>1, <1>2, <1>3, <1>4, <1>5, <1>6, <1>7, NextCases

(* The observations of a batch that the server numbers increase, although   *)
(* none is committed when the next one's number is taken.                   *)
THEOREM NumbersIncrease == Spec => []AutoNumbersIncrease
  <1> DEFINE Inv == IInv /\ \A b \in Batches : OrderInv(b)
  <1>1. Init => Inv
    <2>1. ASSUME Init, NEW b \in Batches PROVE OrderInv(b)
      BY <2>1 DEF Init, OrderInv, Increasing, StepsBy, Requests
    <2> QED
      BY <2>1, InitIInv
  <1>2. Inv /\ [Next]_vars => Inv'
    BY NextIInv, NextOrderInv
  <1>3. Inv => AutoNumbersIncrease
    BY DEF AutoNumbersIncrease, OrderInv, Increasing, StepsBy
  <1> QED
    BY <1>1, <1>2, <1>3, PTL DEF Spec

-----------------------------------------------------------------------------
(* Every commit appends to the log and every other step leaves it alone.    *)
THEOREM ImplementsLog == Spec => LogSpec
  <1>1. Init => Log!Init
    BY DEF Init, Log!Init, Nothing
  <1>2. ASSUME IInv, [Next]_vars PROVE [Log!Next]_(Log!vars)
    <2>1. ASSUME NEW q \in Requests, Commit(q) PROVE Log!Append(q)
      <3>1. /\ pc[q] = "commit" /\ steps' = steps \cup added[q]
            /\ \A s \in added[q] : s.by = q
        BY <1>2, <2>1 DEF Commit, IInv, RequestInv, OwnRows
      <3>2. \A s \in steps : s.by # q
        BY <1>2, <3>1 DEF IInv, AnsweredRows
      <3>3. ASSUME NEW r \in Runs
            PROVE  \/ /\ total'[r] = total[r]
                      /\ Log!StepsOf(steps', r) = Log!StepsOf(steps, r)
                   \/ /\ total'[r] \in 0 .. Cardinality(Log!StepsOf(steps', r))
                      /\ total'[r] = 0 => Log!StepsOf(steps', r) = {}
        <4>1. /\ Log!StepsOf(steps', r) = StepsOf(steps', r)
              /\ Log!StepsOf(steps, r) = StepsOf(steps, r)
          BY DEF Log!StepsOf, StepsOf
        <4>2. CASE r \in Changed(q)
          <5>1. /\ Count(steps, r) + Count(added[q], r) \in Nat
                /\ Count(steps', r) = Count(steps, r) + Count(added[q], r)
                /\ total'[r] \in Nat /\ total'[r] <= Count(steps', r)
                /\ total'[r] = 0 => StepsOf(steps', r) = {}
            BY <1>2, <2>1, <4>2, CommitRun
          <5> QED
            BY <4>1, <5>1 DEF Count
        <4>3. CASE r \notin Changed(q)
          BY <1>2, <2>1, <4>1, <4>3, CommitRun
        <4> QED
          BY <4>2, <4>3
      <3>4. steps \subseteq steps' /\ \A s \in steps' \ steps : s.by = q
        BY <3>1
      <3>5. \A r \in Runs :
              Log!Cardinality(Log!StepsOf(steps', r)) = Cardinality(Log!StepsOf(steps', r))
        BY DEF Log!Cardinality, Cardinality
      <3> QED
        BY <3>2, <3>3, <3>4, <3>5 DEF Log!Append
    <2>2. CASE UNCHANGED <<total, steps>>
      BY <2>2 DEF Log!vars
    <2>3. CASE \E q \in Requests : Commit(q)
      BY <2>1, <2>3 DEF Log!Next
    <2>4. UNCHANGED <<total, steps>> \/ \E q \in Requests : Commit(q)
      BY <1>2, NextCases
      DEF vars, AddStep, BatchStart, GetRun, TraceDone, AddObservation, Rollback
    <2> QED
      BY <2>2, <2>3, <2>4
  <1> QED
    BY <1>1, <1>2, Invariance, PTL DEF Spec, LogSpec, Log!Spec
-----------------------------------------------------------------------------
(***************************************************************************)
(* Deadlocks and progress: the safety facts behind EveryRequestAnswered.   *)
(***************************************************************************)

Waiting == {q \in Requests : InFlight(q)}

(* A session flushes one run at a time, so a request waits for at most one  *)
(* other; an add_step request flushes at its commit, so it holds no lock    *)
(* while it waits.                                                          *)
WaitInv ==
    /\ IsFiniteSet(Waiting)
    /\ \A q \in Requests : \A r, s \in dirty[q] : r = s
    /\ \A q \in Adders : pc[q] # "open" /\ \A r \in Runs : runLock[r] # q

LEMMA WaitingGrowsByOne ==
  ASSUME WaitInv, NEW q \in Requests, \A x \in Requests \ {q} : pc'[x] = pc[x]
  PROVE  IsFiniteSet(Waiting')
  <1>1. Waiting' \subseteq Waiting \cup {q}
    BY DEF Waiting, InFlight
  <1> QED
    BY <1>1, FS_AddElement, FS_Subset DEF WaitInv

LEMMA WaitStep ==
  ASSUME IInv, WaitInv, [Next]_vars
  PROVE  WaitInv'
  <1>1. CASE UNCHANGED vars
    BY <1>1 DEF vars, WaitInv, Waiting, InFlight
  <1>2. ASSUME NEW q \in Adders, NEW r \in Runs, NEW n \in Numbers, AddStep(q, r, n)
        PROVE  WaitInv'
    <2>1. q \in Requests /\ q \notin Batches /\ UNCHANGED runLock
      BY <1>2 DEF AddStep, Requests
    <2>2. /\ pc'[q] # "open" /\ \A x \in Requests \ {q} : pc'[x] = pc[x]
          /\ \A x \in Requests \ {q} : dirty'[x] = dirty[x]
          /\ dirty'[q] = dirty[q] \/ dirty'[q] = {r}
      BY <1>2, <2>1 DEF AddStep, Advance, IInv, TypeOK
    <2> QED
      BY <2>1, <2>2, WaitingGrowsByOne DEF WaitInv, Requests
  <1>3. ASSUME NEW b \in Batches, BatchStart(b) \/ TraceDone(b)
        PROVE  WaitInv'
    <2>1. b \in Requests /\ b \notin Adders /\ UNCHANGED <<runLock, dirty>>
      BY <1>3 DEF BatchStart, TraceDone, Requests
    <2>2. \A x \in Requests \ {b} : pc'[x] = pc[x]
      BY <1>3 DEF BatchStart, TraceDone, NextEvent, Advance, IInv, TypeOK
    <2> QED
      BY <2>1, <2>2, WaitingGrowsByOne DEF WaitInv, Requests
  <1>4. ASSUME NEW b \in Batches, GetRun(b) \/ AddObservation(b)
        PROVE  WaitInv'
    <2>1. b \in Requests /\ b \notin Adders /\ CanFlush(b) /\ runLock' = Flushed(b)
      BY <1>4 DEF GetRun, AddObservation, Requests
    <2>2. \A x \in Requests \ {b} : pc'[x] = pc[x]
      BY <1>4, <2>1 DEF GetRun, AddObservation, NextEvent, Advance, IInv, TypeOK
    <2>3. /\ \A x \in Requests \ {b} : dirty'[x] = dirty[x]
          /\ dirty'[b] = {} \/ \E r \in Runs : dirty'[b] = {r}
      <3>1. pc[b] = "open"
        BY <1>4 DEF GetRun, AddObservation
      <3>2. Event(b).run \in Runs
        BY <3>1, EventType
      <3>3. dirty' = [dirty EXCEPT ![b] = {}]
            \/ dirty' = [dirty EXCEPT ![b] = {Event(b).run}]
        BY <1>4 DEF GetRun, AddObservation
      <3> QED
        BY <2>1, <3>2, <3>3 DEF IInv, TypeOK
    <2>4. \A x \in Adders, r \in Runs : runLock'[r] # x
      BY <2>1, FlushLocks DEF WaitInv, Requests
    <2> QED
      BY <2>1, <2>2, <2>3, <2>4, WaitingGrowsByOne DEF WaitInv, Requests
  <1>5. ASSUME NEW q \in Requests,
               Commit(q) \/ \E outcome \in {"error", "crashed"} : Rollback(q, outcome)
        PROVE  WaitInv'
    <2>1. /\ runLock' = Released(q) /\ dirty' = [dirty EXCEPT ![q] = {}]
          /\ pc'[q] # "open" /\ \A x \in Requests \ {q} : pc'[x] = pc[x]
      BY <1>5 DEF Commit, Rollback, CloseSession, Advance, IInv, TypeOK
    <2>2. \A x \in Adders, r \in Runs : runLock'[r] # x
      BY <2>1 DEF Released, WaitInv, Requests
    <2>3. \A x \in Requests : \A r, s \in dirty'[x] : r = s
      BY <2>1 DEF WaitInv, IInv, TypeOK
    <2> QED
      BY <2>1, <2>2, <2>3, WaitingGrowsByOne DEF WaitInv, Requests
  <1> QED
    BY <1>1, <1>2, <1>3, <1>4, <1>5, NextCases

LEMMA WaitInvariance == Spec => []WaitInv
  <1>1. Init => WaitInv
    <2> SUFFICES ASSUME Init PROVE WaitInv
      OBVIOUS
    <2>1. Waiting = {}
      BY DEF Init, Waiting, InFlight
    <2> QED
      BY <2>1, FS_EmptySet DEF Init, WaitInv, Requests
  <1>2. IInv /\ WaitInv /\ [Next]_vars => WaitInv'
    BY WaitStep
  <1> QED
    BY <1>1, <1>2, Invariance, PTL DEF Spec

(* The condition of the next step of a request in flight: its commit, its   *)
(* next event, or the error of its insert.                                  *)
CanGo(q) ==
    /\ InFlight(q)
    /\ \/ CanFlush(q)
       \/ \E r \in dirty[q] \cap fresh[q] : runLock[r] = NoOne /\ total[r] # NoRow
       \/ /\ q \in Batches /\ pc[q] = "open"
          /\ Event(q).kind = "trace-create" /\ session[q][Event(q).run] # NoRow

(* What PostgreSQL looks for: the condition of DeadlockDetected. *)
InCycle(q) ==
    \E S \in SUBSET Batches :
        q \in S /\ {BlockedBy(x) : x \in S} = {{x} : x \in S}

(* CanGo asks no more than the request's own steps do, and those that       *)
(* PostgreSQL aborts are in a cycle.                                        *)
LEMMA StepsCanGo ==
  ASSUME NEW q \in Requests, InFlight(q)
  PROVE  /\ RequestStep(q) => CanGo(q) \/ InCycle(q)
         /\ q \in Batches /\ BatchStep(q) => CanGo(q)
  BY DEF RequestStep, Commit, FlushFails, DeadlockDetected, BatchStep, GetRun, TraceDone,
         AddObservation, AddSpan, CanGo, InCycle

(* A request that cannot go waits for exactly one other, a batch in flight. *)
LEMMA BlockedByOne ==
  ASSUME IInv, WaitInv, NEW q \in Requests, InFlight(q), ~CanGo(q)
  PROVE  \E h \in Batches : InFlight(h) /\ BlockedBy(q) = {h}
  <1>1. PICK r \in dirty[q] :
            ~(\/ runLock[r] = q
              \/ runLock[r] = NoOne /\ (r \in fresh[q] => total[r] = NoRow))
    BY DEF CanGo, CanFlush
  <1>2. r \in Runs /\ runLock[r] \in Requests \cup {NoOne}
    BY <1>1 DEF IInv, TypeOK
  <1>3. runLock[r] # q /\ runLock[r] # NoOne
    BY <1>1 DEF CanGo
  <1>4. dirty[q] = {r}
    BY <1>1 DEF WaitInv
  <1>5. BlockedBy(q) = {runLock[r]}
    BY <1>3, <1>4 DEF BlockedBy
  <1>6. InFlight(runLock[r])
    BY <1>2, <1>3 DEF IInv, RequestInv, SessionClosed
  <1>7. runLock[r] \in Batches
    BY <1>2, <1>3 DEF WaitInv, Requests
  <1> QED
    BY <1>5, <1>6, <1>7

(* Requests in flight that wait for each other only. *)
ClosedWait(T) ==
    /\ T # {} /\ T \subseteq Waiting
    /\ \A q \in T : BlockedBy(q) \subseteq T

(* Among any requests that wait for each other only, one can go, or         *)
(* PostgreSQL finds a cycle to break.                                       *)
NoClosedWait ==
    \A T \in SUBSET Requests :
        ClosedWait(T) => \E q \in T : CanGo(q) \/ InCycle(q)

(* Otherwise a smallest such set would consist of its members' blockers,    *)
(* and be a cycle.                                                          *)
LEMMA ClosedWaitsGo ==
  ASSUME IInv, WaitInv, NEW T \in SUBSET Requests, ClosedWait(T)
  PROVE  \E q \in T : CanGo(q) \/ InCycle(q)
  <1> SUFFICES ASSUME \A q \in T : ~CanGo(q)
               PROVE  \E q \in T : InCycle(q)
    OBVIOUS
  <1> DEFINE F == {S \in SUBSET T : ClosedWait(S)}
             R == StrictSubsetOrdering(T)
  <1>1. IsFiniteSet(T)
    BY FS_Subset DEF WaitInv, ClosedWait
  <1>2. IsWellFoundedOn(R, FiniteSubsetsOf(T))
    BY <1>1, FS_StrictSubsetOrderingWellFounded
  <1>3. F # {} /\ F \subseteq FiniteSubsetsOf(T)
    <2>1. ASSUME NEW S \in SUBSET T PROVE S \in FiniteSubsetsOf(T)
      BY <1>1, <2>1, FS_Subset DEF FiniteSubsetsOf
    <2> QED
      BY <2>1
  <1>4. \E x \in F : \A y \in F : <<y, x>> \notin R
    <2> HIDE DEF F, R
    <2> QED
      BY <1>2, <1>3, WFMin
  <1>5. PICK S \in F : \A U \in F : <<U, S>> \notin R
    BY <1>4
  <1>6. S \subseteq T /\ ClosedWait(S)
    OBVIOUS
  <1>7. ASSUME NEW q \in S PROVE \E h \in Batches \cap S : BlockedBy(q) = {h}
    <2>0. q \in Requests /\ InFlight(q) /\ ~CanGo(q)
      BY <1>6 DEF ClosedWait, Waiting
    <2>1. PICK h \in Batches : InFlight(h) /\ BlockedBy(q) = {h}
      BY <2>0, BlockedByOne
    <2>2. BlockedBy(q) \subseteq S
      BY <1>6 DEF ClosedWait
    <2>3. h \in S
      BY <2>1, <2>2
    <2> HIDE DEF F
    <2> QED
      BY <2>1, <2>3
  <1> DEFINE U == {h \in Batches \cap S : \E q \in S : BlockedBy(q) = {h}}
  <1>8. ClosedWait(U)
    <2>1. U # {} /\ U \subseteq Waiting
      BY <1>6, <1>7 DEF ClosedWait
    <2>2. ASSUME NEW h \in U PROVE BlockedBy(h) \subseteq U
      BY <1>7
    <2> QED
      BY <2>1, <2>2 DEF ClosedWait
  <1>9. U = S
    <2>1. U \in F
      BY <1>6, <1>8
    <2>2. <<U, S>> \notin R
      BY <1>5, <2>1
    <2>3. U \subseteq S /\ S \subseteq T
      BY <1>6
    <2> HIDE DEF U, F
    <2> QED
      BY <2>2, <2>3 DEF StrictSubsetOrdering
  <1>10. {BlockedBy(x) : x \in S} = {{x} : x \in S}
    <2>1. ASSUME NEW x \in S PROVE \E y \in S : BlockedBy(x) = {y}
      BY <1>7
    <2>2. ASSUME NEW y \in S PROVE \E x \in S : BlockedBy(x) = {y}
      BY <1>9
    <2> HIDE DEF F, U
    <2>3. {BlockedBy(x) : x \in S} \subseteq {{x} : x \in S}
      BY <2>1, Zenon
    <2>4. {{x} : x \in S} \subseteq {BlockedBy(x) : x \in S}
      <3> SUFFICES ASSUME NEW y \in S PROVE {y} \in {BlockedBy(x) : x \in S}
        BY Zenon
      <3>1. PICK x \in S : BlockedBy(x) = {y}
        BY <2>2
      <3> QED
        BY <3>1, Zenon
    <2> QED
      BY <2>3, <2>4
  <1>11. S \in SUBSET Batches
    BY <1>9
  <1>12. \A q \in S : InCycle(q)
    BY <1>10, <1>11 DEF InCycle
  <1> QED
    BY <1>6, <1>12 DEF ClosedWait

(* Nothing waits for ever but in a cycle that PostgreSQL breaks: follow the *)
(* locks from any request in flight, and one that can go, or is aborted, is *)
(* among those it waits for.                                                *)
THEOREM DeadlocksAreBroken == Spec => []NoClosedWait
  <1>1. IInv /\ WaitInv => NoClosedWait
    BY ClosedWaitsGo DEF NoClosedWait
  <1> QED
    BY <1>1, Invariance, WaitInvariance, PTL

(* How far a request in flight has come: past the events before at[q] and,  *)
(* for an odd number, with the run of its event in the session.             *)
Measure(q) ==
    IF q \in Batches /\ pc[q] = "open"
    THEN 2 * at[q] + (IF session[q][Event(q).run] # NoRow THEN 1 ELSE 0)
    ELSE IF q \in Batches THEN 2 * at[q] ELSE 0

(* One request moves: it begins, it ends, or it comes further.              *)
Forward ==
    \E q \in Requests :
        /\ \A x \in Requests \ {q} : pc'[x] = pc[x] /\ Measure(x)' = Measure(x)
        /\ \/ pc[q] = "idle"
           \/ InFlight(q) /\ ~InFlight(q)'
           \/ /\ InFlight(q) /\ InFlight(q)'
              /\ Measure(q) < Measure(q)'
              /\ Measure(q)' <= 2 * Len(content[q]) + 2

LEMMA BatchForward ==
  ASSUME IInv, NEW b \in Batches, GetRun(b) \/ TraceDone(b) \/ AddObservation(b)
  PROVE  /\ InFlight(b) /\ InFlight(b)'
         /\ Measure(b) < Measure(b)' /\ Measure(b)' <= 2 * Len(content[b]) + 2
  <1>1. pc[b] = "open"
    BY DEF GetRun, TraceDone, AddObservation
  <1>2. /\ b \in Requests /\ Len(content[b]) \in Nat /\ at[b] \in 1 .. Len(content[b])
        /\ Event(b).run \in Runs
    BY <1>1, EventType
  <1>3. /\ Measure(b) = 2 * at[b] + (IF session[b][Event(b).run] # NoRow THEN 1 ELSE 0)
        /\ Measure(b) \in {2 * at[b], 2 * at[b] + 1}
    BY <1>1, <1>2 DEF Measure
  <1>4. CASE GetRun(b)
    <2>1. /\ UNCHANGED <<pc, at, content>> /\ session[b][Event(b).run] = NoRow
          /\ \E n \in Nat : session' = [session EXCEPT ![b][Event(b).run] = n]
      BY <1>2, <1>4 DEF GetRun, IInv, TypeOK
    <2>2. Event(b)' = Event(b) /\ session'[b][Event(b).run] # NoRow
      BY <1>2, <2>1 DEF Event, IInv, TypeOK
    <2>3. Measure(b) = 2 * at[b] /\ Measure(b)' = 2 * at[b] + 1
      BY <1>1, <1>2, <1>3, <2>1, <2>2 DEF Measure
    <2> QED
      BY <1>1, <1>2, <2>1, <2>3 DEF InFlight
  <1>5. CASE TraceDone(b) \/ AddObservation(b)
    <2>1. NextEvent(b)
      BY <1>5 DEF TraceDone, AddObservation
    <2>2. /\ at'[b] = at[b] + 1 /\ pc'[b] \in {"open", "commit"}
          /\ pc'[b] = "open" => at'[b] \in 1 .. Len(content[b])
      BY <1>1, <2>1, NextEventType
    <2>3. Measure(b)' \in {2 * at'[b], 2 * at'[b] + 1}
          /\ (pc'[b] = "commit" => Measure(b)' = 2 * at'[b])
      BY <2>2 DEF Measure
    <2>4. Measure(b) < Measure(b)' /\ Measure(b)' <= 2 * Len(content[b]) + 2
      BY <1>2, <1>3, <2>2, <2>3
    <2> QED
      BY <1>1, <2>2, <2>4 DEF InFlight
  <1> QED
    BY <1>4, <1>5

(* A step of one request leaves every other one where it is. *)
LEMMA OthersStay ==
  ASSUME IInv, NEW q \in Requests,
         \A x \in Requests \ {q} :
             /\ pc'[x] = pc[x] /\ session'[x] = session[x]
             /\ x \in Batches => content'[x] = content[x] /\ at'[x] = at[x]
  PROVE  \A x \in Requests \ {q} : pc'[x] = pc[x] /\ Measure(x)' = Measure(x)
  BY DEF Measure, Event

(* Requests come and go forward only: a batch of n events ends within       *)
(* 2n + 2 of its own steps, none of which another request can undo, and no  *)
(* request that has ended begins again.                                     *)
THEOREM RequestsMoveForward == Spec => [][Forward]_<<pc, at, session>>
  <1>1. ASSUME IInv, Next PROVE Forward
    <2>1. ASSUME NEW q \in Adders, NEW r \in Runs, NEW n \in Numbers, AddStep(q, r, n)
          PROVE  Forward
      <3>1. q \in Requests /\ q \notin Batches /\ pc[q] = "idle"
        BY <2>1 DEF AddStep, Requests
      <3>2. \A x \in Requests \ {q} :
                /\ pc'[x] = pc[x] /\ session'[x] = session[x]
                /\ x \in Batches => content'[x] = content[x] /\ at'[x] = at[x]
        BY <1>1, <2>1, <3>1 DEF AddStep, Advance, IInv, TypeOK
      <3> QED
        BY <1>1, <3>1, <3>2, OthersStay DEF Forward
    <2>2. ASSUME NEW b \in Batches, BatchStart(b) PROVE Forward
      <3>1. b \in Requests /\ pc[b] = "idle"
        BY <2>2 DEF BatchStart, Requests
      <3>2. \A x \in Requests \ {b} :
                /\ pc'[x] = pc[x] /\ session'[x] = session[x]
                /\ x \in Batches => content'[x] = content[x] /\ at'[x] = at[x]
        BY <1>1, <2>2 DEF BatchStart, Advance, IInv, TypeOK
      <3> QED
        BY <1>1, <3>1, <3>2, OthersStay DEF Forward
    <2>3. ASSUME NEW b \in Batches, GetRun(b) \/ TraceDone(b) \/ AddObservation(b)
          PROVE  Forward
      <3>1. b \in Requests /\ UNCHANGED content
        BY <2>3 DEF GetRun, TraceDone, AddObservation, Requests
      <3>2. \A x \in Requests \ {b} : session'[x] = session[x]
        BY <1>1, <2>3 DEF GetRun, TraceDone, AddObservation, IInv, TypeOK
      <3>3. \A x \in Requests \ {b} :
                pc'[x] = pc[x] /\ (x \in Batches => at'[x] = at[x])
        BY <1>1, <2>3 DEF GetRun, TraceDone, AddObservation, NextEvent, Advance, IInv,
                          TypeOK
      <3> QED
        BY <1>1, <2>3, <3>1, <3>2, <3>3, OthersStay, BatchForward DEF Forward
    <2>4. ASSUME NEW q \in Requests,
                 Commit(q) \/ \E outcome \in {"error", "crashed"} :
                                 InFlight(q) /\ Rollback(q, outcome)
          PROVE  Forward
      <3>1. InFlight(q) /\ ~InFlight(q)'
        BY <1>1, <2>4 DEF Commit, Rollback, Advance, InFlight, IInv, TypeOK
      <3>2. \A x \in Requests \ {q} :
                /\ pc'[x] = pc[x] /\ session'[x] = session[x]
                /\ x \in Batches => content'[x] = content[x] /\ at'[x] = at[x]
        BY <1>1, <2>4 DEF Commit, Rollback, CloseSession, Advance, IInv, TypeOK
      <3> QED
        BY <1>1, <3>1, <3>2, OthersStay DEF Forward
    <2> QED
      BY <1>1, <2>1, <2>2, <2>3, <2>4, NextCases
  <1>2. IInv /\ [Next]_vars => [Forward]_<<pc, at, session>>
    BY <1>1 DEF vars
  <1> QED
    BY <1>2, Invariance, PTL DEF Spec
=============================================================================
