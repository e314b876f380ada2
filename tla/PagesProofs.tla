---------------------------- MODULE PagesProofs ----------------------------
(***************************************************************************)
(* Proofs about Pages: for any tables, page sizes and interleaving with    *)
(* new rows, the pages of a listing repeat no row; those of list_runs skip *)
(* none, and those of list_steps skip no number.                           *)
(***************************************************************************)
EXTENDS Pages, TLAPS, FiniteSetTheorems

USE OrderedAssumption, LimitsAssumption, SentinelsAssumption

(***************************************************************************)
(* The inductive invariant: what was listed is at the cursor or before it, *)
(* and what is owed was listed or is behind the cursor.                    *)
(***************************************************************************)

UniqueRuns == \A r, s \in runs : r.id = s.id => r = s

OwedRuns == \A r \in runsOwed : r \in runs /\ Matches(r)

SeenRuns ==
    \A i \in RunIds :
        /\ runSeen[i] <= 1
        /\ runSeen[i] > 0 => \E r \in runs : r.id = i

RunsBefore ==
    runPages = "none" =>
        /\ runCursor = NoCursor
        /\ \A i \in RunIds : runSeen[i] = 0

RunsUpToCursor ==
    runPages = "more" =>
        /\ runCursor \in runs
        /\ \A r \in runs :
              runSeen[r.id] > 0 => r = runCursor \/ Newer(r, runCursor)
        /\ \A r \in runsOwed : runSeen[r.id] > 0 \/ Newer(runCursor, r)

RunsInv ==
    UniqueRuns /\ OwedRuns /\ SeenRuns /\ RunsBefore /\ RunsUpToCursor /\ RunsAllListed

UniqueSteps == \A s, t \in steps : s.id = t.id => s = t

SeenSteps ==
    \A i \in StepIds :
        /\ stepSeen[i] <= 1
        /\ stepSeen[i] > 0 => \E s \in steps : s.id = i

StepsBefore ==
    stepPages = "none" =>
        /\ stepCursor = NoCursor
        /\ \A i \in StepIds : stepSeen[i] = 0

HasTwin(s) == \E t \in steps : t.number = s.number /\ stepSeen[t.id] > 0

StepsUpToCursor ==
    stepPages = "more" =>
        /\ stepCursor \in Numbers
        /\ \A s \in steps : stepSeen[s.id] > 0 => s.number <= stepCursor
        /\ \A s \in stepsOwed : s.number <= stepCursor => HasTwin(s)

StepsInv ==
    /\ UniqueSteps /\ stepsOwed \subseteq steps
    /\ SeenSteps /\ StepsBefore /\ StepsUpToCursor /\ NumbersAllListed

IInv == TypeOK /\ RunsInv /\ StepsInv

(***************************************************************************)
(* A row is counted once on a page.                                        *)
(***************************************************************************)

(* How often a page of rows whose ids differ shows an id. *)
LEMMA CountOnPage ==
    ASSUME NEW items, NEW i, \A r, s \in items : r.id = s.id => r = s
    PROVE  LET shown == Cardinality({r \in items : r.id = i})
           IN  /\ shown \in {0, 1}
               /\ shown = 1 <=> \E r \in items : r.id = i
<1> DEFINE rows == {r \in items : r.id = i}
<1>1. CASE \E r \in items : r.id = i
  <2>1. PICK r \in items : r.id = i
    BY <1>1
  <2>2. rows = {r}
    BY <2>1
  <2> QED
    BY <1>1, <2>2, FS_Singleton
<1>2. CASE ~ \E r \in items : r.id = i
  <2>1. rows = {}
    BY <1>2
  <2> QED
    <3>1. Cardinality(rows) = 0
      BY <2>1, FS_EmptySet
    <3> QED
      BY <1>2, <3>1
<1> QED
  BY <1>1, <1>2

(***************************************************************************)
(* The listing of runs.                                                    *)
(***************************************************************************)

LEMMA RunRowNumbers ==
    ASSUME NEW r \in RunRow
    PROVE  r.id \in RunIds /\ r.id \in Nat /\ r.at \in Nat
  BY DEF RunRow

(* The rows are strictly ordered. *)
LEMMA NewerOrder ==
    ASSUME NEW r \in RunRow, NEW s \in RunRow, NEW t \in RunRow
    PROVE  /\ ~ Newer(r, r)
           /\ Newer(r, s) /\ Newer(s, t) => Newer(r, t)
  BY RunRowNumbers DEF Newer

LEMMA InitRuns == Init => TypeOK /\ RunsInv
  BY DEF Init, TypeOK, RunsInv, UniqueRuns, OwedRuns, SeenRuns, RunsBefore,
         RunsUpToCursor, RunsAllListed, RunRow, StepRow

(* A created run is on no page yet. *)
LEMMA CreateRunKeeps ==
    ASSUME TypeOK, RunsInv, CreateRun
    PROVE  TypeOK' /\ RunsInv'
<1> USE DEF RunsInv, CreateRun, runList, stepList
<1>1. PICK r \in RunRow : (\A other \in runs : other.id # r.id) /\ runs' = runs \cup {r}
  OBVIOUS
<1>2. runSeen[r.id] = 0
  <2>1. r.id \in RunIds /\ runSeen[r.id] \in Nat
    BY RunRowNumbers DEF TypeOK
  <2>2. ~ (runSeen[r.id] > 0)
    BY <1>1, <2>1 DEF SeenRuns
  <2> QED
    BY <2>1, <2>2
<1>3. TypeOK'
  BY <1>1 DEF TypeOK
<1>4. UniqueRuns'
  BY <1>1 DEF UniqueRuns
<1>5. OwedRuns' /\ SeenRuns' /\ RunsBefore' /\ RunsAllListed'
  BY <1>1 DEF OwedRuns, Matches, SeenRuns, RunsBefore, RunsAllListed
<1>6. RunsUpToCursor'
  BY <1>1, <1>2 DEF RunsUpToCursor, Newer
<1> QED
  BY <1>3, <1>4, <1>5, <1>6

LEMMA CompleteRunKeeps ==
    ASSUME TypeOK, RunsInv, CompleteRun
    PROVE  TypeOK' /\ RunsInv'
<1> USE DEF RunsInv, CompleteRun, stepList
<1>1. TypeOK'
  BY DEF TypeOK, RunRow
<1>2. UniqueRuns' /\ OwedRuns' /\ SeenRuns' /\ RunsBefore'
  BY DEF UniqueRuns, OwedRuns, SeenRuns, RunsBefore
<1>3. RunsUpToCursor' /\ RunsAllListed'
  BY DEF RunsUpToCursor, RunsAllListed, Newer
<1> QED
  BY <1>1, <1>2, <1>3

(* A page shows rows behind the cursor only, and every row newer than its   *)
(* last one.                                                                *)
LEMMA ListRunsKeeps ==
    ASSUME TypeOK, RunsInv, ListRuns
    PROVE  TypeOK' /\ RunsInv'
<1> USE DEF RunsInv, stepList
<1>1. PICK limit \in Limits, items \in SUBSET RunsBehind :
          /\ IsRunPage(items, RunsBehind, limit)
          /\ runSeen' = [i \in RunIds |->
                            runSeen[i] + Cardinality({r \in items : r.id = i})]
          /\ \/ /\ items # RunsBehind
                /\ runPages' = "more"
                /\ \E last \in items :
                      /\ \A r \in items : r = last \/ Newer(r, last)
                      /\ runCursor' = last
             \/ /\ items = RunsBehind
                /\ runPages' = "end"
                /\ runCursor' = NoCursor
  BY DEF ListRuns
<1>2. /\ runPages # "end"
      /\ runsOwed' = IF runPages = "none" THEN RunsBehind ELSE runsOwed
      /\ UNCHANGED <<runs, status, steps, filter, stepList>>
  BY DEF ListRuns
<1> DEFINE shown(i) == Cardinality({r \in items : r.id = i})
<1>3. items \subseteq runs /\ RunsBehind \subseteq runs /\ runs \subseteq RunRow
  BY <1>1 DEF RunsBehind, TypeOK
<1>4. \A i \in RunIds : /\ shown(i) \in {0, 1}
                        /\ shown(i) = 1 <=> \E r \in items : r.id = i
  <2>1. \A r, s \in items : r.id = s.id => r = s
    BY <1>3 DEF UniqueRuns
  <2> QED
    BY <2>1, CountOnPage
<1>5. \A i \in RunIds : runSeen[i] \in Nat /\ runSeen'[i] = runSeen[i] + shown(i)
  BY <1>1 DEF TypeOK
<1> HIDE DEF shown
<1>6. runSeen' \in [RunIds -> Nat]
  <2>1. \A i \in RunIds : runSeen[i] + shown(i) \in Nat
    BY <1>4, <1>5
  <2>2. runSeen' = [i \in RunIds |-> runSeen[i] + shown(i)]
    BY <1>1 DEF shown
  <2> QED
    BY <2>1, <2>2
<1>7. TypeOK'
  BY <1>1, <1>2, <1>3, <1>6 DEF TypeOK
<1>8. \A r \in items : runSeen[r.id] = 0
  <2> SUFFICES ASSUME NEW r \in items, runSeen[r.id] > 0
               PROVE  FALSE
    <3>1. \A r \in items : runSeen[r.id] \in Nat
      BY <1>3, <1>5, RunRowNumbers
    <3> QED
      BY <3>1
  <2>1. runPages = "more" /\ runCursor \in runs
    BY <1>2, <1>3, RunRowNumbers DEF RunsBefore, RunsUpToCursor, TypeOK
  <2>2. Newer(runCursor, r)
    BY <1>1, <2>1 DEF RunsBehind, TypeOK
  <2>3. r = runCursor \/ Newer(r, runCursor)
    BY <1>3, <2>1 DEF RunsUpToCursor
  <2> QED
    BY <1>3, <2>1, <2>2, <2>3, NewerOrder
<1>9. \A i \in RunIds : runSeen'[i] > 0 <=> runSeen[i] > 0 \/ \E r \in items : r.id = i
  BY <1>4, <1>5
<1>10. UniqueRuns' /\ OwedRuns' /\ RunsBefore'
  <2>1. \A r \in RunsBehind : r \in runs /\ Matches(r)
    BY DEF RunsBehind
  <2> QED
    BY <1>1, <1>2, <2>1 DEF UniqueRuns, OwedRuns, RunsBefore, Matches
<1>11. SeenRuns'
  <2> SUFFICES ASSUME NEW i \in RunIds
               PROVE  /\ runSeen'[i] <= 1
                      /\ runSeen'[i] > 0 => \E r \in runs : r.id = i
    BY <1>2 DEF SeenRuns
  <2>1. CASE \E r \in items : r.id = i
    BY <1>3, <1>4, <1>5, <1>8, <2>1
  <2>2. CASE ~ \E r \in items : r.id = i
    BY <1>4, <1>5, <1>9, <2>2 DEF SeenRuns
  <2> QED
    BY <2>1, <2>2
<1>12. \A r \in runsOwed' : runSeen'[r.id] > 0 \/ r \in RunsBehind
  <2> SUFFICES ASSUME NEW r \in runsOwed', r \notin RunsBehind
               PROVE  runSeen'[r.id] > 0
    OBVIOUS
  <2>1. runPages = "more" /\ r \in runsOwed
    BY <1>2 DEF TypeOK
  <2>2. r \in runs /\ Matches(r) /\ r.id \in RunIds
    BY <1>3, <2>1 DEF OwedRuns, RunRow
  <2>3. runSeen[r.id] > 0
    BY <2>1, <2>2 DEF RunsUpToCursor, RunsBehind
  <2> QED
    BY <1>9, <2>2, <2>3
<1>13. CASE items = RunsBehind /\ runPages' = "end"
  <2>1. RunsUpToCursor'
    BY <1>13 DEF RunsUpToCursor
  <2>2. RunsAllListed'
    BY <1>3, <1>9, <1>12, <1>13 DEF RunsAllListed, RunRow
  <2> QED
    BY <1>7, <1>10, <1>11, <2>1, <2>2
<1>14. CASE runPages' = "more"
  <2>1. PICK last \in items :
            (\A r \in items : r = last \/ Newer(r, last)) /\ runCursor' = last
    BY <1>1, <1>14
  <2>2. RunsAllListed'
    BY <1>14 DEF RunsAllListed
  <2>3. ASSUME NEW r \in runs, runSeen'[r.id] > 0
        PROVE  r = last \/ Newer(r, last)
    <3>1. CASE r \in items
      BY <2>1, <3>1
    <3>2. CASE r \notin items
      <4>1. runSeen[r.id] > 0
        BY <1>3, <1>9, <2>3, <3>2 DEF UniqueRuns, RunRow
      <4>2. runPages = "more" /\ runCursor \in runs
        BY <1>2, <1>3, <4>1, RunRowNumbers DEF RunsBefore, RunsUpToCursor, TypeOK
      <4>3. r = runCursor \/ Newer(r, runCursor)
        BY <4>1, <4>2 DEF RunsUpToCursor
      <4>4. Newer(runCursor, last)
        BY <4>2 DEF RunsBehind, TypeOK
      <4> QED
        BY <1>3, <4>2, <4>3, <4>4, NewerOrder
    <3> QED
      BY <3>1, <3>2
  <2>4. ASSUME NEW r \in runsOwed'
        PROVE  runSeen'[r.id] > 0 \/ Newer(last, r)
    <3>1. CASE r \in items
      BY <1>3, <1>9, <3>1 DEF RunRow
    <3>2. CASE r \in RunsBehind \ items
      BY <1>1, <2>1, <3>2 DEF IsRunPage
    <3> QED
      BY <1>12, <3>1, <3>2
  <2>5. RunsUpToCursor'
    BY <1>2, <1>3, <2>1, <2>3, <2>4 DEF RunsUpToCursor
  <2> QED
    BY <1>7, <1>10, <1>11, <2>2, <2>5
<1> QED
  BY <1>1, <1>13, <1>14

(***************************************************************************)
(* The listing of steps.                                                   *)
(***************************************************************************)

LEMMA StepRowNumbers ==
    ASSUME NEW s \in StepRow
    PROVE  s.id \in StepIds /\ s.number \in Nat
  BY DEF StepRow

LEMMA InitSteps == Init => StepsInv
  BY DEF Init, StepsInv, UniqueSteps, SeenSteps, StepsBefore, StepsUpToCursor,
         NumbersAllListed

(* An added step is on no page yet, and is not owed. *)
LEMMA AddStepKeeps ==
    ASSUME TypeOK, StepsInv, AddStep
    PROVE  TypeOK' /\ StepsInv'
<1> USE DEF StepsInv, AddStep, runList, stepList
<1>1. PICK s \in StepRow :
          (\A other \in steps : other.id # s.id) /\ steps' = steps \cup {s}
  OBVIOUS
<1>2. ~ (stepSeen[s.id] > 0)
  BY <1>1, StepRowNumbers DEF SeenSteps
<1>3. TypeOK'
  BY <1>1 DEF TypeOK
<1>4. UniqueSteps' /\ (stepsOwed \subseteq steps)'
  BY <1>1 DEF UniqueSteps
<1>5. SeenSteps' /\ StepsBefore' /\ NumbersAllListed'
  BY <1>1 DEF SeenSteps, StepsBefore, NumbersAllListed
<1>6. StepsUpToCursor'
  BY <1>1, <1>2 DEF StepsUpToCursor, HasTwin
<1> QED
  BY <1>3, <1>4, <1>5, <1>6

(* A page that is cut off may leave out steps with the number of its last   *)
(* one, and no others that are not behind the next cursor.                  *)
LEMMA ListStepsKeeps ==
    ASSUME TypeOK, StepsInv, ListSteps
    PROVE  TypeOK' /\ StepsInv'
<1> USE DEF StepsInv, runList
<1>1. PICK limit \in Limits, items \in SUBSET StepsBehind :
          /\ IsStepPage(items, StepsBehind, limit)
          /\ stepSeen' = [i \in StepIds |->
                             stepSeen[i] + Cardinality({s \in items : s.id = i})]
          /\ \/ /\ items # StepsBehind
                /\ stepPages' = "more"
                /\ \E last \in items :
                      /\ \A s \in items : s.number <= last.number
                      /\ stepCursor' = DecodedCursor(last)
             \/ /\ items = StepsBehind
                /\ stepPages' = "end"
                /\ stepCursor' = NoCursor
  BY DEF ListSteps
<1>2. /\ stepPages # "end"
      /\ stepsOwed' = IF stepPages = "none" THEN StepsBehind ELSE stepsOwed
      /\ UNCHANGED <<runs, status, steps, runList>>
  BY DEF ListSteps
<1> DEFINE shown(i) == Cardinality({s \in items : s.id = i})
<1>3. items \subseteq steps /\ StepsBehind \subseteq steps /\ steps \subseteq StepRow
  BY <1>1 DEF StepsBehind, TypeOK
<1>4. \A i \in StepIds : /\ shown(i) \in {0, 1}
                         /\ shown(i) = 1 <=> \E s \in items : s.id = i
  <2>1. \A s, t \in items : s.id = t.id => s = t
    BY <1>3 DEF UniqueSteps
  <2> QED
    BY <2>1, CountOnPage
<1>5. \A i \in StepIds : stepSeen[i] \in Nat /\ stepSeen'[i] = stepSeen[i] + shown(i)
  BY <1>1 DEF TypeOK
<1> HIDE DEF shown
<1>6. stepSeen' \in [StepIds -> Nat]
  <2>1. \A i \in StepIds : stepSeen[i] + shown(i) \in Nat
    BY <1>4, <1>5
  <2>2. stepSeen' = [i \in StepIds |-> stepSeen[i] + shown(i)]
    BY <1>1 DEF shown
  <2> QED
    BY <2>1, <2>2
<1>7. TypeOK'
  <2>1. stepCursor' \in Numbers \cup {NoCursor}
    BY <1>1, <1>3 DEF DecodedCursor, StepRow
  <2> QED
    BY <1>1, <1>2, <1>3, <1>6, <2>1 DEF TypeOK
<1>8. \A s \in items : stepSeen[s.id] = 0
  <2> SUFFICES ASSUME NEW s \in items, stepSeen[s.id] > 0
               PROVE  FALSE
    <3>1. \A s \in items : stepSeen[s.id] \in Nat
      BY <1>3, <1>5, StepRowNumbers
    <3> QED
      BY <3>1
  <2>1. stepPages = "more" /\ stepCursor \in Numbers
    BY <1>2, <1>3, StepRowNumbers DEF StepsBefore, StepsUpToCursor, TypeOK
  <2>2. s.number > stepCursor
    BY <1>1, <2>1 DEF StepsBehind
  <2>3. s.number <= stepCursor
    BY <1>3, <2>1 DEF StepsUpToCursor
  <2> QED
    BY <1>3, <2>1, <2>2, <2>3, StepRowNumbers
<1>9. \A i \in StepIds : stepSeen'[i] > 0 <=> stepSeen[i] > 0 \/ \E s \in items : s.id = i
  BY <1>4, <1>5
<1>10. UniqueSteps' /\ (stepsOwed \subseteq steps)' /\ StepsBefore'
  BY <1>1, <1>2, <1>3 DEF UniqueSteps, StepsBefore
<1>11. SeenSteps'
  <2> SUFFICES ASSUME NEW i \in StepIds
               PROVE  /\ stepSeen'[i] <= 1
                      /\ stepSeen'[i] > 0 => \E s \in steps : s.id = i
    BY <1>2 DEF SeenSteps
  <2>1. CASE \E s \in items : s.id = i
    BY <1>3, <1>4, <1>5, <1>8, <2>1
  <2>2. CASE ~ \E s \in items : s.id = i
    BY <1>4, <1>5, <1>9, <2>2 DEF SeenSteps
  <2> QED
    BY <2>1, <2>2
<1>12. \A s \in steps : HasTwin(s) => HasTwin(s)'
  BY <1>2, <1>3, <1>9, StepRowNumbers DEF HasTwin
<1>13. \A s \in items : HasTwin(s)'
  BY <1>2, <1>3, <1>9, StepRowNumbers DEF HasTwin
<1>14. \A s \in stepsOwed' : s \in steps /\ (HasTwin(s)' \/ s \in StepsBehind)
  <2> SUFFICES ASSUME NEW s \in stepsOwed', s \notin StepsBehind
               PROVE  s \in steps /\ HasTwin(s)'
    BY <1>2, <1>3
  <2>1. stepPages = "more" /\ s \in stepsOwed /\ s \in steps
    BY <1>2 DEF TypeOK
  <2>2. stepCursor \in Nat /\ s.number \in Nat /\ ~ (s.number > stepCursor)
    BY <1>3, <2>1, StepRowNumbers DEF StepsUpToCursor, StepsBehind
  <2>3. s.number <= stepCursor
    BY <2>2
  <2>4. HasTwin(s)
    BY <2>1, <2>3 DEF StepsUpToCursor
  <2> QED
    BY <1>12, <2>1, <2>4
<1>15. CASE items = StepsBehind /\ stepPages' = "end"
  <2>1. StepsUpToCursor'
    BY <1>15 DEF StepsUpToCursor
  <2>2. NumbersAllListed'
    BY <1>13, <1>14, <1>15 DEF NumbersAllListed, HasTwin
  <2> QED
    BY <1>7, <1>10, <1>11, <2>1, <2>2
<1>16. CASE stepPages' = "more"
  <2>1. PICK last \in items :
            (\A s \in items : s.number <= last.number) /\ stepCursor' = last.number
    BY <1>1, <1>16 DEF DecodedCursor
  <2>2. last.number \in Nat /\ last.number \in Numbers
    BY <1>3, StepRowNumbers DEF StepRow
  <2>3. NumbersAllListed'
    BY <1>16 DEF NumbersAllListed
  <2>4. ASSUME NEW s \in steps, stepSeen'[s.id] > 0
        PROVE  s.number <= last.number
    <3>1. CASE s \in items
      BY <2>1, <3>1
    <3>2. CASE s \notin items
      <4>1. stepSeen[s.id] > 0
        BY <1>3, <1>9, <2>4, <3>2, StepRowNumbers DEF UniqueSteps
      <4>2. stepPages = "more" /\ stepCursor \in Numbers
        BY <1>2, <1>3, <4>1, StepRowNumbers DEF StepsBefore, StepsUpToCursor, TypeOK
      <4>3. s.number <= stepCursor
        BY <4>1, <4>2 DEF StepsUpToCursor
      <4>4. last.number > stepCursor
        BY <1>1, <4>2 DEF StepsBehind
      <4> QED
        BY <1>3, <2>2, <4>2, <4>3, <4>4, StepRowNumbers
    <3> QED
      BY <3>1, <3>2
  <2>5. ASSUME NEW s \in stepsOwed', s.number <= last.number
        PROVE  HasTwin(s)'
    <3>1. CASE s \in StepsBehind \ items
      <4>1. last.number <= s.number
        BY <1>1, <3>1 DEF IsStepPage
      <4>2. s.number = last.number
        BY <1>3, <2>2, <2>5, <3>1, <4>1, StepRowNumbers
      <4>3. stepSeen'[last.id] > 0
        BY <1>3, <1>9, StepRowNumbers
      <4> QED
        BY <1>2, <1>3, <4>2, <4>3 DEF HasTwin
    <3> QED
      BY <1>13, <1>14, <3>1
  <2>6. StepsUpToCursor'
    BY <1>2, <2>1, <2>2, <2>4, <2>5 DEF StepsUpToCursor
  <2> QED
    BY <1>7, <1>10, <1>11, <2>3, <2>6
<1> QED
  BY <1>1, <1>15, <1>16

(***************************************************************************)
(* The theorems.                                                           *)
(***************************************************************************)

(* What one listing reads and writes is left alone by the other's steps. *)
LEMMA OtherListing ==
    /\ RunsInv /\ UNCHANGED <<runs, status, runList>> => RunsInv'
    /\ StepsInv /\ UNCHANGED <<steps, stepList>> => StepsInv'
<1>1. RunsInv /\ UNCHANGED <<runs, status, runList>> => RunsInv'
  BY DEF runList, RunsInv, UniqueRuns, OwedRuns, Matches, SeenRuns, RunsBefore,
         RunsUpToCursor, Newer, RunsAllListed
<1>2. StepsInv /\ UNCHANGED <<steps, stepList>> => StepsInv'
  BY DEF stepList, StepsInv, UniqueSteps, SeenSteps, StepsBefore, StepsUpToCursor,
         HasTwin, NumbersAllListed
<1> QED
  BY <1>1, <1>2

(* The inductive invariant holds throughout: what was listed is not behind  *)
(* the cursor, and what is owed was listed or still is behind it.           *)
THEOREM Invariance == Spec => []IInv
<1>1. Init => IInv
  BY InitRuns, InitSteps DEF IInv
<1>2. IInv /\ [Next]_vars => IInv'
  <2> SUFFICES ASSUME IInv, [Next]_vars
               PROVE  IInv'
    OBVIOUS
  <2>1. CASE CreateRun
    BY <2>1, CreateRunKeeps, OtherListing DEF IInv, CreateRun
  <2>2. CASE CompleteRun
    BY <2>2, CompleteRunKeeps, OtherListing DEF IInv, CompleteRun
  <2>3. CASE AddStep
    BY <2>3, AddStepKeeps, OtherListing DEF IInv, AddStep
  <2>4. CASE ListRuns
    BY <2>4, ListRunsKeeps, OtherListing DEF IInv, ListRuns
  <2>5. CASE ListSteps
    BY <2>5, ListStepsKeeps, OtherListing DEF IInv, ListSteps
  <2>6. CASE UNCHANGED vars
    <3>1. UNCHANGED <<runs, status, runList>> /\ UNCHANGED <<steps, stepList>>
      BY <2>6 DEF vars
    <3>2. TypeOK'
      BY <3>1 DEF IInv, TypeOK, runList, stepList
    <3> QED
      BY <3>1, <3>2, OtherListing DEF IInv
  <2> QED
    BY <2>1, <2>2, <2>3, <2>4, <2>5, <2>6 DEF Next
<1> QED
  BY <1>1, <1>2, PTL DEF Spec

(* The variables of Pages have their types. *)
THEOREM TypeCorrect == Spec => []TypeOK
  BY Invariance, PTL DEF IInv

(* No row is on two pages of one listing, whatever is written in between. *)
THEOREM RowsAreListedOnce == Spec => []ListedOnce
<1>1. IInv => ListedOnce
  BY DEF IInv, RunsInv, SeenRuns, StepsInv, SeenSteps, ListedOnce
<1> QED
  BY <1>1, Invariance, PTL

(* list_runs leaves out no run that was there, and matched, all along. *)
THEOREM NoRunIsSkipped == Spec => []RunsAllListed
<1>1. IInv => RunsAllListed
  BY DEF IInv, RunsInv
<1> QED
  BY <1>1, Invariance, PTL

(* What list_steps leaves out has the number of a step it shows. *)
THEOREM NoNumberIsSkipped == Spec => []NumbersAllListed
<1>1. IInv => NumbersAllListed
  BY DEF IInv, StepsInv
<1> QED
  BY <1>1, Invariance, PTL
=============================================================================
