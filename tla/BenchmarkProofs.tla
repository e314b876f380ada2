-------------------------- MODULE BenchmarkProofs --------------------------
(***************************************************************************)
(* Proofs about WhoWhen, for every trajectory and ground truth, and about  *)
(* Benchmark, for any records, number of invocations, attempts and deaths. *)
(***************************************************************************)
EXTENDS Benchmark, FiniteSetTheorems, SequenceTheorems, WellFoundedInduction, TLAPS

LEMMA LeastNumber ==
    ASSUME NEW S \in SUBSET Nat, S # {}
    PROVE  \E x \in S : \A y \in S : x <= y
<1>. DEFINE Less == {ss \in Nat \X Nat : ss[1] < ss[2]}
<1>1. IsWellFoundedOn(Less, Nat)
    BY NatLessThanWellFounded, Zenon DEF OpToRel
<1>2. PICK x \in S : \A y \in S : <<y, x>> \notin Less
    <2>. HIDE DEF Less
    <2>. QED
        BY <1>1, WFMin
<1>3. ASSUME NEW y \in S PROVE x <= y
    <2>1. ~(y < x)
        BY <1>2
    <2>. QED
        BY <2>1
<1>. QED
    BY <1>3

LEMMA GreatestNumber ==
    ASSUME NEW m \in Nat, NEW S \in SUBSET (0 .. m), S # {}
    PROVE  \E x \in S : \A y \in S : y <= x
<1>. DEFINE below == {m - x : x \in S}
<1>1. PICK d \in below : \A y \in below : d <= y
    <2>1. \A x \in S : x \in Nat /\ m - x \in Nat
        OBVIOUS
    <2>2. below \in SUBSET Nat
        BY <2>1
    <2>3. below # {}
        <3>1. PICK x \in S : TRUE
            OBVIOUS
        <3>2. m - x \in below
            BY <3>1
        <3>. QED
            BY <3>2
    <2>. HIDE DEF below
    <2>. QED
        BY <2>2, <2>3, LeastNumber
<1>2. PICK x \in S : d = m - x
    BY <1>1
<1>3. ASSUME NEW y \in S PROVE y <= x
    <2>1. d <= m - y
        BY <1>1
    <2>. QED
        BY <1>2, <2>1
<1>. QED
    BY <1>3

(* A set of numbers with 0 and every successor has all numbers. *)
LEMMA Induction ==
    ASSUME NEW S, 0 \in S, \A n \in Nat : n \in S => n + 1 \in S
    PROVE  Nat \subseteq S
<1>. DEFINE Bad == Nat \ S
<1>1. ASSUME Bad # {} PROVE FALSE
    <2>1. PICK x \in Bad : \A y \in Bad : x <= y
        BY <1>1, LeastNumber
    <2>2. x \in Nat /\ x # 0 /\ x - 1 \in Nat /\ ~(x <= x - 1)
        OBVIOUS
    <2>3. x - 1 \in S /\ (x - 1) + 1 = x
        BY <2>1, <2>2
    <2>. QED
        BY <2>2, <2>3
<1>. QED
    BY <1>1

(***************************************************************************)
(* WhoWhen.                                                                *)
(***************************************************************************)

LEMMA FirstIsLeast ==
    ASSUME NEW S \in SUBSET Nat, S # {}
    PROVE  First(S) \in S /\ \A j \in S : First(S) <= j
<1>1. \E i \in S : \A j \in S : i <= j
    BY LeastNumber
<1>2. First(S) = CHOOSE i \in S : \A j \in S : i <= j
    BY DEF First
<1>. QED
    BY <1>1, <1>2, Zenon

(* convert_record makes a step of each message that is one. *)
LEMMA StepsAreNumbered ==
    ASSUME NEW trajectory \in Seq(Message)
    PROVE  \E n \in Nat : n <= Len(trajectory) /\ Len(StepsOf(trajectory)) = n
                          /\ DOMAIN StepsOf(trajectory) = 1 .. n
<1>. DEFINE made == {i \in DOMAIN trajectory : IsStep(trajectory[i])}
<1>1. IsFiniteSet(1 .. Len(trajectory)) /\ Cardinality(1 .. Len(trajectory)) = Len(trajectory)
    <2>1. Len(trajectory) \in Nat
        OBVIOUS
    <2>. QED
        BY <2>1, FS_Interval
<1>2. Cardinality(made) \in Nat /\ Cardinality(made) <= Len(trajectory)
    <2>1. made \subseteq 1 .. Len(trajectory)
        BY SMT
    <2>. QED
        BY <1>1, <2>1, FS_Subset, FS_CardinalityType, Zenon
<1>3. DOMAIN StepsOf(trajectory) = 1 .. Cardinality(made)
    BY DEF StepsOf
<1>4. StepsOf(trajectory) \in [1 .. Cardinality(made) -> {StepsOf(trajectory)[i] : i \in 1 .. Cardinality(made)}]
    BY <1>3 DEF StepsOf
<1>5. Len(StepsOf(trajectory)) = Cardinality(made)
    BY <1>2, <1>4
<1>. QED
    BY <1>2, <1>3, <1>5

(* A label is no step or one of the trajectory. *)
THEOREM MappedStepExists ==
    ASSUME NEW gt \in GroundTruth, NEW steps, NEW n \in Nat,
           DOMAIN steps = 1 .. n, Len(steps) = n
    PROVE  MapStep(gt, steps) \in {NoStep} \cup 1 .. n
<1>1. Matching(gt, steps) \in SUBSET (1 .. n)
    BY DEF Matching
<1>2. First(Matching(gt, steps)) \in {NoStep} \cup 1 .. n
    <2>1. CASE Matching(gt, steps) = {}
        BY <2>1 DEF First
    <2>2. CASE Matching(gt, steps) # {}
        BY <1>1, <2>2, FirstIsLeast
    <2>. QED
        BY <2>1, <2>2
<1>. QED
    BY <1>2 DEF MapStep

(* When the ground truth matches steps, the label is the first of them,     *)
(* unless it is a stage that is no number or counts past the end: then it   *)
(* is none.                                                                 *)
THEOREM MappedStepMatches ==
    ASSUME NEW gt \in GroundTruth, NEW steps, NEW n \in Nat,
           DOMAIN steps = 1 .. n, Len(steps) = n, Matching(gt, steps) # {}
    PROVE  \/ /\ MapStep(gt, steps) \in Matching(gt, steps)
              /\ \A i \in Matching(gt, steps) : MapStep(gt, steps) <= i
           \/ /\ MapStep(gt, steps) = NoStep
              /\ ByStage(gt) /\ (gt.stage = Word \/ gt.stage + 1 \notin 1 .. n)
<1>1. Matching(gt, steps) \in SUBSET (1 .. n)
    BY DEF Matching
<1>2. /\ First(Matching(gt, steps)) \in Matching(gt, steps)
      /\ \A i \in Matching(gt, steps) : First(Matching(gt, steps)) <= i
    BY <1>1, FirstIsLeast
<1>3. First(Matching(gt, steps)) # NoStep
    BY <1>1, <1>2 DEF NoStep
<1>4. CASE ByStage(gt) /\ (gt.stage = Word \/ gt.stage + 1 \notin 1 .. n)
    <2>1. MapStep(gt, steps) = NoStep
        BY <1>4 DEF MapStep
    <2>. QED
        BY <1>4, <2>1
<1>5. CASE ~(ByStage(gt) /\ (gt.stage = Word \/ gt.stage + 1 \notin 1 .. n))
    <2>1. MapStep(gt, steps) = First(Matching(gt, steps))
        BY <1>3, <1>5 DEF MapStep
    <2>. QED
        BY <1>2, <2>1
<1>. QED
    BY <1>4, <1>5

LineIds(q) == {line.id : line \in Range(q) \cap Lines}

Unique(q) ==
    \A i, j \in DOMAIN q : q[i] \in Lines /\ q[j] \in Lines /\ q[i].id = q[j].id => i = j

Labelled(q) == \A line \in Range(q) \cap Lines : line.label = Label[line.id]

(***************************************************************************)
(* The lines that drop_results keeps.                                      *)
(***************************************************************************)

(* Those of the first i lines, given those of the first i - 1. *)
UpTo(lines, i, before) ==
    IF i = 0 THEN <<>>
    ELSE IF Keep(lines[i]) THEN Append(before, lines[i])
    ELSE before

IsUpTo(lines, n, f) == f = [i \in 0 .. n |-> UpTo(lines, i, f[i - 1])]

LEMMA UpToExists ==
    ASSUME NEW lines, NEW n \in Nat
    PROVE  \E f : IsUpTo(lines, n, f)
<1>. DEFINE S == {m \in Nat : \E f : IsUpTo(lines, m, f)}
<1>1. 0 \in S
    <2>. DEFINE f == [i \in 0 .. 0 |-> <<>>]
    <2>1. IsUpTo(lines, 0, f)
        BY DEF IsUpTo, UpTo
    <2>. QED
        BY <2>1
<1>2. ASSUME NEW m \in Nat, m \in S PROVE m + 1 \in S
    <2>1. PICK g : IsUpTo(lines, m, g)
        BY <1>2
    <2>. DEFINE f == [i \in 0 .. m + 1 |->
                         IF i = m + 1 THEN UpTo(lines, i, g[m]) ELSE g[i]]
    <2>2. ASSUME NEW i \in 0 .. m + 1 PROVE f[i] = UpTo(lines, i, f[i - 1])
        <3>1. CASE i = m + 1
            <4>1. f[i - 1] = g[m]
                BY <3>1
            <4>. QED
                BY <3>1, <4>1
        <3>2. CASE i = 0
            <4>1. f[i] = g[i]
                BY <3>2
            <4>. QED
                BY <2>1, <3>2, <4>1 DEF IsUpTo, UpTo
        <3>3. CASE i \in 1 .. m
            <4>1. f[i] = g[i] /\ f[i - 1] = g[i - 1] /\ i \in 0 .. m
                BY <3>3
            <4>2. g[i] = UpTo(lines, i, g[i - 1])
                BY <2>1, <4>1 DEF IsUpTo
            <4>. QED
                BY <4>1, <4>2
        <3>. QED
            BY <3>1, <3>2, <3>3
    <2>3. IsUpTo(lines, m + 1, f)
        <3>1. f = [i \in 0 .. m + 1 |-> f[i]]
            OBVIOUS
        <3>. HIDE DEF f
        <3>. QED
            BY <2>2, <3>1 DEF IsUpTo
    <2>. HIDE DEF f
    <2>. QED
        BY <2>3
<1>. HIDE DEF S
<1>3. Nat \subseteq S
    BY <1>1, <1>2, Induction
<1>. QED
    BY <1>3 DEF S

LEMMA KeptRecursion ==
    ASSUME NEW lines, Len(lines) \in Nat
    PROVE  \E f : IsUpTo(lines, Len(lines), f) /\ Kept(lines) = f[Len(lines)]
<1>. DEFINE f == CHOOSE g : IsUpTo(lines, Len(lines), g)
<1>1. IsUpTo(lines, Len(lines), f)
    BY UpToExists
<1>2. Kept(lines) = f[Len(lines)]
    BY DEF Kept, IsUpTo, UpTo
<1>. QED
    BY <1>1, <1>2

LEMMA AppendOne ==
    ASSUME NEW T, NEW q \in Seq(T), NEW e \in T
    PROVE  /\ Append(q, e) \in Seq(T)
           /\ Range(Append(q, e)) = Range(q) \cup {e}
           /\ Len(q) \in Nat /\ Len(Append(q, e)) = Len(q) + 1
           /\ DOMAIN q = 1 .. Len(q) /\ DOMAIN Append(q, e) = 1 .. Len(q) + 1
           /\ Append(q, e)[Len(q) + 1] = e
           /\ \A i \in 1 .. Len(q) : Append(q, e)[i] = q[i]
<1>. DEFINE r == Append(q, e)
<1>1. /\ r \in Seq(T) /\ Len(r) = Len(q) + 1 /\ r[Len(q) + 1] = e
      /\ \A i \in 1 .. Len(q) : r[i] = q[i]
    BY AppendProperties
<1>2. Len(q) \in Nat /\ DOMAIN q = 1 .. Len(q) /\ DOMAIN r = 1 .. Len(q) + 1
    BY <1>1, LenProperties
<1>3. Range(r) = Range(q) \cup {e}
    <2>1. 1 .. Len(q) + 1 = 1 .. Len(q) \cup {Len(q) + 1}
        BY <1>2
    <2>. HIDE DEF r
    <2>. QED
        BY <1>1, <1>2, <2>1 DEF Range
<1>. QED
    BY <1>1, <1>2, <1>3

(* The lines of records that are kept, each once, and no others. *)
LEMMA KeptLines ==
    ASSUME NEW lines \in Seq(Lines)
    PROVE  /\ Kept(lines) \in Seq(Lines)
           /\ Range(Kept(lines)) = {line \in Range(lines) : Keep(line)}
           /\ Unique(lines) => Unique(Kept(lines))
<1>. DEFINE n == Len(lines)
<1>1. n \in Nat /\ DOMAIN lines = 1 .. n /\ \A i \in 1 .. n : lines[i] \in Lines
    BY LenProperties
<1>2. PICK f : IsUpTo(lines, n, f) /\ Kept(lines) = f[n]
    BY <1>1, KeptRecursion
<1>3. \A i \in 0 .. n : f[i] = UpTo(lines, i, f[i - 1])
    BY <1>2 DEF IsUpTo
<1>. DEFINE Good(m) ==
                /\ f[m] \in Seq(Lines)
                /\ Range(f[m]) = {lines[i] : i \in {j \in 1 .. m : Keep(lines[j])}}
                /\ Unique(lines) => Unique(f[m])
            S == {m \in Nat : m <= n => Good(m)}
<1>4. 0 \in S
    <2>1. f[0] = <<>>
        BY <1>1, <1>3 DEF UpTo
    <2>2. Range(<<>>) = {} /\ Unique(<<>>) /\ <<>> \in Seq(Lines)
        BY DEF Range, Unique
    <2>3. Range(f[0]) = {lines[i] : i \in {j \in 1 .. 0 : Keep(lines[j])}}
        BY <2>1, <2>2
    <2>4. f[0] \in Seq(Lines) /\ (Unique(lines) => Unique(f[0]))
        BY <2>1, <2>2
    <2>. QED
        BY <2>3, <2>4
<1>5. ASSUME NEW m \in Nat, m \in S, m + 1 <= n
      PROVE  m + 1 \in S
    <2>1. /\ f[m] \in Seq(Lines)
          /\ Range(f[m]) = {lines[i] : i \in {j \in 1 .. m : Keep(lines[j])}}
          /\ Unique(lines) => Unique(f[m])
        BY <1>1, <1>5
    <2>2. /\ m + 1 \in 0 .. n /\ m + 1 # 0 /\ (m + 1) - 1 = m /\ m + 1 \in 1 .. n
          /\ 1 .. m + 1 = 1 .. m \cup {m + 1}
        BY <1>1, <1>5
    <2>. DEFINE new == lines[m + 1]
    <2>3. f[m + 1] = IF Keep(new) THEN Append(f[m], new) ELSE f[m]
        BY <1>3, <2>2 DEF UpTo
    <2>4. CASE ~Keep(new)
        <3>1. f[m + 1] = f[m]
            BY <2>3, <2>4
        <3>2. {j \in 1 .. m + 1 : Keep(lines[j])} = {j \in 1 .. m : Keep(lines[j])}
            BY <2>2, <2>4
        <3>. QED
            BY <2>1, <3>1, <3>2
    <2>5. CASE Keep(new)
        <3>. DEFINE q == f[m]
                    r == Append(q, new)
        <3>1. new \in Lines
            BY <1>1, <2>2
        <3>2. /\ r \in Seq(Lines) /\ DOMAIN r = 1 .. Len(q) + 1 /\ DOMAIN q = 1 .. Len(q)
              /\ Len(q) \in Nat /\ r[Len(q) + 1] = new /\ Range(r) = Range(q) \cup {new}
              /\ \A i \in 1 .. Len(q) : r[i] = q[i]
            BY <2>1, <3>1, AppendOne
        <3>3. f[m + 1] = r
            BY <2>3, <2>5
        <3>5. Range(q) \cup {new}
                  = {lines[i] : i \in {j \in 1 .. m + 1 : Keep(lines[j])}}
            BY <2>1, <2>2, <2>5
        <3>6. ASSUME Unique(lines), NEW i \in 1 .. Len(q) PROVE q[i].id # new.id
            <4>1. q[i] \in Range(q)
                BY <3>2 DEF Range
            <4>2. PICK j \in 1 .. m : q[i] = lines[j]
                BY <2>1, <4>1
            <4>. QED
                BY <1>1, <1>5, <2>2, <3>6, <4>2 DEF Unique
        <3>7. Unique(lines) => Unique(r)
            <4>1. Unique(lines) => Unique(q)
                BY <2>1
            <4>. HIDE DEF q, r, new
            <4>. QED
                BY <3>2, <3>6, <4>1 DEF Unique
        <3>8. Good(m + 1)
            <4>1. Range(r) = {lines[i] : i \in {j \in 1 .. m + 1 : Keep(lines[j])}}
                BY <3>2, <3>5
            <4>. HIDE DEF q, r, new
            <4>. QED
                BY <3>2, <3>3, <3>7, <4>1, Zenon
        <3>. HIDE DEF q, r, new, Good
        <3>. QED
            BY <3>8
    <2>. HIDE DEF S, new
    <2>. QED
        BY <2>4, <2>5
<1>6. Nat \subseteq S
    <2>1. ASSUME NEW m \in Nat, m \in S PROVE m + 1 \in S
        <3>1. CASE m + 1 <= n
            BY <1>5, <2>1, <3>1
        <3>2. CASE ~(m + 1 <= n)
            <4>1. m + 1 \in Nat
                OBVIOUS
            <4>. HIDE DEF Good, n
            <4>2. m + 1 <= n => Good(m + 1)
                BY <3>2
            <4>. QED
                BY <4>1, <4>2
        <3>. QED
            BY <3>1, <3>2
    <2>. HIDE DEF S
    <2>. QED
        BY <1>4, <2>1, Induction
<1>7. /\ f[n] \in Seq(Lines)
      /\ Range(f[n]) = {lines[i] : i \in {j \in 1 .. n : Keep(lines[j])}}
      /\ Unique(lines) => Unique(f[n])
    <2>1. Good(n)
        <3>. HIDE DEF Good, n
        <3>1. n \in S /\ n <= n
            BY <1>1, <1>6
        <3>. QED
            BY <3>1
    <2>. QED
        BY <2>1
<1>8. {lines[i] : i \in {j \in 1 .. n : Keep(lines[j])}}
          = {line \in Range(lines) : Keep(line)}
    BY <1>1 DEF Range
<1>. QED
    BY <1>2, <1>7, <1>8

(***************************************************************************)
(* The label of a record, and the lines of a file.                         *)
(***************************************************************************)

LEMMA LabelType ==
    ASSUME NEW r \in Records
    PROVE  /\ Label[r] \in Nat
           /\ Label[r] # NoStep => Label[r] \in DOMAIN StepsIn[r]
           /\ Matching(Truth[r], StepsIn[r]) # {} =>
                 \/ Label[r] # NoStep /\ Label[r] \in Matching(Truth[r], StepsIn[r])
                 \/ /\ Label[r] = NoStep /\ ByStage(Truth[r])
                    /\ \/ Truth[r].stage = Word
                       \/ Truth[r].stage + 1 \notin DOMAIN StepsIn[r]
<1>1. Trajectory[r] \in Seq(Message) /\ Truth[r] \in GroundTruth
    BY RecordsAssumption
<1>2. StepsIn[r] = StepsOf(Trajectory[r]) /\ Label[r] = MapStep(Truth[r], StepsIn[r])
    BY DEF StepsIn, Label
<1>3. PICK n \in Nat : Len(StepsIn[r]) = n /\ DOMAIN StepsIn[r] = 1 .. n
    BY <1>1, <1>2, StepsAreNumbered
<1>4. Label[r] \in {NoStep} \cup 1 .. n
    BY <1>1, <1>2, <1>3, MappedStepExists
<1>5. Matching(Truth[r], StepsIn[r]) # {} =>
          \/ Label[r] \in Matching(Truth[r], StepsIn[r])
          \/ /\ Label[r] = NoStep /\ ByStage(Truth[r])
             /\ (Truth[r].stage = Word \/ Truth[r].stage + 1 \notin 1 .. n)
    BY <1>1, <1>2, <1>3, MappedStepMatches
<1>6. Matching(Truth[r], StepsIn[r]) \subseteq 1 .. n /\ NoStep \notin 1 .. n
    BY <1>3 DEF Matching, NoStep
<1>. QED
    BY <1>3, <1>4, <1>5, <1>6 DEF NoStep

LEMMA LabelledFits ==
    ASSUME NEW line \in Lines, line.label = Label[line.id]
    PROVE  LabelFits(line)
<1>1. line.id \in Records
    BY DEF Lines
<1>. QED
    BY <1>1, LabelType DEF LabelFits

Written == Lines \cup {Torn, Broken}

LEMMA UnparsedLines == Torn \notin Lines /\ Broken \notin Lines /\ Torn # Broken
<1>1. Torn # Broken
    <2>1. Torn.torn = TRUE /\ Broken.torn = FALSE
        BY DEF Torn, Broken
    <2>. QED
        BY <2>1
<1>2. "id" \notin DOMAIN Torn /\ "id" \notin DOMAIN Broken
    BY DEF Torn, Broken
<1>3. \A line \in Lines : "id" \in DOMAIN line
    BY DEF Lines
<1>. QED
    BY <1>1, <1>2, <1>3

(* What a file can hold: only the last line may be torn. *)
TornIsLast(q) == \A i \in DOMAIN q : q[i] = Torn => i = Len(q)

Results == {q \in Seq(Written) : TornIsLast(q)}

LEMMA ParsedResults ==
    ASSUME NEW q \in Seq(Lines)
    PROVE  q \in Results /\ Torn \notin Range(q) /\ Range(q) \subseteq Lines
<1>1. Len(q) \in Nat /\ DOMAIN q = 1 .. Len(q) /\ \A i \in 1 .. Len(q) : q[i] \in Lines
    BY LenProperties
<1>2. q \in Seq(Written)
    BY DEF Written
<1>3. Range(q) \subseteq Lines
    BY <1>1 DEF Range
<1>4. TornIsLast(q)
    BY <1>1, UnparsedLines DEF TornIsLast
<1>. QED
    BY <1>2, <1>3, <1>4, UnparsedLines DEF Results

(* Some of the lines of a file, one after the other. *)
LEMMA Slice ==
    ASSUME NEW q \in Seq(Written), NEW a \in Nat \ {0}, NEW b \in 0 .. Len(q),
           TornIsLast(q)
    PROVE  /\ SubSeq(q, a, b) \in Results
           /\ Range(SubSeq(q, a, b)) \subseteq Range(q)
           /\ b < Len(q) => Torn \notin Range(SubSeq(q, a, b))
           /\ Unique(q) => Unique(SubSeq(q, a, b))
<1>. DEFINE r == SubSeq(q, a, b)
            n == IF a <= b THEN b - a + 1 ELSE 0
<1>1. Len(q) \in Nat /\ DOMAIN q = 1 .. Len(q) /\ \A i \in 1 .. Len(q) : q[i] \in Written
    BY LenProperties
<1>2. \A i \in a .. b : q[i] \in Written
    BY <1>1
<1>3. r \in Seq(Written) /\ Len(r) = n /\ \A i \in 1 .. b - a + 1 : r[i] = q[a + i - 1]
    BY <1>1, <1>2, SubSeqProperties
<1>4. n \in Nat /\ DOMAIN r = 1 .. n
    BY <1>1, <1>3, LenProperties
<1>. HIDE DEF r
<1>5. \A i \in DOMAIN r : a + i - 1 \in DOMAIN q /\ a + i - 1 <= b /\ r[i] = q[a + i - 1]
    BY <1>1, <1>3, <1>4
<1>6. Range(r) \subseteq Range(q)
    BY <1>5 DEF Range
<1>7. TornIsLast(r)
    <2>1. ASSUME NEW i \in DOMAIN r, r[i] = Torn PROVE i = n
        <3>1. a + i - 1 = Len(q)
            BY <1>5, <2>1 DEF TornIsLast
        <3>. QED
            BY <1>1, <1>4, <1>5, <2>1, <3>1
    <2>. QED
        BY <1>3, <2>1 DEF TornIsLast
<1>8. ASSUME b < Len(q) PROVE Torn \notin Range(r)
    <2>1. ASSUME NEW i \in DOMAIN r, r[i] = Torn PROVE FALSE
        BY <1>1, <1>5, <1>8, <2>1 DEF TornIsLast
    <2>. QED
        BY <2>1 DEF Range
<1>9. Unique(q) => Unique(r)
    <2>1. ASSUME Unique(q), NEW i \in DOMAIN r, NEW j \in DOMAIN r,
                 r[i] \in Lines, r[j] \in Lines, r[i].id = r[j].id
          PROVE  i = j
        <3>1. a + i - 1 = a + j - 1
            BY <1>5, <2>1 DEF Unique
        <3>. QED
            BY <1>4, <3>1
    <2>. QED
        BY <2>1 DEF Unique
<1>. QED
    BY <1>3, <1>6, <1>7, <1>8, <1>9 DEF r, Results

(* One text behind another that does not end in a torn line. *)
LEMMA Concatenated ==
    ASSUME NEW q \in Results, NEW m \in Results, Torn \notin Range(q) \/ m = <<>>
    PROVE  /\ q \o m \in Results
           /\ Range(q \o m) = Range(q) \cup Range(m)
           /\ Unique(q) /\ Unique(m) /\ LineIds(q) \cap LineIds(m) = {} => Unique(q \o m)
<1>. DEFINE r == q \o m
<1>1. q \in Seq(Written) /\ m \in Seq(Written) /\ TornIsLast(q) /\ TornIsLast(m)
    BY DEF Results
<1>2. /\ r \in Seq(Written) /\ Len(r) = Len(q) + Len(m)
      /\ \A i \in 1 .. Len(q) + Len(m) : r[i] = IF i <= Len(q) THEN q[i] ELSE m[i - Len(q)]
    BY <1>1, ConcatProperties
<1>3. /\ Len(q) \in Nat /\ DOMAIN q = 1 .. Len(q) /\ Len(m) \in Nat /\ DOMAIN m = 1 .. Len(m)
      /\ DOMAIN r = 1 .. Len(q) + Len(m)
    BY <1>1, <1>2, LenProperties
<1>. HIDE DEF r
<1>4. \A i \in DOMAIN q : i \in DOMAIN r /\ r[i] = q[i]
    BY <1>2, <1>3
<1>5. \A i \in DOMAIN m : Len(q) + i \in DOMAIN r /\ r[Len(q) + i] = m[i]
    BY <1>2, <1>3
<1>6. \A i \in DOMAIN r :
          \/ i \in DOMAIN q
          \/ i - Len(q) \in DOMAIN m /\ i = Len(q) + (i - Len(q))
    BY <1>3
<1>7. Range(r) = Range(q) \cup Range(m)
    <2>1. Range(q) \subseteq Range(r) /\ Range(m) \subseteq Range(r)
        BY <1>4, <1>5 DEF Range
    <2>2. \A i \in DOMAIN r : r[i] \in Range(q) \cup Range(m)
        BY <1>4, <1>5, <1>6 DEF Range
    <2>. QED
        BY <2>1, <2>2 DEF Range
<1>8. TornIsLast(r)
    <2>1. ASSUME NEW i \in DOMAIN r, r[i] = Torn PROVE i = Len(r)
        <3>1. CASE i \in DOMAIN q
            <4>1. q[i] = Torn /\ i = Len(q)
                BY <1>1, <1>4, <2>1, <3>1 DEF TornIsLast
            <4>2. m = <<>>
                BY <3>1, <4>1 DEF Range
            <4>. QED
                BY <1>2, <1>3, <4>1, <4>2
        <3>2. CASE i - Len(q) \in DOMAIN m /\ i = Len(q) + (i - Len(q))
            <4>1. m[i - Len(q)] = Torn
                BY <1>5, <2>1, <3>2
            <4>2. i - Len(q) = Len(m)
                BY <1>1, <3>2, <4>1 DEF TornIsLast
            <4>. QED
                BY <1>2, <1>3, <3>2, <4>2
        <3>. QED
            BY <1>6, <3>1, <3>2
    <2>. QED
        BY <2>1 DEF TornIsLast
<1>9. ASSUME Unique(q), Unique(m), LineIds(q) \cap LineIds(m) = {}
      PROVE  Unique(r)
    <2>1. \A i \in DOMAIN q : q[i] \in Lines => q[i].id \in LineIds(q)
        BY DEF Range, LineIds
    <2>2. \A i \in DOMAIN m : m[i] \in Lines => m[i].id \in LineIds(m)
        BY DEF Range, LineIds
    <2>3. ASSUME NEW i \in DOMAIN r, NEW j \in DOMAIN r,
                 r[i] \in Lines, r[j] \in Lines, r[i].id = r[j].id
          PROVE  i = j
        <3>. DEFINE k == i - Len(q)
                    l == j - Len(q)
        <3>1. CASE i \in DOMAIN q /\ j \in DOMAIN q
            BY <1>4, <1>9, <2>3, <3>1 DEF Unique
        <3>2. CASE /\ k \in DOMAIN m /\ i = Len(q) + k
                   /\ l \in DOMAIN m /\ j = Len(q) + l
            <4>1. r[i] = m[k] /\ r[j] = m[l]
                BY <1>5, <3>2
            <4>. HIDE DEF k, l
            <4>2. k = l
                BY <1>9, <2>3, <3>2, <4>1 DEF Unique
            <4>. QED
                BY <3>2, <4>2
        <3>3. CASE i \in DOMAIN q /\ l \in DOMAIN m /\ j = Len(q) + l
            <4>1. r[i] = q[i] /\ r[j] = m[l]
                BY <1>4, <1>5, <3>3
            <4>. HIDE DEF l
            <4>. QED
                BY <1>9, <2>1, <2>2, <2>3, <3>3, <4>1
        <3>4. CASE j \in DOMAIN q /\ k \in DOMAIN m /\ i = Len(q) + k
            <4>1. r[j] = q[j] /\ r[i] = m[k]
                BY <1>4, <1>5, <3>4
            <4>. HIDE DEF k
            <4>. QED
                BY <1>9, <2>1, <2>2, <2>3, <3>4, <4>1
        <3>. QED
            BY <1>6, <3>1, <3>2, <3>3, <3>4
    <2>. QED
        BY <2>3 DEF Unique
<1>. QED
    BY <1>2, <1>7, <1>8, <1>9 DEF r, Results

(* A line alone. *)
LEMMA Single ==
    ASSUME NEW e \in Written
    PROVE  /\ <<e>> \in Results /\ Range(<<e>>) = {e} /\ Unique(<<e>>) /\ <<e>> # <<>>
           /\ Head(<<e>>) = e
<1>1. <<e>> \in Seq(Written) /\ Len(<<e>>) = 1 /\ DOMAIN <<e>> = {1} /\ <<e>>[1] = e
    OBVIOUS
<1>2. Range(<<e>>) = {e}
    BY <1>1 DEF Range
<1>3. TornIsLast(<<e>>) /\ Unique(<<e>>)
    BY <1>1 DEF TornIsLast, Unique
<1>. QED
    BY <1>1, <1>2, <1>3 DEF Results

(* What the end of a line does to the lines behind it. *)
LEMMA Headed ==
    ASSUME NEW q \in Results, NEW n \in 1 .. Len(q)
    PROVE  LET r == <<Remainder(q[n])>> \o SubSeq(q, n + 1, Len(q)) IN
           /\ r \in Results
           /\ Range(r) \cap Lines \subseteq Range(q)
           /\ Unique(q) => Unique(r)
<1>. DEFINE e == Remainder(q[n])
            t == SubSeq(q, n + 1, Len(q))
<1>1. q \in Seq(Written) /\ TornIsLast(q) /\ Len(q) \in Nat /\ DOMAIN q = 1 .. Len(q)
    BY LenProperties DEF Results
<1>2. e \in {Torn, Broken} /\ e \in Written /\ e \notin Lines
    BY UnparsedLines DEF Remainder, Written
<1>3. t \in Results /\ Range(t) \subseteq Range(q) /\ (Unique(q) => Unique(t))
    BY <1>1, Slice
<1>4. e # Torn \/ t = <<>>
    <2>1. CASE n = Len(q)
        BY <1>1, <2>1, SubSeqEmpty
    <2>2. CASE n # Len(q)
        <3>1. q[n] # Torn
            BY <1>1, <2>2 DEF TornIsLast
        <3>. QED
            BY <3>1, UnparsedLines DEF Remainder
    <2>. QED
        BY <2>1, <2>2
<1>. HIDE DEF e, t
<1>5. LineIds(<<e>>) = {}
    BY <1>2, Single DEF LineIds
<1>6. Torn \notin Range(<<e>>) \/ t = <<>>
    BY <1>2, <1>4, Single
<1>7. /\ <<e>> \o t \in Results
      /\ Range(<<e>> \o t) = Range(<<e>>) \cup Range(t)
      /\ Unique(t) => Unique(<<e>> \o t)
    BY <1>2, <1>3, <1>5, <1>6, Single, Concatenated
<1>8. Range(<<e>> \o t) \cap Lines \subseteq Range(q)
    BY <1>2, <1>3, <1>7, Single
<1>. QED
    BY <1>3, <1>7, <1>8 DEF e, t

(* A text written behind a file. *)
LEMMA JoinedLines ==
    ASSUME NEW q \in Results, NEW m \in Results
    PROVE  /\ Joined(q, m) \in Results
           /\ Range(q) \cap Lines \subseteq Range(Joined(q, m))
           /\ Range(Joined(q, m)) \cap Lines \subseteq Range(q) \cup Range(m)
           /\ Torn \notin Range(q) => Range(Joined(q, m)) = Range(q) \cup Range(m)
           /\ Unique(q) /\ Unique(m) /\ LineIds(q) \cap LineIds(m) = {}
                  => Unique(Joined(q, m))
<1>1. /\ q \in Seq(Written) /\ TornIsLast(q) /\ Len(q) \in Nat /\ DOMAIN q = 1 .. Len(q)
      /\ m \in Seq(Written) /\ TornIsLast(m) /\ Len(m) \in Nat /\ DOMAIN m = 1 .. Len(m)
    BY LenProperties DEF Results
<1>2. CASE m = <<>> \/ Torn \notin Range(q)
    <2>1. Joined(q, m) = q \o m
        BY <1>2 DEF Joined
    <2>. QED
        BY <1>2, <2>1, Concatenated
<1>3. CASE m # <<>> /\ Torn \in Range(q)
    <2>. DEFINE b == Front(q)
                r == <<Remainder(m[1])>> \o SubSeq(m, 2, Len(m))
    <2>1. 1 \in 1 .. Len(m) /\ Tail(m) = SubSeq(m, 2, Len(m)) /\ Head(m) = m[1]
        BY <1>1, <1>3, EmptySeq, TailIsSubSeq
    <2>2. /\ r \in Results
          /\ Range(r) \cap Lines \subseteq Range(m)
          /\ Unique(m) => Unique(r)
        <3>1. 1 + 1 = 2
            OBVIOUS
        <3>. QED
            BY <2>1, <3>1, Headed
    <2>3. PICK i \in 1 .. Len(q) : q[i] = Torn
        BY <1>1, <1>3 DEF Range
    <2>4. i = Len(q) /\ Len(q) - 1 \in 0 .. Len(q) /\ Len(q) - 1 < Len(q)
        <3>1. i \in DOMAIN q
            BY <1>1
        <3>2. i = Len(q)
            BY <1>1, <2>3, <3>1, Zenon DEF TornIsLast
        <3>. QED
            BY <1>1, <3>2
    <2>5. b = SubSeq(q, 1, Len(q) - 1)
        BY DEF Front
    <2>6. /\ b \in Results /\ Range(b) \subseteq Range(q) /\ Torn \notin Range(b)
          /\ Unique(q) => Unique(b)
        BY <1>1, <2>4, <2>5, Slice
    <2>7. Range(q) \cap Lines \subseteq Range(b)
        <3>1. Len(b) = Len(q) - 1 /\ \A j \in 1 .. Len(q) - 1 : b[j] = q[j]
            <4>1. \A j \in 1 .. Len(q) - 1 : q[j] \in Written
                BY <1>1, LenProperties
            <4>. QED
                BY <1>1, <2>4, <2>5, <4>1, SubSeqProperties
        <3>2. DOMAIN b = 1 .. Len(q) - 1
            BY <2>6, <3>1, LenProperties DEF Results
        <3>. HIDE DEF b
        <3>3. ASSUME NEW j \in DOMAIN q, q[j] \in Lines PROVE q[j] \in Range(b)
            <4>1. j # Len(q)
                BY <2>3, <2>4, <3>3, UnparsedLines
            <4>2. j \in DOMAIN b /\ b[j] = q[j]
                BY <1>1, <3>1, <3>2, <4>1
            <4>. QED
                BY <4>2 DEF Range
        <3>. QED
            BY <3>3 DEF Range
    <2>8. Joined(q, m) = b \o r
        <3>1. Joined(q, m) = (b \o <<Remainder(m[1])>>) \o SubSeq(m, 2, Len(m))
            BY <1>3, <2>1 DEF Joined
        <3>. DEFINE e == <<Remainder(m[1])>>
                    t == SubSeq(m, 2, Len(m))
        <3>2. Remainder(m[1]) \in Written
            BY DEF Remainder, Written
        <3>3. e \in Seq(Written)
            BY <3>2
        <3>4. t \in Seq(Written)
            BY <1>1, Slice DEF Results
        <3>5. b \in Seq(Written)
            BY <2>6 DEF Results
        <3>. HIDE DEF b, e, t
        <3>6. (b \o e) \o t = b \o (e \o t)
            BY <3>3, <3>4, <3>5, ConcatAssociative
        <3>. QED
            BY <3>1, <3>6 DEF e, t
    <2>. HIDE DEF b, r
    <2>9. /\ b \o r \in Results /\ Range(b \o r) = Range(b) \cup Range(r)
          /\ Unique(b) /\ Unique(r) /\ LineIds(b) \cap LineIds(r) = {} => Unique(b \o r)
        BY <2>2, <2>6, Concatenated
    <2>10. LineIds(b) \subseteq LineIds(q) /\ LineIds(r) \subseteq LineIds(m)
        BY <2>2, <2>6 DEF LineIds
    <2>. QED
        BY <1>3, <2>2, <2>6, <2>7, <2>8, <2>9, <2>10
<1>. QED
    BY <1>2, <1>3

LEMMA AppendedLine ==
    ASSUME file \in Results, NEW line \in Lines \cup {Torn}
    PROVE  /\ Appended(line) \in Results
           /\ Range(file) \cap Lines \subseteq Range(Appended(line))
           /\ Range(Appended(line)) \cap Lines \subseteq Range(file) \cup {line}
           /\ Torn \notin Range(file) => Range(Appended(line)) = Range(file) \cup {line}
           /\ Unique(file) /\ (line \in Lines => line.id \notin LineIds(file))
                  => Unique(Appended(line))
<1>1. line \in Written
    BY DEF Written
<1>2. /\ <<line>> \in Results /\ Range(<<line>>) = {line} /\ Unique(<<line>>)
    BY <1>1, Single
<1>3. (line \in Lines => line.id \notin LineIds(file)) => LineIds(file) \cap LineIds(<<line>>) = {}
    BY <1>2 DEF LineIds
<1>. QED
    BY <1>2, <1>3, JoinedLines DEF Appended

(* A text written over the beginning of the file. *)
LEMMA OverWritten ==
    ASSUME file \in Results, NEW text \in Results, NEW f \in Over(text)
    PROVE  /\ f \in Results
           /\ Range(f) \cap Lines \subseteq Range(file) \cup Range(text)
           /\ Unique(file) /\ Unique(text) /\ LineIds(file) \cap LineIds(text) = {}
                  => Unique(f)
           /\ file = <<>> => f = text
<1>1. file \in Seq(Written) /\ TornIsLast(file) /\ text \in Seq(Written) /\ Len(file) \in Nat
    BY LenProperties DEF Results
<1>2. CASE text = <<>>
    BY <1>2 DEF Over
<1>3. CASE text # <<>>
    <2>1. PICK rest \in Rests(file) : f = Joined(text, rest)
        BY <1>3 DEF Over
    <2>2. /\ rest \in Results /\ Range(rest) \cap Lines \subseteq Range(file)
          /\ Unique(file) => Unique(rest)
          /\ file = <<>> => rest = <<>>
        <3>1. CASE file = <<>>
            <4>1. rest = <<>>
                BY <2>1, <3>1 DEF Rests
            <4>. QED
                BY <3>1, <4>1
        <3>2. CASE file # <<>>
            <4>1. PICK n \in 1 .. Len(file) :
                      \/ rest = SubSeq(file, n + 1, Len(file))
                      \/ rest = <<Remainder(file[n])>> \o SubSeq(file, n + 1, Len(file))
                BY <2>1, <3>2 DEF Rests
            <4>2. CASE rest = SubSeq(file, n + 1, Len(file))
                BY <1>1, <3>2, <4>2, Slice
            <4>3. CASE rest = <<Remainder(file[n])>> \o SubSeq(file, n + 1, Len(file))
                BY <3>2, <4>3, Headed
            <4>. QED
                BY <4>1, <4>2, <4>3
        <3>. QED
            BY <3>1, <3>2
    <2>3. LineIds(rest) \subseteq LineIds(file)
        BY <2>2 DEF LineIds
    <2>4. Joined(text, <<>>) = text
        BY <1>1, ConcatEmptySeq DEF Joined
    <2>. QED
        BY <2>1, <2>2, <2>3, <2>4, JoinedLines
<1>. QED
    BY <1>2, <1>3

(* A part of a text. *)
LEMMA PartOf ==
    ASSUME NEW text \in Seq(Lines), NEW part \in Parts(text)
    PROVE  /\ part \in Results
           /\ Range(part) \cap Lines \subseteq Range(text)
           /\ Unique(text) => Unique(part)
<1>1. text \in Seq(Written) /\ TornIsLast(text) /\ Torn \notin Range(text)
    BY ParsedResults DEF Results
<1>2. PICK n \in 0 .. Len(text) :
          part \in {SubSeq(text, 1, n), Append(SubSeq(text, 1, n), Torn)}
    BY DEF Parts
<1>. DEFINE whole == SubSeq(text, 1, n)
<1>3. /\ whole \in Results /\ Range(whole) \subseteq Range(text)
      /\ Unique(text) => Unique(whole)
    BY <1>1, Slice
<1>. HIDE DEF whole
<1>4. CASE part = whole
    BY <1>3, <1>4
<1>5. CASE part = Append(whole, Torn)
    <2>1. Torn \in Written /\ Torn \notin Lines
        BY UnparsedLines DEF Written
    <2>2. part = whole \o <<Torn>>
        BY <1>3, <1>5, <2>1, AppendIsConcat DEF Results
    <2>3. /\ <<Torn>> \in Results /\ Range(<<Torn>>) = {Torn} /\ Unique(<<Torn>>)
        BY <2>1, Single
    <2>4. LineIds(<<Torn>>) = {} /\ Torn \notin Range(whole)
        BY <1>1, <1>3, <2>1, <2>3 DEF LineIds
    <2>. QED
        BY <1>3, <2>1, <2>2, <2>3, <2>4, Concatenated
<1>. QED
    BY <1>2, <1>4, <1>5 DEF whole

LEMMA LastLineOf ==
    ASSUME NEW q \in Seq(Written), Range(q) \subseteq Lines,
           NEW r \in {line.id : line \in Range(q)}
    PROVE  LastLine(q, r) \in Range(q) /\ LastLine(q, r).id = r
<1>. DEFINE S == {i \in DOMAIN q : q[i].id = r}
<1>1. Len(q) \in Nat /\ DOMAIN q = 1 .. Len(q)
    BY LenProperties
<1>2. S # {} /\ S \in SUBSET (0 .. Len(q))
    BY <1>1 DEF Range
<1>. HIDE DEF S
<1>3. PICK i \in S : \A j \in S : j <= i
    BY <1>1, <1>2, GreatestNumber
<1>4. \E k \in DOMAIN q : q[k].id = r /\ \A j \in DOMAIN q : q[j].id = r => j <= k
    BY <1>3 DEF S
<1>5. PICK k \in DOMAIN q : LastLine(q, r) = q[k] /\ q[k].id = r
    BY <1>4 DEF LastLine
<1>. QED
    BY <1>5 DEF Range

(***************************************************************************)
(* The inductive invariant.                                                *)
(***************************************************************************)

(* What an invocation has in hand at each point of its loop. *)
Control ==
    \A p \in Procs :
        /\ pc[p] \in {"ask", "append"} => record[p] \in Records
        /\ pc[p] \in {"idle", "next", "ask"} => answer[p] = 0
        /\ pc[p] = "append" => answer[p] > 0

(* Only the last line may be without an end, and without a death and a race *)
(* with drop_results there is no line that cannot be parsed.                *)
Shape ==
    /\ TornIsLast(file)
    /\ crashes = 0 /\ ~raced => Range(file) \subseteq Lines
    /\ Labelled(file)

(* What drop_results holds while it is under way is part of the file until  *)
(* it truncates it, and all that is to be kept as long as no append came in *)
(* between; what is appended afterwards is of other records.                *)
Dropping ==
    /\ Labelled(kept)
    /\ ~overlap /\ ~blind => Unique(kept)
    /\ dropPc = "idle" => kept = <<>>
    /\ dropPc = "truncate" =>
          /\ Range(kept) \subseteq Range(file)
          /\ crashes = 0 /\ ~raced =>
                \A line \in Range(file) \cap Lines : Keep(line) => line \in Range(kept)
    /\ dropPc = "write" =>
          /\ ~overlap /\ ~blind => LineIds(kept) \cap LineIds(file) = {}
          /\ crashes = 0 /\ ~raced => file = <<>>

(* The records that have a line, or will have it back. *)
Held == LineIds(file) \cup LineIds(kept)

(* An invocation that is alone and read the whole file has in hand only     *)
(* records without a line.                                                  *)
Alone ==
    ~overlap /\ ~blind =>
        \A p \in Procs :
            UnderWay(p) =>
                /\ \A q \in Procs : UnderWay(q) => q = p
                /\ todo[p] \cap Held = {}
                /\ pc[p] \in {"ask", "append"} => record[p] \notin Held \cup todo[p]

IInv ==
    /\ TypeOK
    /\ Control
    /\ Shape
    /\ Dropping
    /\ Alone
    /\ NoDuplicates
    /\ AnswersKept

LEMMA Initially == Init => IInv
<1>. SUFFICES ASSUME Init PROVE IInv
    OBVIOUS
<1>1. Attempts \in Nat \ {0} /\ MaxCrashes \in Nat
    BY BoundsAssumption
<1>2. Range(<<>>) = {}
    BY DEF Range
<1>3. TypeOK
    <2>1. 0 \in 0 .. Attempts - 1 /\ 0 \in 0 .. MaxCrashes
        BY <1>1
    <2>2. <<>> \in Seq(Lines \cup {Torn, Broken}) /\ <<>> \in Seq(Lines)
        OBVIOUS
    <2>3. /\ asked \in [Records -> Nat]
          /\ attempt \in [Procs -> 0 .. Attempts - 1]
          /\ answer \in [Procs -> Nat]
        BY <2>1 DEF Init
    <2>4. /\ sample \in [Procs -> SUBSET Records]
          /\ todo \in [Procs -> SUBSET Records]
          /\ record \in [Procs -> Records \cup {NoRecord}]
          /\ rows \in [Procs -> SUBSET Lines]
          /\ pc \in [Procs -> {"idle", "next", "ask", "append", "done", "failed", "dead"}]
        BY DEF Init
    <2>. QED
        BY <2>1, <2>2, <2>3, <2>4 DEF Init, TypeOK
<1>4. Control
    BY DEF Init, Control
<1>5. Shape
    BY <1>2 DEF Init, Shape, TornIsLast, Labelled
<1>6. Dropping
    BY <1>2 DEF Init, Dropping, Labelled, Unique
<1>7. Alone
    BY DEF Init, Alone, UnderWay
<1>8. NoDuplicates
    BY DEF Init, NoDuplicates
<1>9. AnswersKept
    BY DEF Init, AnswersKept
<1>. QED
    BY <1>3, <1>4, <1>5, <1>6, <1>7, <1>8, <1>9 DEF IInv

(* What a step leaves of the file, and what it leaves of the answers.       *)
LEMMA FileIdle ==
    ASSUME IInv, UNCHANGED <<file, kept, dropPc>>,
           ~overlap' => ~overlap, ~blind' => ~blind, ~raced' => ~raced,
           crashes' = 0 => crashes = 0
    PROVE  Shape' /\ Dropping' /\ NoDuplicates'
<1>1. Shape'
    BY DEF IInv, Shape, TornIsLast, Labelled
<1>2. Dropping'
    BY DEF IInv, Dropping, LineIds, Labelled, Unique, Keep
<1>3. NoDuplicates'
    BY DEF IInv, NoDuplicates
<1>. QED
    BY <1>1, <1>2, <1>3

LEMMA AnswersStay ==
    ASSUME IInv, UNCHANGED <<asked, answer>>,
           ~raced' => ~raced, crashes' = 0 => crashes = 0,
           \A q \in Procs : record'[q] = record[q] \/ answer[q] = 0,
           crashes = 0 /\ ~raced =>
               \A line \in (Range(file) \cup Range(kept)) \cap Lines :
                   Keep(line) => line \in Range(file') \cup Range(kept')
    PROVE  AnswersKept'
<1>1. ASSUME crashes' = 0, ~raced', NEW r \in Records \ DropFw, NEW n \in 1 .. asked[r]
      PROVE  \/ \E line \in (Range(file') \cup Range(kept')) \cap Lines :
                    line.id = r /\ line.answer = n
             \/ \E q \in Procs : record'[q] = r /\ answer[q] = n
    <2>1. n # 0
        BY DEF IInv, TypeOK
    <2>2. CASE \E line \in (Range(file) \cup Range(kept)) \cap Lines :
                   line.id = r /\ line.answer = n
        BY <1>1, <2>2 DEF Keep
    <2>3. CASE \E q \in Procs : record[q] = r /\ answer[q] = n
        BY <2>1, <2>3
    <2>. QED
        BY <1>1, <2>2, <2>3 DEF IInv, AnswersKept
<1>. QED
    BY <1>1 DEF AnswersKept

LEMMA AnswersIdle ==
    ASSUME IInv, UNCHANGED <<file, kept, asked, answer>>,
           ~raced' => ~raced, crashes' = 0 => crashes = 0,
           \A q \in Procs : record'[q] = record[q] \/ answer[q] = 0
    PROVE  AnswersKept'
BY AnswersStay

LEMMA StartPreserves ==
    ASSUME IInv, NEW p \in Procs, Start(p)
    PROVE  IInv'
<1>1. Shape' /\ Dropping' /\ NoDuplicates'
    BY FileIdle DEF Start, dropVars, IInv, TypeOK
<1>2. PICK s \in SUBSET Records \ {{}} : sample' = [sample EXCEPT ![p] = s]
    BY DEF Start
<1>3. sample'[p] = s
    BY <1>2 DEF IInv, TypeOK
<1>4. pc' \in {[pc EXCEPT ![p] = "next"], [pc EXCEPT ![p] = "failed"]}
      /\ todo' \in {todo, [todo EXCEPT ![p] = Todo(s)]}
    BY <1>3 DEF Start
<1>5. TypeOK'
    <2>1. Todo(s) \in SUBSET Records
        BY DEF Todo
    <2>2. overlap' \in BOOLEAN /\ blind' \in BOOLEAN
        BY DEF Start
    <2>3. sample' \in [Procs -> SUBSET Records]
        BY <1>2 DEF IInv, TypeOK
    <2>4. todo' \in [Procs -> SUBSET Records]
        BY <1>4, <2>1 DEF IInv, TypeOK
    <2>5. pc' \in [Procs -> {"idle", "next", "ask", "append", "done", "failed", "dead"}]
        BY <1>4 DEF IInv, TypeOK
    <2>. QED
        BY <2>2, <2>3, <2>4, <2>5 DEF IInv, TypeOK, Start, dropVars
<1>6. Control'
    BY <1>4 DEF IInv, TypeOK, Control, Start
<1>7. Alone'
    <2>1. ASSUME ~overlap', NEW q \in Procs, UnderWay(q)' PROVE q = p
        BY <1>4, <2>1 DEF IInv, TypeOK, Start, UnderWay
    <2>2. ASSUME UnderWay(p)' PROVE pc'[p] = "next" /\ todo'[p] = Todo(s)
        BY <1>3, <2>2 DEF IInv, TypeOK, Start, UnderWay
    <2>3. Todo(s) \cap LineIds(file) = {}
        BY DEF Todo, Ids, LineIds
    <2>4. ASSUME ~blind' PROVE LineIds(kept) \subseteq LineIds(file)
        <3>1. dropPc \in {"idle", "truncate"}
            BY <2>4 DEF IInv, TypeOK, Start
        <3>2. Range(<<>>) = {}
            BY DEF Range
        <3>3. Range(kept) \subseteq Range(file)
            BY <3>1, <3>2 DEF IInv, Dropping
        <3>. QED
            BY <3>3 DEF LineIds
    <2>5. Held' = Held
        BY DEF Start, dropVars, LineIds, Held
    <2>. QED
        BY <2>1, <2>2, <2>3, <2>4, <2>5 DEF Alone, Held
<1>8. AnswersKept'
    BY AnswersIdle DEF Start, dropVars
<1>. QED
    BY <1>1, <1>5, <1>6, <1>7, <1>8 DEF IInv

LEMMA NextRecordPreserves ==
    ASSUME IInv, NEW p \in Procs, NextRecord(p)
    PROVE  IInv'
<1>1. Shape' /\ Dropping' /\ NoDuplicates'
    BY FileIdle DEF NextRecord, dropVars
<1>2. PICK r \in todo[p] :
          /\ todo' = [todo EXCEPT ![p] = @ \ {r}]
          /\ \/ UNCHANGED <<pc, record>>
             \/ pc' = [pc EXCEPT ![p] = "ask"] /\ record' = [record EXCEPT ![p] = r]
    BY DEF NextRecord
<1>3. r \in Records /\ pc[p] = "next" /\ answer[p] = 0
    BY DEF IInv, TypeOK, Control, NextRecord
<1>4. TypeOK'
    <2>1. todo' \in [Procs -> SUBSET Records]
        BY <1>2 DEF IInv, TypeOK
    <2>2. record' \in [Procs -> Records \cup {NoRecord}]
        BY <1>2, <1>3 DEF IInv, TypeOK
    <2>3. pc' \in [Procs -> {"idle", "next", "ask", "append", "done", "failed", "dead"}]
        BY <1>2 DEF IInv, TypeOK
    <2>. QED
        BY <2>1, <2>2, <2>3 DEF IInv, TypeOK, NextRecord, dropVars
<1>5. Control'
    BY <1>2, <1>3 DEF IInv, TypeOK, Control, NextRecord
<1>6. Alone'
    <2>1. Held' = Held /\ overlap' = overlap /\ blind' = blind
        BY DEF NextRecord, dropVars, LineIds, Held
    <2>2. \A q \in Procs : UnderWay(q)' => UnderWay(q)
        BY <1>2, <1>3 DEF IInv, TypeOK, UnderWay
    <2>3. UnderWay(p)
        BY <1>3 DEF UnderWay
    <2>4. todo'[p] = todo[p] \ {r} /\ \A q \in Procs : todo'[q] \subseteq todo[q]
        BY <1>2 DEF IInv, TypeOK
    <2>5. pc'[p] = "next" \/ (pc'[p] = "ask" /\ record'[p] = r)
        BY <1>2, <1>3 DEF IInv, TypeOK
    <2>6. ASSUME ~overlap', ~blind', NEW q \in Procs, UnderWay(q)'
          PROVE  /\ \A o \in Procs : UnderWay(o)' => o = q
                 /\ todo'[q] \cap Held = {}
                 /\ pc'[q] \in {"ask", "append"} => record'[q] \notin Held \cup todo'[q]
        <3>1. q = p
            BY <2>1, <2>2, <2>3, <2>6 DEF IInv, Alone
        <3>2. \A o \in Procs : UnderWay(o)' => o = p
            BY <2>1, <2>2, <2>3, <2>6 DEF IInv, Alone
        <3>3. todo[p] \cap Held = {}
            BY <2>1, <2>3, <2>6 DEF IInv, Alone
        <3>. QED
            BY <2>4, <2>5, <3>1, <3>2, <3>3
    <2>. QED
        BY <2>1, <2>6 DEF Alone
<1>7. AnswersKept'
    <2>1. \A q \in Procs : record'[q] = record[q] \/ answer[q] = 0
        BY <1>2, <1>3 DEF IInv, TypeOK
    <2>2. UNCHANGED <<file, kept, asked, answer, raced, crashes>>
        BY DEF NextRecord, dropVars
    <2>. QED
        BY <2>1, <2>2, AnswersIdle
<1>. QED
    BY <1>1, <1>4, <1>5, <1>6, <1>7 DEF IInv

(* A step in which an invocation goes on with the same file, or stops.      *)
LEMMA AloneIdle ==
    ASSUME IInv, Held' \subseteq Held, UNCHANGED <<todo, overlap, blind>>,
           \A q \in Procs :
               UnderWay(q)' =>
                   /\ UnderWay(q)
                   /\ pc'[q] \in {"ask", "append"} =>
                          pc[q] \in {"ask", "append"} /\ record'[q] = record[q]
    PROVE  Alone'
<1>1. ASSUME ~overlap, ~blind, NEW q \in Procs, UnderWay(q)'
      PROVE  /\ \A o \in Procs : UnderWay(o)' => o = q
             /\ todo[q] \cap Held' = {}
             /\ pc'[q] \in {"ask", "append"} => record'[q] \notin Held' \cup todo[q]
    BY <1>1 DEF IInv, Alone
<1>. QED
    BY <1>1 DEF Alone

LEMMA JevAnswersPreserves ==
    ASSUME IInv, NEW p \in Procs, JevAnswers(p)
    PROVE  IInv'
<1>1. Shape' /\ Dropping' /\ NoDuplicates'
    BY FileIdle DEF JevAnswers, dropVars
<1>. DEFINE r == record[p]
<1>2. r \in Records /\ pc[p] = "ask" /\ answer[p] = 0
    BY DEF IInv, Control, JevAnswers
<1>3. /\ asked' = [asked EXCEPT ![r] = @ + 1]
      /\ answer' = [answer EXCEPT ![p] = asked[r] + 1]
      /\ pc' = [pc EXCEPT ![p] = "append"]
      /\ record' = record
    BY <1>2 DEF IInv, TypeOK, JevAnswers
<1>. HIDE DEF r
<1>4. TypeOK'
    <2>1. asked' \in [Records -> Nat] /\ answer' \in [Procs -> Nat]
        BY <1>2, <1>3 DEF IInv, TypeOK
    <2>2. pc' \in [Procs -> {"idle", "next", "ask", "append", "done", "failed", "dead"}]
        BY <1>3 DEF IInv, TypeOK
    <2>3. attempt' \in [Procs -> 0 .. Attempts - 1]
        BY BoundsAssumption DEF IInv, TypeOK, JevAnswers
    <2>. QED
        BY <2>1, <2>2, <2>3 DEF IInv, TypeOK, JevAnswers, dropVars
<1>5. Control'
    BY <1>2, <1>3 DEF IInv, TypeOK, Control
<1>6. Alone'
    <2>1. Held' = Held /\ UNCHANGED <<todo, overlap, blind>>
        BY DEF JevAnswers, dropVars, LineIds, Held
    <2>2. \A q \in Procs : UnderWay(q)' => UnderWay(q) /\ (pc'[q] \in {"ask", "append"}
                               => pc[q] \in {"ask", "append"})
        BY <1>2, <1>3 DEF IInv, TypeOK, UnderWay
    <2>. QED
        BY <1>3, <2>1, <2>2, AloneIdle
<1>7. AnswersKept'
    <2>. DEFINE there == (Range(file) \cup Range(kept)) \cap Lines
    <2>1. ASSUME crashes' = 0, ~raced', NEW s \in Records \ DropFw, NEW n \in 1 .. asked'[s]
          PROVE  \/ \E line \in there : line.id = s /\ line.answer = n
                 \/ \E q \in Procs : record'[q] = s /\ answer'[q] = n
        <3>1. UNCHANGED <<crashes, raced>> /\ asked[s] \in Nat /\ asked'[s] \in Nat /\ n \in Nat /\ n # 0
            BY <1>4 DEF IInv, TypeOK, JevAnswers
        <3>2. CASE s = r /\ n = asked[r] + 1
            <4>1. record'[p] = s /\ answer'[p] = n
                BY <1>3, <3>2 DEF r, IInv, TypeOK
            <4>. QED
                BY <4>1
        <3>3. CASE n \in 1 .. asked[s]
            <4>1. \/ \E line \in there : line.id = s /\ line.answer = n
                  \/ \E q \in Procs : record[q] = s /\ answer[q] = n
                BY <2>1, <3>1, <3>3 DEF IInv, AnswersKept
            <4>2. \A q \in Procs : answer[q] = n => q # p /\ answer'[q] = n
                BY <1>2, <1>3, <3>1 DEF IInv, TypeOK
            <4>. QED
                BY <1>3, <4>1, <4>2
        <3>4. n \in 1 .. asked[s] \/ (s = r /\ n = asked[r] + 1)
            BY <1>2, <1>3, <3>1 DEF IInv, TypeOK
        <3>. QED
            BY <3>2, <3>3, <3>4
    <2>2. file' = file /\ kept' = kept
        BY DEF JevAnswers, dropVars
    <2>. QED
        BY <2>1, <2>2 DEF AnswersKept
<1>. QED
    BY <1>1, <1>4, <1>5, <1>6, <1>7 DEF IInv

LEMMA NoAnswerPreserves ==
    ASSUME IInv, NEW p \in Procs, NoAnswer(p)
    PROVE  IInv'
<1>1. Shape' /\ Dropping' /\ NoDuplicates'
    BY FileIdle DEF NoAnswer, dropVars
<1>2. pc[p] = "ask" /\ answer[p] = 0
    BY DEF IInv, Control, NoAnswer, JevFails
<1>3. \/ UNCHANGED <<pc, record>>
      \/ /\ pc' = [pc EXCEPT ![p] = "next"]
         /\ record' = [record EXCEPT ![p] = NoRecord]
    BY DEF NoAnswer, JevFails
<1>4. TypeOK'
    <2>1. attempt' \in [Procs -> 0 .. Attempts - 1]
        <3>1. attempt[p] \in 0 .. Attempts - 1 /\ Attempts \in Nat \ {0}
            BY BoundsAssumption DEF IInv, TypeOK
        <3>2. \E n \in 0 .. Attempts - 1 : attempt' = [attempt EXCEPT ![p] = n]
            <4>1. CASE attempt[p] + 1 < Attempts /\ attempt' = [attempt EXCEPT ![p] = @ + 1]
                <5>1. attempt[p] + 1 \in 0 .. Attempts - 1
                    BY <3>1, <4>1
                <5>. QED
                    BY <4>1, <5>1
            <4>2. CASE attempt' = [attempt EXCEPT ![p] = 0]
                <5>1. 0 \in 0 .. Attempts - 1
                    BY <3>1
                <5>. QED
                    BY <4>2, <5>1
            <4>. QED
                BY <4>1, <4>2 DEF NoAnswer, JevFails
        <3>. QED
            BY <3>2 DEF IInv, TypeOK
    <2>2. pc' \in [Procs -> {"idle", "next", "ask", "append", "done", "failed", "dead"}]
        BY <1>3 DEF IInv, TypeOK
    <2>3. record' \in [Procs -> Records \cup {NoRecord}]
        BY <1>3 DEF IInv, TypeOK
    <2>. QED
        BY <2>1, <2>2, <2>3 DEF IInv, TypeOK, NoAnswer, dropVars
<1>5. Control'
    BY <1>2, <1>3 DEF IInv, TypeOK, Control, NoAnswer
<1>6. Alone'
    <2>1. Held' = Held /\ UNCHANGED <<todo, overlap, blind>>
        BY DEF NoAnswer, dropVars, LineIds, Held
    <2>2. \A q \in Procs : UnderWay(q)' => UnderWay(q) /\ (pc'[q] \in {"ask", "append"}
                               => pc[q] \in {"ask", "append"} /\ record'[q] = record[q])
        BY <1>2, <1>3 DEF IInv, TypeOK, UnderWay
    <2>. QED
        BY <2>1, <2>2, AloneIdle
<1>7. AnswersKept'
    <2>1. \A q \in Procs : record'[q] = record[q] \/ answer[q] = 0
        BY <1>2, <1>3 DEF IInv, TypeOK
    <2>. QED
        BY <2>1, AnswersIdle DEF NoAnswer, dropVars
<1>. QED
    BY <1>1, <1>4, <1>5, <1>6, <1>7 DEF IInv

LEMMA MetricsPreserves ==
    ASSUME IInv, NEW p \in Procs, Metrics(p)
    PROVE  IInv'
<1>1. Shape' /\ Dropping' /\ NoDuplicates'
    BY FileIdle DEF Metrics, dropVars
<1>2. pc' \in {[pc EXCEPT ![p] = "done"], [pc EXCEPT ![p] = "failed"]}
    BY DEF Metrics
<1>3. TypeOK'
    <2>1. rows' \in [Procs -> SUBSET Lines]
        <3>1. CASE AllParsed /\ rows' = [rows EXCEPT ![p] = Rows(sample[p])]
            <4>1. file \in Seq(Written) /\ Range(file) \subseteq Lines
                BY <3>1 DEF IInv, TypeOK, Written, AllParsed
            <4>2. Rows(sample[p]) \subseteq Lines
                <5>1. \A r \in Ids : LastLine(file, r) \in Lines
                    BY <4>1, LastLineOf DEF Ids
                <5>. QED
                    BY <5>1 DEF Rows
            <4>. QED
                BY <3>1, <4>2 DEF IInv, TypeOK
        <3>2. CASE rows' = rows
            BY <3>2 DEF IInv, TypeOK
        <3>. QED
            BY <3>1, <3>2 DEF Metrics
    <2>2. pc' \in [Procs -> {"idle", "next", "ask", "append", "done", "failed", "dead"}]
        BY <1>2 DEF IInv, TypeOK
    <2>. QED
        BY <2>1, <2>2 DEF IInv, TypeOK, Metrics, dropVars
<1>4. Control'
    BY <1>2 DEF IInv, TypeOK, Control, Metrics
<1>5. Alone'
    <2>1. Held' = Held /\ UNCHANGED <<todo, overlap, blind, record>>
        BY DEF Metrics, dropVars, LineIds, Held
    <2>2. \A q \in Procs : UnderWay(q)' => UnderWay(q) /\ (pc'[q] \in {"ask", "append"}
                               => pc[q] \in {"ask", "append"})
        BY <1>2 DEF IInv, TypeOK, UnderWay
    <2>. QED
        BY <2>1, <2>2, AloneIdle
<1>6. AnswersKept'
    BY AnswersIdle DEF Metrics, dropVars
<1>. QED
    BY <1>1, <1>3, <1>4, <1>5, <1>6 DEF IInv

LEMMA AppendLinePreserves ==
    ASSUME IInv, NEW p \in Procs, AppendLine(p)
    PROVE  IInv'
<1>. DEFINE r == record[p]
            line == [id |-> r, answer |-> answer[p], label |-> Label[r]]
<1>1. r \in Records /\ pc[p] = "append" /\ answer[p] \in Nat \ {0}
    BY DEF IInv, TypeOK, Control, AppendLine
<1>2. line \in Lines /\ line.id = r /\ line.answer = answer[p] /\ line.label = Label[r]
    BY <1>1, LabelType DEF Lines
<1>3. /\ file' = Appended(line)
      /\ pc' = [pc EXCEPT ![p] = "next"]
      /\ record' = [record EXCEPT ![p] = NoRecord]
      /\ answer' = [answer EXCEPT ![p] = 0]
      /\ exists' = TRUE /\ raced' = (raced \/ dropPc # "idle")
      /\ UNCHANGED <<asked, sample, todo, attempt, rows, dropPc, kept, crashes, overlap,
                     blind>>
    BY DEF AppendLine, dropVars
<1>. HIDE DEF line
<1>. HIDE DEF r
<1>4. /\ file' \in Results
      /\ Range(file) \cap Lines \subseteq Range(file')
      /\ Range(file') \cap Lines \subseteq Range(file) \cup {line}
      /\ Torn \notin Range(file) => Range(file') = Range(file) \cup {line}
      /\ Unique(file) /\ line.id \notin LineIds(file) => Unique(file')
    BY <1>2, <1>3, AppendedLine DEF IInv, TypeOK, Shape, Written, Results
<1>5. LineIds(file') \subseteq LineIds(file) \cup {r}
    BY <1>2, <1>4 DEF LineIds
<1>6. TypeOK'
    <2>1. pc' \in [Procs -> {"idle", "next", "ask", "append", "done", "failed", "dead"}]
        BY <1>3 DEF IInv, TypeOK
    <2>2. record' \in [Procs -> Records \cup {NoRecord}] /\ answer' \in [Procs -> Nat]
        BY <1>3 DEF IInv, TypeOK
    <2>3. raced' \in BOOLEAN /\ exists' \in BOOLEAN
        BY <1>3
    <2>. QED
        BY <1>3, <1>4, <2>1, <2>2, <2>3 DEF IInv, TypeOK, Written, Results
<1>7. Control'
    BY <1>3 DEF IInv, TypeOK, Control
<1>8. Shape'
    <2>1. Labelled(file')
        BY <1>2, <1>4 DEF IInv, Shape, Labelled
    <2>2. ASSUME crashes' = 0, ~raced' PROVE Range(file') \subseteq Lines
        <3>1. Range(file) \subseteq Lines
            BY <1>3, <2>2 DEF IInv, Shape
        <3>. QED
            BY <1>2, <1>4, <3>1, UnparsedLines
    <2>. QED
        BY <1>4, <2>1, <2>2 DEF Shape, TornIsLast, Labelled, Results
<1>9. ASSUME ~overlap, ~blind
      PROVE  /\ r \notin Held \cup todo[p] /\ todo[p] \cap Held = {}
             /\ \A q \in Procs : UnderWay(q) => q = p
    BY <1>1, <1>9 DEF IInv, Alone, UnderWay, r
<1>10. Dropping'
    <2>1. ASSUME dropPc = "truncate" PROVE Range(kept) \subseteq Range(file')
        <3>1. Range(kept) \subseteq Range(file) \cap Lines
            BY <2>1, ParsedResults DEF IInv, TypeOK, Dropping
        <3>. QED
            BY <1>4, <3>1
    <2>2. ASSUME dropPc = "write", ~overlap, ~blind
          PROVE  LineIds(kept) \cap LineIds(file') = {}
        BY <1>5, <1>9, <2>2 DEF IInv, Dropping, Held
    <2>3. dropPc # "idle" => raced'
        BY <1>3
    <2>4. /\ Labelled(kept)
          /\ ~overlap /\ ~blind => Unique(kept)
          /\ dropPc = "idle" => kept = <<>>
        BY DEF IInv, Dropping
    <2>. QED
        BY <1>3, <2>1, <2>2, <2>3, <2>4 DEF Dropping, LineIds, Labelled, Unique
<1>11. Alone'
    <2>1. ASSUME ~overlap', ~blind', NEW q \in Procs, UnderWay(q)'
          PROVE  /\ \A o \in Procs : UnderWay(o)' => o = q
                 /\ todo'[q] \cap Held' = {}
                 /\ pc'[q] \notin {"ask", "append"}
        <3>1. \A o \in Procs : UnderWay(o)' => UnderWay(o)
            BY <1>1, <1>3 DEF IInv, TypeOK, UnderWay
        <3>2. q = p /\ \A o \in Procs : UnderWay(o)' => o = p
            BY <1>3, <1>9, <2>1, <3>1
        <3>3. Held' \subseteq Held \cup {r}
            BY <1>3, <1>5 DEF Held, LineIds
        <3>4. todo'[p] \cap Held' = {} /\ pc'[p] = "next"
            BY <1>3, <1>9, <2>1, <3>3 DEF IInv, TypeOK
        <3>. QED
            BY <3>2, <3>4
    <2>. QED
        BY <2>1 DEF Alone
<1>12. NoDuplicates'
    <2>1. ~overlap /\ ~blind => Unique(file')
        BY <1>2, <1>4, <1>9 DEF IInv, NoDuplicates, Unique, Held
    <2>. QED
        BY <1>3, <2>1 DEF NoDuplicates, Unique
<1>13. AnswersKept'
    <2>. DEFINE there == (Range(file') \cup Range(kept)) \cap Lines
    <2>1. ASSUME crashes' = 0, ~raced', NEW s \in Records \ DropFw, NEW n \in 1 .. asked[s]
          PROVE  \/ \E l \in there : l.id = s /\ l.answer = n
                 \/ \E q \in Procs : record'[q] = s /\ answer'[q] = n
        <3>1. crashes = 0 /\ ~raced
            BY <1>3, <2>1
        <3>2. Range(file') = Range(file) \cup {line}
            BY <1>4, <3>1, UnparsedLines DEF IInv, Shape
        <3>3. CASE \E l \in (Range(file) \cup Range(kept)) \cap Lines :
                       l.id = s /\ l.answer = n
            BY <3>2, <3>3
        <3>4. ASSUME NEW q \in Procs, record[q] = s, answer[q] = n
              PROVE  \/ \E l \in there : l.id = s /\ l.answer = n
                     \/ record'[q] = s /\ answer'[q] = n
            <4>1. CASE q = p
                <5>1. line.id = s /\ line.answer = n /\ line \in there
                    BY <1>2, <3>2, <3>4, <4>1 DEF r
                <5>. QED
                    BY <5>1
            <4>2. CASE q # p
                BY <1>3, <3>4, <4>2 DEF IInv, TypeOK
            <4>. QED
                BY <4>1, <4>2
        <3>. QED
            BY <2>1, <3>1, <3>3, <3>4 DEF IInv, AnswersKept
    <2>. QED
        BY <1>3, <2>1 DEF AnswersKept
<1>. QED
    BY <1>6, <1>7, <1>8, <1>10, <1>11, <1>12, <1>13 DEF IInv

LEMMA DiePreserves ==
    ASSUME IInv, NEW p \in Procs, Die(p)
    PROVE  IInv'
<1>1. /\ pc' = [pc EXCEPT ![p] = "dead"] /\ crashes' = crashes + 1 /\ crashes < MaxCrashes
      /\ UNCHANGED <<asked, sample, todo, record, attempt, answer, rows, dropPc, kept, overlap,
                     blind>>
      /\ \/ UNCHANGED <<exists, file, raced>>
         \/ exists' = TRUE /\ file' = Appended(Torn) /\ raced' \in BOOLEAN
    BY DEF Die, dropVars
<1>2. /\ crashes \in Nat /\ crashes' \in 0 .. MaxCrashes /\ crashes' # 0
    BY <1>1, BoundsAssumption DEF IInv, TypeOK
<1>3. /\ file' \in Results
      /\ Range(file') \cap Lines = Range(file) \cap Lines
      /\ Unique(file) => Unique(file')
    <2>1. file \in Results
        BY DEF IInv, TypeOK, Shape, Written, Results
    <2>2. CASE file' = Appended(Torn)
        <3>1. /\ Range(file) \cap Lines \subseteq Range(file')
              /\ Range(file') \cap Lines \subseteq Range(file) \cup {Torn}
              /\ file' \in Results /\ (Unique(file) => Unique(file'))
            BY <2>1, <2>2, AppendedLine, UnparsedLines
        <3>. QED
            BY <3>1, UnparsedLines
    <2>. QED
        BY <1>1, <2>1, <2>2
<1>4. LineIds(file') = LineIds(file)
    BY <1>3 DEF LineIds
<1>5. TypeOK'
    <2>1. pc' \in [Procs -> {"idle", "next", "ask", "append", "done", "failed", "dead"}]
        BY <1>1 DEF IInv, TypeOK
    <2>2. raced' \in BOOLEAN /\ exists' \in BOOLEAN
        BY <1>1 DEF IInv, TypeOK
    <2>. QED
        BY <1>1, <1>2, <1>3, <2>1, <2>2 DEF IInv, TypeOK, Written, Results
<1>6. Control'
    BY <1>1 DEF IInv, TypeOK, Control
<1>7. Shape'
    BY <1>2, <1>3 DEF IInv, Shape, TornIsLast, Labelled, Results
<1>8. Dropping'
    <2>1. ASSUME dropPc = "truncate" PROVE Range(kept) \subseteq Range(file')
        <3>1. Range(kept) \subseteq Range(file) \cap Lines
            BY <2>1, ParsedResults DEF IInv, TypeOK, Dropping
        <3>. QED
            BY <1>3, <3>1
    <2>2. ASSUME dropPc = "write", ~overlap, ~blind
          PROVE  LineIds(kept) \cap LineIds(file') = {}
        BY <1>4, <2>2 DEF IInv, Dropping
    <2>3. /\ Labelled(kept)
          /\ ~overlap /\ ~blind => Unique(kept)
          /\ dropPc = "idle" => kept = <<>>
        BY DEF IInv, Dropping
    <2>. QED
        BY <1>1, <1>2, <2>1, <2>2, <2>3 DEF Dropping, LineIds, Labelled, Unique
<1>9. Alone'
    <2>1. \A q \in Procs : UnderWay(q)' => UnderWay(q) /\ (pc'[q] \in {"ask", "append"}
                               => pc[q] \in {"ask", "append"})
        BY <1>1 DEF IInv, TypeOK, UnderWay
    <2>2. Held' = Held
        BY <1>1, <1>4 DEF Held, LineIds
    <2>. QED
        BY <1>1, <2>1, <2>2, AloneIdle
<1>10. NoDuplicates'
    BY <1>1, <1>3 DEF IInv, NoDuplicates, Unique
<1>11. AnswersKept'
    BY <1>2 DEF AnswersKept
<1>. QED
    BY <1>5, <1>6, <1>7, <1>8, <1>9, <1>10, <1>11 DEF IInv

LEMMA DropReadPreserves ==
    ASSUME IInv, DropRead
    PROVE  IInv'
<1>1. file \in Seq(Written) /\ Range(file) \subseteq Lines /\ file \in Seq(Lines)
    <2>1. file \in Seq(Written) /\ Range(file) \subseteq Lines
        BY DEF IInv, TypeOK, Written, DropRead, AllParsed
    <2>2. Len(file) \in Nat /\ DOMAIN file = 1 .. Len(file) /\ file = [i \in 1 .. Len(file) |-> file[i]]
        BY <2>1, LenProperties
    <2>3. \A i \in 1 .. Len(file) : file[i] \in Lines
        BY <2>1, <2>2 DEF Range
    <2>. QED
        BY <2>1, <2>2, <2>3, SeqDef
<1>2. /\ Kept(file) \in Seq(Lines)
      /\ Range(Kept(file)) = {line \in Range(file) : Keep(line)}
      /\ Unique(file) => Unique(Kept(file))
    BY <1>1, KeptLines
<1>3. kept' = Kept(file) /\ dropPc' = "truncate" /\ dropPc = "idle"
      /\ UNCHANGED <<exists, file, asked, pc, sample, todo, record, attempt, answer, rows,
                     crashes, overlap, raced, blind>>
    BY DEF DropRead, procVars
<1>4. TypeOK'
    BY <1>2, <1>3 DEF IInv, TypeOK
<1>5. Control'
    BY <1>3 DEF IInv, Control
<1>6. Shape'
    BY <1>3 DEF IInv, Shape, TornIsLast, Labelled
<1>7. Dropping'
    <2>1. Range(kept') \subseteq Range(file) /\ Labelled(kept')
        BY <1>2, <1>3 DEF IInv, Shape, Labelled
    <2>2. ~overlap /\ ~blind => Unique(kept')
        BY <1>2, <1>3 DEF IInv, NoDuplicates, Unique
    <2>3. \A line \in Range(file) \cap Lines : Keep(line) => line \in Range(kept')
        BY <1>2, <1>3
    <2>. QED
        BY <1>3, <2>1, <2>2, <2>3 DEF Dropping, Labelled, Unique, Keep
<1>8. Alone'
    <2>1. Held' \subseteq Held
        BY <1>2, <1>3 DEF Held, LineIds
    <2>. QED
        BY <1>3, <2>1, AloneIdle DEF UnderWay
<1>9. NoDuplicates'
    BY <1>3 DEF IInv, NoDuplicates
<1>10. AnswersKept'
    <2>1. Range(kept) = {}
        BY <1>3 DEF IInv, Dropping, Range
    <2>. QED
        BY <1>3, <2>1, AnswersStay
<1>. QED
    BY <1>4, <1>5, <1>6, <1>7, <1>8, <1>9, <1>10 DEF IInv

LEMMA DropTruncatePreserves ==
    ASSUME IInv, DropTruncate
    PROVE  IInv'
<1>1. file' = <<>> /\ dropPc' = "write" /\ dropPc = "truncate"
      /\ UNCHANGED <<exists, asked, pc, sample, todo, record, attempt, answer, rows,
                     kept, crashes, overlap, raced, blind>>
    BY DEF DropTruncate, procVars
<1>2. Range(<<>>) = {}
    BY DEF Range
<1>3. TypeOK'
    BY <1>1 DEF IInv, TypeOK
<1>4. Control'
    BY <1>1 DEF IInv, Control
<1>5. Shape'
    BY <1>1, <1>2 DEF Shape, TornIsLast, Labelled
<1>6. Dropping'
    <2>1. LineIds(file') = {}
        BY <1>1, <1>2 DEF LineIds
    <2>2. Labelled(kept) /\ (~overlap /\ ~blind => Unique(kept))
        BY DEF IInv, Dropping
    <2>. QED
        BY <1>1, <2>1, <2>2 DEF Dropping, LineIds, Labelled, Unique
<1>7. Alone'
    <2>1. Held' \subseteq Held
        BY <1>1, <1>2 DEF Held, LineIds
    <2>. QED
        BY <1>1, <2>1, AloneIdle DEF UnderWay
<1>8. NoDuplicates'
    BY <1>1 DEF NoDuplicates
<1>9. AnswersKept'
    <2>1. crashes = 0 /\ ~raced =>
              \A line \in (Range(file) \cup Range(kept)) \cap Lines :
                  Keep(line) => line \in Range(kept)
        BY <1>1 DEF IInv, Dropping
    <2>. QED
        BY <1>1, <2>1, AnswersStay
<1>. QED
    BY <1>3, <1>4, <1>5, <1>6, <1>7, <1>8, <1>9 DEF IInv

(* drop_results ends, with its lines in the file or a part of them. *)
LEMMA DropEnds ==
    ASSUME IInv, file' \in Results, kept' = <<>>, dropPc' = "idle",
           Range(file') \cap Lines \subseteq Range(file) \cup Range(kept),
           ~overlap /\ ~blind => Unique(file'),
           crashes' \in 0 .. MaxCrashes,
           crashes' = 0 /\ ~raced => Range(file') \subseteq Lines,
           AnswersKept',
           UNCHANGED <<exists, asked, pc, sample, todo, record, attempt, answer, rows,
                       overlap, raced, blind>>
    PROVE  IInv'
<1>1. Range(<<>>) = {}
    BY DEF Range
<1>2. TypeOK'
    BY DEF IInv, TypeOK, Written, Results
<1>3. Control'
    BY DEF IInv, Control
<1>4. Shape'
    BY DEF IInv, Shape, Dropping, TornIsLast, Labelled, Results
<1>5. Dropping'
    BY <1>1 DEF Dropping, Labelled, Unique
<1>6. Alone'
    <2>1. Held' \subseteq Held
        BY <1>1 DEF Held, LineIds
    <2>. QED
        BY <2>1, AloneIdle DEF UnderWay
<1>7. NoDuplicates'
    BY DEF NoDuplicates, Unique
<1>. QED
    BY <1>2, <1>3, <1>4, <1>5, <1>6, <1>7 DEF IInv

LEMMA DropWritePreserves ==
    ASSUME IInv, DropWrite
    PROVE  IInv'
<1>1. file' \in Over(kept) /\ kept' = <<>> /\ dropPc' = "idle" /\ dropPc = "write"
      /\ UNCHANGED <<exists, asked, pc, sample, todo, record, attempt, answer, rows,
                     crashes, overlap, raced, blind>>
    BY DEF DropWrite, procVars
<1>2. /\ kept \in Results /\ Range(kept) \subseteq Lines
      /\ file \in Results
    BY ParsedResults DEF IInv, TypeOK, Shape, Written, Results
<1>3. /\ file' \in Results
      /\ Range(file') \cap Lines \subseteq Range(file) \cup Range(kept)
      /\ ~overlap /\ ~blind => Unique(file')
      /\ file = <<>> => file' = kept
    <2>1. ~overlap /\ ~blind =>
              Unique(kept) /\ Unique(file) /\ LineIds(file) \cap LineIds(kept) = {}
        BY <1>1 DEF IInv, Dropping, NoDuplicates, Unique
    <2>. QED
        BY <1>1, <1>2, <2>1, OverWritten
<1>4. crashes = 0 /\ ~raced => file = <<>> /\ file' = kept
    BY <1>1, <1>3 DEF IInv, Dropping
<1>5. AnswersKept'
    <2>1. Range(<<>>) = {}
        BY DEF Range
    <2>. QED
        BY <1>1, <1>4, <2>1, AnswersStay
<1>. QED
    BY <1>1, <1>2, <1>3, <1>4, <1>5, DropEnds DEF IInv, TypeOK

LEMMA DropDiesPreserves ==
    ASSUME IInv, DropDies
    PROVE  IInv'
<1>1. /\ kept' = <<>> /\ dropPc' = "idle"
      /\ crashes' = crashes + 1 /\ crashes < MaxCrashes
      /\ UNCHANGED <<exists, asked, pc, sample, todo, record, attempt, answer, rows,
                     overlap, raced, blind>>
      /\ \/ file' = file
         \/ dropPc = "write" /\ \E text \in Parts(kept) : file' \in Over(text)
    BY DEF DropDies, procVars
<1>2. crashes' \in 0 .. MaxCrashes /\ crashes' # 0
    BY <1>1, BoundsAssumption DEF IInv, TypeOK
<1>3. file \in Results /\ kept \in Seq(Lines)
    BY DEF IInv, TypeOK, Shape, Written, Results
<1>4. ~overlap /\ ~blind => Unique(kept) /\ Unique(file)
    BY DEF IInv, Dropping, NoDuplicates, Unique
<1>5. /\ file' \in Results
      /\ Range(file') \cap Lines \subseteq Range(file) \cup Range(kept)
      /\ ~overlap /\ ~blind => Unique(file')
    <2>1. ASSUME dropPc = "write", NEW text \in Parts(kept), file' \in Over(text)
          PROVE  /\ file' \in Results
                 /\ Range(file') \cap Lines \subseteq Range(file) \cup Range(kept)
                 /\ ~overlap /\ ~blind => Unique(file')
        <3>1. /\ text \in Results /\ Range(text) \cap Lines \subseteq Range(kept)
              /\ Unique(kept) => Unique(text)
            BY <1>3, <2>1, PartOf
        <3>2. /\ file' \in Results
              /\ Range(file') \cap Lines \subseteq Range(file) \cup Range(text)
              /\ Unique(file) /\ Unique(text) /\ LineIds(file) \cap LineIds(text) = {}
                     => Unique(file')
            BY <1>3, <2>1, <3>1, OverWritten
        <3>3. ~overlap /\ ~blind => LineIds(file) \cap LineIds(text) = {}
            <4>1. LineIds(text) \subseteq LineIds(kept)
                BY <3>1 DEF LineIds
            <4>. QED
                BY <2>1, <4>1 DEF IInv, Dropping
        <3>. QED
            BY <1>4, <3>1, <3>2, <3>3
    <2>. QED
        BY <1>1, <1>3, <1>4, <2>1
<1>6. AnswersKept'
    BY <1>2 DEF AnswersKept
<1>. QED
    BY <1>1, <1>2, <1>5, <1>6, DropEnds

LEMMA Stutters == IInv /\ UNCHANGED vars => IInv'
<1>. SUFFICES ASSUME IInv, UNCHANGED vars PROVE IInv'
    OBVIOUS
<1>. USE DEF vars, procVars, dropVars
<1>1. TypeOK' /\ Control'
    BY DEF IInv, TypeOK, Control
<1>2. Shape' /\ Dropping' /\ NoDuplicates'
    BY FileIdle
<1>3. Alone'
    BY DEF IInv, Alone, UnderWay, LineIds, Held
<1>4. AnswersKept'
    BY AnswersIdle
<1>. QED
    BY <1>1, <1>2, <1>3, <1>4 DEF IInv

LEMMA Inductive == IInv /\ [Next]_vars => IInv'
<1>. SUFFICES ASSUME IInv, [Next]_vars PROVE IInv'
    OBVIOUS
<1>1. ASSUME NEW p \in Procs, Start(p) PROVE IInv'
    BY <1>1, StartPreserves
<1>2. ASSUME NEW p \in Procs, Work(p) PROVE IInv'
    BY <1>2, NextRecordPreserves, JevAnswersPreserves, NoAnswerPreserves,
       AppendLinePreserves, MetricsPreserves DEF Work
<1>3. ASSUME NEW p \in Procs, Die(p) PROVE IInv'
    BY <1>3, DiePreserves
<1>4. CASE DropRead \/ DropTruncate \/ DropWrite \/ DropDies
    BY <1>4, DropReadPreserves, DropTruncatePreserves, DropWritePreserves,
       DropDiesPreserves
<1>5. CASE UNCHANGED vars
    BY <1>5, Stutters
<1>. QED
    BY <1>1, <1>2, <1>3, <1>4, <1>5 DEF Next

(* What every step of an invocation, of drop_results and of a death keeps.  *)
THEOREM Invariance == Spec => []IInv
<1>. QED
    BY Initially, Inductive, PTL DEF Spec

(* The state has the types that the scripts give it.                        *)
THEOREM TypeCorrect == Spec => []TypeOK
<1>1. IInv => TypeOK
    BY DEF IInv
<1>. QED
    BY <1>1, Invariance, PTL

(* A record has one line unless invocations overlapped or one began on the  *)
(* truncated file, however many of them and of drop_results died, and       *)
(* wherever: also when drop_results writes over what was appended since.    *)
THEOREM OneLineEach == Spec => []NoDuplicates
<1>1. IInv => NoDuplicates
    BY DEF IInv
<1>. QED
    BY <1>1, Invariance, PTL

(* No answer of Jev is lost while nothing dies and no append races with     *)
(* drop_results, even when invocations overlap: while the file is truncated *)
(* drop_results holds all of it that is to be kept.                         *)
THEOREM NoAnswerLost == Spec => []AnswersKept
<1>1. IInv => AnswersKept
    BY DEF IInv
<1>. QED
    BY <1>1, Invariance, PTL

(* A summary has a line of each record of its sample that was answered, if  *)
(* it is not read from the truncated file, nothing died and no append was   *)
(* lost, and its labels fit the records' trajectories and ground truths.    *)
THEOREM SummariesComplete == Spec => SummaryComplete
<1>1. ASSUME IInv, [Next]_vars, NEW p \in Procs, pc'[p] = "done", pc[p] # "done"
      PROVE  /\ \A line \in rows'[p] : LabelFits(line)
             /\ crashes = 0 /\ ~raced /\ dropPc # "write" =>
                   \A r \in sample[p] \ DropFw :
                       asked[r] = 0 \/ (\E line \in rows'[p] : line.id = r)
                                    \/ (\E q \in Procs : record[q] = r)
    <2>1. Metrics(p)
        <3>1. \E q \in Procs : Start(q) \/ Work(q) \/ Die(q)
            BY <1>1 DEF Next, vars, procVars, DropRead, DropTruncate, DropWrite,
                           DropDies
        <3>2. PICK q \in Procs : Start(q) \/ Work(q) \/ Die(q)
            BY <3>1
        <3>3. ~Start(q) /\ ~NextRecord(q) /\ ~JevAnswers(q) /\ ~NoAnswer(q)
              /\ ~AppendLine(q) /\ ~Die(q)
            BY <1>1 DEF IInv, TypeOK, Start, NextRecord, JevAnswers, NoAnswer, JevFails,
                        AppendLine, Die
        <3>4. Metrics(q)
            BY <3>2, <3>3 DEF Work
        <3>. QED
            BY <1>1, <3>4 DEF IInv, TypeOK, Metrics
    <2>2. AllParsed /\ rows'[p] = Rows(sample[p])
        BY <1>1, <2>1 DEF IInv, TypeOK, Metrics
    <2>3. file \in Seq(Written) /\ Range(file) \subseteq Lines
        BY <1>1, <2>2 DEF IInv, TypeOK, Written, AllParsed
    <2>4. \A r \in Ids : LastLine(file, r) \in Range(file) /\ LastLine(file, r).id = r
        BY <2>3, LastLineOf DEF Ids
    <2>5. ASSUME NEW line \in rows'[p] PROVE LabelFits(line)
        <3>1. line \in Range(file) /\ line \in Lines
            BY <2>2, <2>3, <2>4 DEF Rows
        <3>. QED
            BY <1>1, <3>1, LabelledFits DEF IInv, Shape, Labelled
    <2>6. ASSUME crashes = 0, ~raced, dropPc # "write",
                 NEW r \in sample[p] \ DropFw, asked[r] # 0
          PROVE  (\E line \in rows'[p] : line.id = r) \/ (\E q \in Procs : record[q] = r)
        <3>1. r \in Records \ DropFw /\ asked[r] \in Nat /\ asked[r] \in 1 .. asked[r]
            BY <1>1, <2>6 DEF IInv, TypeOK
        <3>2. \/ \E line \in Range(file) : line.id = r
              \/ \E q \in Procs : record[q] = r
            <4>1. Range(<<>>) = {}
                BY DEF Range
            <4>2. Range(kept) \subseteq Range(file)
                BY <1>1, <2>6, <4>1 DEF IInv, TypeOK, Dropping
            <4>. QED
                BY <1>1, <2>6, <3>1, <4>2 DEF IInv, AnswersKept
        <3>3. ASSUME NEW line \in Range(file), line.id = r
              PROVE  \E l \in rows'[p] : l.id = r
            <4>1. r \in sample[p] \cap Ids
                BY <3>3 DEF Ids
            <4>2. LastLine(file, r) \in rows'[p] /\ LastLine(file, r).id = r
                BY <2>2, <2>4, <4>1 DEF Rows
            <4>. QED
                BY <4>2
        <3>. QED
            BY <3>2, <3>3
    <2>. QED
        BY <2>5, <2>6
<1>2. IInv /\ [Next]_vars =>
          [\A p \in Procs :
              pc'[p] = "done" /\ pc[p] # "done" =>
                /\ \A line \in rows'[p] : LabelFits(line)
                /\ crashes = 0 /\ ~raced /\ dropPc # "write" =>
                      \A r \in sample[p] \ DropFw :
                          asked[r] = 0 \/ (\E line \in rows'[p] : line.id = r)
                                       \/ (\E q \in Procs : record[q] = r)]_vars
    BY <1>1
<1>. QED
    BY <1>2, Invariance, PTL DEF Spec, SummaryComplete

(***************************************************************************)
(* Invocations come to an end.                                             *)
(***************************************************************************)

(* How many steps an invocation is from its end at most: a record takes one *)
(* to be picked, the attempts, and an append.                               *)
PerRecord == Attempts + 2

Left(p) ==
    Cardinality(todo[p]) * PerRecord +
        CASE pc[p] = "next"   -> 1
          [] pc[p] = "ask"    -> PerRecord - attempt[p]
          [] pc[p] = "append" -> 2
          [] OTHER            -> 0

(* An invocation that is under way is left alone by others or comes nearer  *)
(* to its end, and one that has ended does not begin again.                 *)
Forward ==
    \A p \in Procs :
        /\ UnderWay(p) =>
               \/ UNCHANGED <<pc[p], sample[p], todo[p], record[p], attempt[p], answer[p]>>
               \/ pc'[p] \in {"done", "failed", "dead"}
               \/ UnderWay(p)' /\ Left(p)' < Left(p)
        /\ pc[p] \in {"done", "failed", "dead"} => pc'[p] = pc[p]

LEMMA TodoIsFinite ==
    ASSUME TypeOK, NEW p \in Procs
    PROVE  /\ IsFiniteSet(todo[p]) /\ Cardinality(todo[p]) \in Nat
           /\ Cardinality(todo[p]) <= Cardinality(Records) /\ Cardinality(Records) \in Nat
<1>1. todo[p] \subseteq Records
    BY DEF TypeOK
<1>. QED
    BY <1>1, RecordsAssumption, FS_Subset, FS_CardinalityType

LEMMA LeftIsBounded ==
    ASSUME TypeOK, NEW p \in Procs
    PROVE  Left(p) \in Nat /\ Left(p) <= (Cardinality(Records) + 1) * PerRecord
<1>. DEFINE n == Cardinality(todo[p])
            m == Cardinality(Records)
            rest == CASE pc[p] = "next"   -> 1
                      [] pc[p] = "ask"    -> PerRecord - attempt[p]
                      [] pc[p] = "append" -> 2
                      [] OTHER            -> 0
<1>1. n \in Nat /\ m \in Nat /\ n <= m
    BY TodoIsFinite
<1>2. PerRecord \in Nat /\ Attempts \in Nat \ {0} /\ attempt[p] \in 0 .. Attempts - 1
    BY BoundsAssumption DEF TypeOK, PerRecord
<1>3. rest \in Nat /\ rest <= PerRecord
    BY <1>2 DEF PerRecord
<1>4. Left(p) = n * PerRecord + rest
    BY DEF Left
<1>. HIDE DEF n, m, rest
<1>5. n * PerRecord \in Nat /\ n * PerRecord <= m * PerRecord
    BY <1>1, <1>2
<1>6. (m + 1) * PerRecord = m * PerRecord + PerRecord /\ m * PerRecord \in Nat
    BY <1>1, <1>2
<1>7. Left(p) \in Nat /\ Left(p) <= m * PerRecord + PerRecord
    BY <1>2, <1>3, <1>4, <1>5, <1>6
<1>. QED
    BY <1>6, <1>7 DEF m

(* An invocation asks at most about each record as often as there are       *)
(* attempts, whatever the file holds: its steps are bounded from its start. *)
THEOREM InvocationsAreBounded ==
    Spec => [](\A p \in Procs : Left(p) <= (Cardinality(Records) + 1) * PerRecord)
<1>1. IInv => \A p \in Procs : Left(p) <= (Cardinality(Records) + 1) * PerRecord
    BY LeftIsBounded DEF IInv
<1>. QED
    BY <1>1, Invariance, PTL

LEMMA Untouched ==
    ASSUME TypeOK, NEW p \in Procs, Start(p) \/ Work(p) \/ Die(p), NEW q \in Procs \ {p}
    PROVE  UNCHANGED <<pc[q], sample[q], todo[q], record[q], attempt[q], answer[q]>>
<1>1. CASE Start(p)
    BY <1>1 DEF TypeOK, Start
<1>2. CASE NextRecord(p)
    BY <1>2 DEF TypeOK, NextRecord
<1>3. CASE JevAnswers(p)
    BY <1>3 DEF TypeOK, JevAnswers
<1>4. CASE NoAnswer(p)
    BY <1>4 DEF TypeOK, NoAnswer, JevFails
<1>5. CASE AppendLine(p)
    BY <1>5 DEF TypeOK, AppendLine
<1>6. CASE Metrics(p)
    BY <1>6 DEF TypeOK, Metrics
<1>7. CASE Die(p)
    BY <1>7 DEF TypeOK, Die
<1>. QED
    BY <1>1, <1>2, <1>3, <1>4, <1>5, <1>6, <1>7 DEF Work

LEMMA WorkIsShorter ==
    ASSUME TypeOK, NEW p \in Procs, Work(p)
    PROVE  \/ pc'[p] \in {"done", "failed"}
           \/ UnderWay(p)' /\ Left(p)' < Left(p)
<1>. DEFINE n == Cardinality(todo[p])
            k == Cardinality(todo'[p])
<1>1. /\ Attempts \in Nat \ {0} /\ attempt[p] \in 0 .. Attempts - 1
      /\ PerRecord = Attempts + 2
    BY BoundsAssumption DEF TypeOK, PerRecord
<1>2. IsFiniteSet(todo[p]) /\ n \in Nat
    BY TodoIsFinite
<1>3. CASE NextRecord(p)
    <2>1. PICK r \in todo[p] :
              /\ todo'[p] = todo[p] \ {r}
              /\ \/ pc'[p] = "next"
                 \/ pc'[p] = "ask"
        BY <1>3 DEF TypeOK, NextRecord
    <2>2. k = n - 1
        BY <1>2, <2>1, FS_RemoveElement
    <2>3. pc[p] = "next" /\ attempt'[p] = attempt[p]
        BY <1>3 DEF NextRecord
    <2>4. Left(p) = n * PerRecord + 1
        BY <2>3 DEF Left
    <2>5. \/ pc'[p] = "next" /\ Left(p)' = k * PerRecord + 1
          \/ pc'[p] = "ask" /\ Left(p)' = k * PerRecord + (PerRecord - attempt[p])
        BY <2>1, <2>3 DEF Left, PerRecord
    <2>. HIDE DEF n, k
    <2>6. n * PerRecord = k * PerRecord + PerRecord /\ k * PerRecord \in Int
        BY <1>1, <1>2, <2>2
    <2>. QED
        BY <1>1, <2>4, <2>5, <2>6 DEF UnderWay
<1>4. ASSUME todo' = todo,
             NEW a \in Nat, NEW b \in Nat, b < a,
             Left(p) = n * PerRecord + a, Left(p)' = k * PerRecord + b
      PROVE  Left(p)' < Left(p)
    <2>1. k = n
        BY <1>4
    <2>. HIDE DEF n, k
    <2>2. n * PerRecord \in Int
        BY <1>1, <1>2
    <2>. QED
        BY <1>4, <2>1, <2>2
<1>5. CASE JevAnswers(p)
    <2>1. todo' = todo /\ pc[p] = "ask" /\ pc'[p] = "append"
        BY <1>5 DEF TypeOK, JevAnswers
    <2>2. /\ Left(p) = n * PerRecord + (PerRecord - attempt[p])
          /\ Left(p)' = k * PerRecord + 2
        BY <2>1 DEF Left, PerRecord
    <2>3. PerRecord - attempt[p] \in Nat /\ 2 < PerRecord - attempt[p]
        BY <1>1
    <2>. QED
        BY <1>4, <2>1, <2>2, <2>3 DEF UnderWay
<1>6. CASE NoAnswer(p)
    <2>1. todo' = todo /\ pc[p] = "ask"
        BY <1>6 DEF NoAnswer, JevFails
    <2>2. Left(p) = n * PerRecord + (PerRecord - attempt[p])
        BY <2>1 DEF Left
    <2>3. PerRecord - attempt[p] \in Nat /\ 2 < PerRecord - attempt[p]
        BY <1>1
    <2>4. CASE /\ attempt[p] + 1 < Attempts
               /\ pc' = pc /\ attempt' = [attempt EXCEPT ![p] = @ + 1]
        <3>1. attempt'[p] = attempt[p] + 1 /\ pc'[p] = "ask"
            BY <2>1, <2>4 DEF TypeOK
        <3>2. Left(p)' = k * PerRecord + (PerRecord - (attempt[p] + 1))
            BY <3>1 DEF Left, PerRecord
        <3>3. /\ PerRecord - (attempt[p] + 1) \in Nat
              /\ PerRecord - (attempt[p] + 1) < PerRecord - attempt[p]
            BY <1>1
        <3>. QED
            BY <1>4, <2>1, <2>2, <2>3, <3>1, <3>2, <3>3 DEF UnderWay
    <2>5. CASE pc' = [pc EXCEPT ![p] = "next"]
        <3>1. pc'[p] = "next"
            BY <2>5 DEF TypeOK
        <3>2. Left(p)' = k * PerRecord + 1
            BY <3>1 DEF Left, PerRecord
        <3>. QED
            BY <1>4, <2>1, <2>2, <2>3, <3>1, <3>2 DEF UnderWay
    <2>. QED
        BY <1>6, <2>4, <2>5 DEF NoAnswer, JevFails
<1>7. CASE AppendLine(p)
    <2>1. todo' = todo /\ pc[p] = "append" /\ pc'[p] = "next"
        BY <1>7 DEF TypeOK, AppendLine
    <2>2. Left(p) = n * PerRecord + 2 /\ Left(p)' = k * PerRecord + 1
        BY <2>1 DEF Left, PerRecord
    <2>. QED
        BY <1>4, <2>1, <2>2 DEF UnderWay
<1>8. CASE Metrics(p)
    BY <1>8 DEF TypeOK, Metrics
<1>. QED
    BY <1>3, <1>5, <1>6, <1>7, <1>8 DEF Work

(* No invocation goes round in circles: with the bound above it ends within *)
(* (records + 1) * (attempts + 2) of its own steps, however often Jev fails *)
(* and whatever other invocations and drop_results do to the file.          *)
THEOREM InvocationsMoveForward == Spec => [][Forward]_procVars
<1>1. ASSUME IInv, [Next]_vars PROVE [Forward]_procVars
    <2>. USE DEF IInv
    <2>1. CASE \E p \in Procs : Start(p) \/ Work(p) \/ Die(p)
        <3>1. PICK p \in Procs : Start(p) \/ Work(p) \/ Die(p)
            BY <2>1
        <3>2. ASSUME NEW q \in Procs, q # p
              PROVE  UNCHANGED <<pc[q], sample[q], todo[q], record[q], attempt[q], answer[q]>>
            BY <1>1, <3>1, <3>2, Untouched
        <3>3. ~Start(p) => UnderWay(p)
            BY <3>1 DEF Work, NextRecord, JevAnswers, NoAnswer, JevFails, AppendLine, Metrics,
               Die, UnderWay
        <3>4. Start(p) => pc[p] = "idle"
            BY DEF Start
        <3>5. Die(p) => pc'[p] = "dead"
            BY <1>1 DEF Die, TypeOK
        <3>6. Work(p) => \/ pc'[p] \in {"done", "failed"}
                         \/ UnderWay(p)' /\ Left(p)' < Left(p)
            BY <1>1, WorkIsShorter
        <3>7. /\ UnderWay(p) => \/ pc'[p] \in {"done", "failed", "dead"}
                                \/ UnderWay(p)' /\ Left(p)' < Left(p)
              /\ pc[p] \in {"done", "failed", "dead"} => pc'[p] = pc[p]
            BY <3>1, <3>3, <3>4, <3>5, <3>6 DEF UnderWay
        <3>. QED
            BY <3>2, <3>7 DEF Forward
    <2>2. CASE DropRead \/ DropTruncate \/ DropWrite \/ DropDies
        BY <2>2 DEF DropRead, DropTruncate, DropWrite, DropDies
    <2>3. CASE UNCHANGED vars
        BY <2>3 DEF vars
    <2>. QED
        BY <1>1, <2>1, <2>2, <2>3 DEF Next
<1>. QED
    BY <1>1, Invariance, PTL DEF Spec
=============================================================================
