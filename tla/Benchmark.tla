----------------------------- MODULE Benchmark -----------------------------
(***************************************************************************)
(* The results file of scripts/benchmark_whowhen.py: invocations of the    *)
(* script begin by reading which records have a line, ask Jev about the    *)
(* others one by one, and append a line for each answer;                   *)
(* scripts/drop_results.py, of which one runs at a time, reads the file,   *)
(* truncates it and writes the lines back that are not of some frameworks. *)
(*                                                                         *)
(* A line is appended by one write, and so is the text of drop_results, at *)
(* its own place: over whatever was appended since it truncated the file.  *)
(* A process that dies in its write (a full disk) leaves a Torn line       *)
(* without an end, which the next text turns into a Broken one; neither    *)
(* can be parsed, and both scripts then raise.                             *)
(***************************************************************************)
EXTENDS WhoWhen, SequencesExt

CONSTANTS
    Records,     \* the records that may be sampled
    Trajectory,  \* the messages of each record
    Truth,       \* the ground truth of each record
    DropFw,      \* those of the frameworks that drop_results drops
    Procs,       \* invocations of the benchmark
    Attempts,    \* how often Jev is asked about a record
    MaxCrashes,  \* bound of the processes that die
    NoRecord

ASSUME RecordsAssumption ==
    /\ IsFiniteSet(Records)
    /\ Trajectory \in [Records -> Seq(Message)]
    /\ Truth \in [Records -> GroundTruth]
    /\ DropFw \subseteq Records
    /\ NoRecord \notin Records

ASSUME BoundsAssumption == Attempts \in Nat \ {0} /\ MaxCrashes \in Nat

StepsIn == [r \in Records |-> StepsOf(Trajectory[r])]

(* The step that Jev should have blamed (labels). *)
Label == [r \in Records |-> MapStep(Truth[r], StepsIn[r])]

(* The id of a record, which of Jev's answers to it the line holds, and the *)
(* record's label.                                                          *)
Lines == [id: Records, answer: Nat \ {0}, label: Nat]

Torn   == [torn |-> TRUE]
Broken == [torn |-> FALSE]

VARIABLES
    exists,    \* whether there is a results file
    file,      \* its lines
    asked,     \* number of answers Jev has given about each record
    pc,        \* where each invocation is
    sample,    \* its sample
    todo,      \* the records it still has to look at
    record,    \* the one it asks Jev about
    attempt,   \* how often it has done so in vain
    answer,    \* the answer it is about to append
    rows,      \* the lines its summary is computed from
    dropPc,    \* where drop_results is
    kept,      \* the lines it keeps
    crashes,   \* number of processes that died
    overlap,   \* whether an invocation began while another was under way
    raced,     \* whether a line was appended while drop_results was under way
    blind      \* whether an invocation began when drop_results had truncated it

procVars == <<pc, sample, todo, record, attempt, answer, rows>>
dropVars == <<dropPc, kept>>
vars == <<exists, file, asked, procVars, dropVars, crashes, overlap, raced, blind>>

Init ==
    /\ exists = FALSE
    /\ file = <<>>
    /\ asked = [r \in Records |-> 0]
    /\ pc = [p \in Procs |-> "idle"]
    /\ sample = [p \in Procs |-> {}]
    /\ todo = [p \in Procs |-> {}]
    /\ record = [p \in Procs |-> NoRecord]
    /\ attempt = [p \in Procs |-> 0]
    /\ answer = [p \in Procs |-> 0]
    /\ rows = [p \in Procs |-> {}]
    /\ dropPc = "idle"
    /\ kept = <<>>
    /\ crashes = 0
    /\ overlap = FALSE
    /\ raced = FALSE
    /\ blind = FALSE

UnderWay(p) == pc[p] \in {"next", "ask", "append"}

AllParsed == Range(file) \subseteq Lines

(***************************************************************************)
(* benchmark_whowhen.                                                      *)
(***************************************************************************)

(* The ids of the lines. *)
Ids == {line.id : line \in Range(file)}

(* Mutant: what is in the file is not looked at. *)
TodoAll(s) == s

(* load_results, and what it leaves of a sample. *)
Todo(s) == s \ Ids

Start(p) ==
    /\ pc[p] = "idle"
    /\ sample' \in {[sample EXCEPT ![p] = s] : s \in SUBSET Records \ {{}}}
    /\ \/ AllParsed
          /\ pc' = [pc EXCEPT ![p] = "next"]
          /\ todo' = [todo EXCEPT ![p] = Todo(sample'[p])]
       \/ ~AllParsed
          /\ pc' = [pc EXCEPT ![p] = "failed"]
          /\ UNCHANGED todo
    /\ overlap' = (overlap \/ \E q \in Procs : UnderWay(q))
    /\ blind' = (blind \/ dropPc = "write")
    /\ UNCHANGED <<exists, file, asked, record, attempt, answer, rows, dropVars,
                   crashes, raced>>

(* The next record, or the one after it if it has no steps. *)
NextRecord(p) ==
    /\ pc[p] = "next"
    /\ \E r \in todo[p] :
          /\ todo' = [todo EXCEPT ![p] = @ \ {r}]
          /\ \/ StepsIn[r] = <<>>
                /\ UNCHANGED <<pc, record>>
             \/ StepsIn[r] # <<>>
                /\ pc' = [pc EXCEPT ![p] = "ask"]
                /\ record' = [record EXCEPT ![p] = r]
    /\ UNCHANGED <<exists, file, asked, sample, attempt, answer, rows, dropVars,
                   crashes, overlap, raced, blind>>

JevAnswers(p) ==
    /\ pc[p] = "ask"
    /\ asked' = [asked EXCEPT ![record[p]] = @ + 1]
    /\ answer' = [answer EXCEPT ![p] = asked'[record[p]]]
    /\ attempt' = [attempt EXCEPT ![p] = 0]
    /\ pc' = [pc EXCEPT ![p] = "append"]
    /\ UNCHANGED <<exists, file, sample, todo, record, rows, dropVars, crashes,
                   overlap, raced, blind>>

(* Mutant: it begins again after the last attempt. *)
JevFailsForEver(p) ==
    /\ pc[p] = "ask"
    /\ attempt' = [attempt EXCEPT ![p] = (@ + 1) % Attempts]
    /\ UNCHANGED <<pc, record>>

(* Mutant: one attempt too many. *)
JevFailsOnceMore(p) ==
    /\ pc[p] = "ask"
    /\ \/ /\ attempt[p] < Attempts
          /\ attempt' = [attempt EXCEPT ![p] = @ + 1]
          /\ UNCHANGED <<pc, record>>
       \/ /\ attempt[p] = Attempts
          /\ attempt' = [attempt EXCEPT ![p] = 0]
          /\ pc' = [pc EXCEPT ![p] = "next"]
          /\ record' = [record EXCEPT ![p] = NoRecord]

(* run_one asks again, and gives up after the last attempt. *)
JevFails(p) ==
    /\ pc[p] = "ask"
    /\ \/ /\ attempt[p] + 1 < Attempts
          /\ attempt' = [attempt EXCEPT ![p] = @ + 1]
          /\ UNCHANGED <<pc, record>>
       \/ /\ attempt[p] + 1 = Attempts
          /\ attempt' = [attempt EXCEPT ![p] = 0]
          /\ pc' = [pc EXCEPT ![p] = "next"]
          /\ record' = [record EXCEPT ![p] = NoRecord]

NoAnswer(p) ==
    /\ JevFails(p)
    /\ UNCHANGED <<exists, file, asked, sample, todo, answer, rows, dropVars, crashes,
                   overlap, raced, blind>>

(* Mutant: the file is opened with "w". *)
Afresh(line) == <<line>>

(* What the last bytes of a line are without the first. *)
Remainder(line) == IF line = Torn THEN Torn ELSE Broken

(* What is written after a Torn line continues it. *)
Joined(lines, more) ==
    IF more = <<>> \/ Torn \notin Range(lines) THEN lines \o more
    ELSE Front(lines) \o <<Remainder(Head(more))>> \o Tail(more)

Appended(line) == Joined(file, <<line>>)

AppendLine(p) ==
    /\ pc[p] = "append"
    /\ exists' = TRUE
    /\ file' = Appended([id |-> record[p], answer |-> answer[p],
                          label |-> Label[record[p]]])
    /\ pc' = [pc EXCEPT ![p] = "next"]
    /\ record' = [record EXCEPT ![p] = NoRecord]
    /\ answer' = [answer EXCEPT ![p] = 0]
    /\ raced' = (raced \/ dropPc # "idle")
    /\ UNCHANGED <<asked, sample, todo, attempt, rows, dropVars, crashes, overlap,
                   blind>>

(* The line of a record that by_id ends up with. *)
LastLine(lines, r) ==
    lines[CHOOSE i \in DOMAIN lines :
              /\ lines[i].id = r
              /\ \A j \in DOMAIN lines : lines[j].id = r => j <= i]

(* Mutant: the last line is taken for a torn one. *)
RowsButLast(s) ==
    {LastLine(Front(file), r) : r \in s \cap {line.id : line \in Range(Front(file))}}

(* The lines of the sample that the metrics are computed from. *)
Rows(s) == {LastLine(file, r) : r \in s \cap Ids}

Metrics(p) ==
    /\ pc[p] = "next"
    /\ todo[p] = {}
    /\ \/ exists /\ AllParsed
          /\ rows' = [rows EXCEPT ![p] = Rows(sample[p])]
          /\ pc' = [pc EXCEPT ![p] = "done"]
       \/ ~(exists /\ AllParsed)
          /\ pc' = [pc EXCEPT ![p] = "failed"]
          /\ UNCHANGED rows
    /\ UNCHANGED <<exists, file, asked, sample, todo, record, attempt, answer, dropVars,
                   crashes, overlap, raced, blind>>

(* An invocation dies, perhaps in the middle of its write. *)
Die(p) ==
    /\ crashes < MaxCrashes
    /\ crashes' = crashes + 1
    /\ UnderWay(p)
    /\ \/ UNCHANGED <<exists, file, raced>>
       \/ /\ pc[p] = "append"
          /\ exists' = TRUE
          /\ file' = Appended(Torn)
          /\ raced' = (raced \/ dropPc # "idle")
    /\ pc' = [pc EXCEPT ![p] = "dead"]
    /\ UNCHANGED <<asked, sample, todo, record, attempt, answer, rows, dropVars, overlap,
                   blind>>

(***************************************************************************)
(* drop_results.                                                           *)
(***************************************************************************)

Keep(line) == line.id \notin DropFw

(* The lines that are kept, in their order. *)
Kept(lines) ==
    LET upTo[i \in 0 .. Len(lines)] ==
            IF i = 0 THEN <<>>
            ELSE IF Keep(lines[i]) THEN Append(upTo[i - 1], lines[i])
            ELSE upTo[i - 1]
    IN  upTo[Len(lines)]

(* What can be left of lines whose first bytes are written over. *)
Rests(lines) ==
    IF lines = <<>> THEN {<<>>}
    ELSE UNION {LET after == SubSeq(lines, n + 1, Len(lines)) IN
                {after, <<Remainder(lines[n])>> \o after} : n \in 1 .. Len(lines)}

(* The file once a text is written at its beginning. *)
Over(text) ==
    IF text = <<>> THEN {file} ELSE {Joined(text, rest) : rest \in Rests(file)}

DropRead ==
    /\ dropPc = "idle"
    /\ exists /\ AllParsed
    /\ kept' = Kept(file)
    /\ dropPc' = "truncate"
    /\ UNCHANGED <<exists, file, asked, procVars, crashes, overlap, raced, blind>>

(* write_text opens the file. *)
DropTruncate ==
    /\ dropPc = "truncate"
    /\ file' = <<>>
    /\ dropPc' = "write"
    /\ UNCHANGED <<exists, asked, procVars, kept, crashes, overlap, raced, blind>>

DropWrite ==
    /\ dropPc = "write"
    /\ file' \in Over(kept)
    /\ kept' = <<>>
    /\ dropPc' = "idle"
    /\ UNCHANGED <<exists, asked, procVars, crashes, overlap, raced, blind>>

(* The parts of its text that are written when it dies in the write. *)
Parts(text) ==
    UNION {LET whole == SubSeq(text, 1, n) IN
           {whole, Append(whole, Torn)} : n \in 0 .. Len(text)}

DropDies ==
    /\ crashes < MaxCrashes
    /\ crashes' = crashes + 1
    /\ \/ dropPc = "truncate" /\ UNCHANGED file
       \/ dropPc = "write" /\ \E text \in Parts(kept) : file' \in Over(text)
    /\ kept' = <<>>
    /\ dropPc' = "idle"
    /\ UNCHANGED <<exists, asked, procVars, overlap, raced, blind>>

Work(p) ==
    NextRecord(p) \/ JevAnswers(p) \/ NoAnswer(p) \/ AppendLine(p) \/ Metrics(p)

Next ==
    \/ \E p \in Procs : Start(p) \/ Work(p) \/ Die(p)
    \/ DropRead \/ DropTruncate \/ DropWrite \/ DropDies

Spec == Init /\ [][Next]_vars

(* An invocation goes on: its client answers or raises. *)
FairSpec == Spec /\ \A p \in Procs : WF_vars(Work(p))

(***************************************************************************)
(* Properties.                                                             *)
(***************************************************************************)

TypeOK ==
    /\ exists \in BOOLEAN
    /\ file \in Seq(Lines \cup {Torn, Broken})
    /\ asked \in [Records -> Nat]
    /\ pc \in [Procs -> {"idle", "next", "ask", "append", "done", "failed", "dead"}]
    /\ sample \in [Procs -> SUBSET Records]
    /\ todo \in [Procs -> SUBSET Records]
    /\ record \in [Procs -> Records \cup {NoRecord}]
    /\ attempt \in [Procs -> 0 .. Attempts - 1]
    /\ answer \in [Procs -> Nat]
    /\ rows \in [Procs -> SUBSET Lines]
    /\ dropPc \in {"idle", "truncate", "write"}
    /\ kept \in Seq(Lines)
    /\ crashes \in 0 .. MaxCrashes
    /\ overlap \in BOOLEAN
    /\ raced \in BOOLEAN
    /\ blind \in BOOLEAN

(* An invocation that resumes after others, finished or dead, adds no second *)
(* line of a record, unless two of them were under way at once or one began  *)
(* on the file that drop_results had truncated and not yet written.          *)
NoDuplicates ==
    ~overlap /\ ~blind =>
        \A i, j \in DOMAIN file :
            file[i] \in Lines /\ file[j] \in Lines /\ file[i].id = file[j].id => i = j

(* An answer is in the file, or about to be appended or to be written back   *)
(* to the file that drop_results truncated, unless its framework was dropped, *)
(* a process died, or an append raced with drop_results.                      *)
AnswersKept ==
    crashes = 0 /\ ~raced =>
        \A r \in Records \ DropFw : \A n \in 1 .. asked[r] :
            \/ \E line \in (Range(file) \cup Range(kept)) \cap Lines :
                    line.id = r /\ line.answer = n
            \/ \E p \in Procs : record[p] = r /\ answer[p] = n

(* The label is a step of the record's trajectory, and one that the ground   *)
(* truth names if it names any; it is none only where nothing is named, or   *)
(* where a stage is no number or counts past the steps.                       *)
LabelFits(line) ==
    LET gt    == Truth[line.id]
        steps == StepsIn[line.id]
        named == Matching(gt, steps)
    IN  IF line.label = NoStep
        THEN \/ named = {}
             \/ ByStage(gt) /\ (gt.stage = Word \/ gt.stage + 1 \notin DOMAIN steps)
        ELSE line.label \in DOMAIN steps /\ (named # {} => line.label \in named)

(* A summary leaves out no record of its sample that Jev has answered about  *)
(* before it, whichever invocation asked, with the exceptions of AnswersKept *)
(* and unless drop_results has truncated the file and not yet written it, and *)
(* what it compares with the answers are labels that fit.                     *)
SummaryComplete ==
    [][ \A p \in Procs :
            pc'[p] = "done" /\ pc[p] # "done" =>
                /\ \A line \in rows'[p] : LabelFits(line)
                /\ crashes = 0 /\ ~raced /\ dropPc # "write" =>
                      \A r \in sample[p] \ DropFw :
                          asked[r] = 0 \/ (\E line \in rows'[p] : line.id = r)
                                       \/ (\E q \in Procs : record[q] = r) ]_vars

(* An invocation ends however often Jev fails. *)
BenchmarkEnds ==
    \A p \in Procs : pc[p] = "next" ~> pc[p] \in {"done", "failed", "dead"}
=============================================================================
