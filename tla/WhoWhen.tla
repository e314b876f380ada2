------------------------------ MODULE WhoWhen ------------------------------
(***************************************************************************)
(* scripts/whowhen_adapter.py: the steps that a recorded trajectory has,   *)
(* and the one of them that its ground truth blames.  Eight frameworks     *)
(* name that step in five ways.                                            *)
(*                                                                         *)
(* Texts, components and speakers are left out.                            *)
(***************************************************************************)
EXTENDS Integers, Sequences, FiniteSets

CONSTANTS
    Agents,
    Word,    \* a value that is no number
    NoValue  \* None, or a key that is missing

ASSUME ValuesAssumption == Word \notin Int /\ NoValue \notin Int /\ Word # NoValue

Values == Int \cup {Word, NoValue}

Kinds == {"user", "action", "agent", "planning", "round", "final_answer", "other"}

Message == [kind: Kinds, agent: Agents \cup {NoValue}, number: Values,
            round: Values, position: Values, stage: Values]

(* What a step remembers of its message (src). *)
Source == [kind: Kinds, number: Values, round: Values, position: Values, stage: Values]

(* The ground truth: the type of its "step" with the integer or the two     *)
(* parts around the dot that it holds, and the keys other frameworks use.   *)
(* A float is read as its digits, a dotted string.                          *)
GroundTruth == [type: {"none", "int", "dotted", "word"}, number: Int,
                dot: [round: Values, position: Values],
                agent: Agents \cup {NoValue},
                round: Values, position: Values, stage: Values]

NoStep == 0

(***************************************************************************)
(* convert_record.                                                         *)
(***************************************************************************)

(* Users state the task, and a message of another kind needs an agent.      *)
IsStep(m) == m.kind # "user" /\ (m.kind = "other" => m.agent # NoValue)

SourceOf(m) ==
    LET From(kinds, value) == IF m.kind \in kinds THEN value ELSE NoValue IN
    [kind     |-> m.kind,
     number   |-> From({"action"}, m.number),
     round    |-> From({"agent", "round", "other"}, m.round),
     position |-> From({"agent", "other"}, m.position),
     stage    |-> From({"other"}, m.stage)]

(* The n-th step is made of the n-th message that is one. *)
StepsOf(trajectory) ==
    LET made == {i \in DOMAIN trajectory : IsStep(trajectory[i])}
        Nth(n) == CHOOSE i \in made : Cardinality({j \in made : j <= i}) = n
    IN [n \in 1 .. Cardinality(made) |-> SourceOf(trajectory[Nth(n)])]

(***************************************************************************)
(* _map_step.                                                              *)
(***************************************************************************)

ByRound(gt) == gt.type = "none" /\ gt.round # NoValue /\ gt.agent = NoValue

ByStage(gt) == gt.type \in {"none", "word"} /\ ~ByRound(gt) /\ gt.stage # NoValue

ByPosition(gt) ==
    /\ gt.type \in {"none", "word"} /\ ~ByRound(gt) /\ ~ByStage(gt)
    /\ gt.round # NoValue /\ gt.position # NoValue

(* The steps whose sources match. *)
Matching(gt, steps) ==
    {i \in DOMAIN steps :
        \/ gt.type = "int" /\ steps[i].number = gt.number
        \/ /\ gt.type = "dotted" /\ Word \notin {gt.dot.round, gt.dot.position}
           /\ steps[i].round = gt.dot.round /\ steps[i].position = gt.dot.position
        \/ ByRound(gt) /\ steps[i].kind = "round" /\ steps[i].round = gt.round
        \/ ByStage(gt) /\ steps[i].stage = gt.stage
        \/ ByPosition(gt) /\ steps[i].round = gt.round
                          /\ steps[i].position = gt.position}

First(S) == IF S = {} THEN NoStep ELSE CHOOSE i \in S : \A j \in S : i <= j

(* A stage counts the steps from 0; one that is past their end matches      *)
(* nothing, and one that no source has is a position.                       *)
MapStep(gt, steps) ==
    LET first == First(Matching(gt, steps)) IN
    IF ~ByStage(gt) THEN first
    ELSE IF gt.stage = Word \/ gt.stage + 1 \notin 1 .. Len(steps) THEN NoStep
    ELSE IF first = NoStep THEN gt.stage + 1 ELSE first
=============================================================================
