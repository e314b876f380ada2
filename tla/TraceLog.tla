------------------------------ MODULE TraceLog ------------------------------
(***************************************************************************)
(* What a tracer promises of the steps its host records: those that the    *)
(* API stores are never unstored, and a tracer with a queue stores them in *)
(* the order of recording, without gaps.                                   *)
(***************************************************************************)
EXTENDS Naturals

CONSTANT MaxSteps  \* bound on the steps the host records

VARIABLES
    ordered,   \* the tracer queues its steps
    recorded,  \* number of steps recorded
    stored     \* the step numbers the API has rows of

vars == <<ordered, recorded, stored>>

Prefix(k) == 1 .. k

Init ==
    /\ ordered \in BOOLEAN
    /\ recorded = 0
    /\ stored = {}

Record ==
    /\ recorded < MaxSteps
    /\ recorded' = recorded + 1
    /\ UNCHANGED <<ordered, stored>>

Store ==
    /\ stored' \in SUBSET Prefix(recorded)
    /\ stored \subseteq stored'
    /\ ordered => \E k \in 0 .. recorded : stored' = Prefix(k)
    /\ UNCHANGED <<ordered, recorded>>

Next == Record \/ Store

Spec == Init /\ [][Next]_vars
=============================================================================
