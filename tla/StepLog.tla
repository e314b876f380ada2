------------------------------- MODULE StepLog -------------------------------
(***************************************************************************)
(* What the step endpoints promise together: a log of steps per run to     *)
(* which every request appends all of its steps at once or none, and a     *)
(* counter on the run that never claims a step that is not stored.         *)
(***************************************************************************)
EXTENDS Naturals, FiniteSets

CONSTANTS Runs, Writers, NoRow

VARIABLES
    total,  \* runs.total_steps of each run, NoRow while there is no run
    steps   \* the rows of table steps: [run, number, by, pos]

vars == <<total, steps>>

StepsOf(rows, r) == {s \in rows : s.run = r}

Init ==
    /\ total = [r \in Runs |-> NoRow]
    /\ steps = {}

(* A request that succeeds.  The counter of a run it touches may lose steps *)
(* of others, yet it counts at least one step of a run that has any.        *)
Append(w) ==
    /\ \A s \in steps : s.by # w
    /\ steps \subseteq steps'
    /\ \A s \in steps' \ steps : s.by = w
    /\ \A r \in Runs :
          \/ /\ total'[r] = total[r]
             /\ StepsOf(steps', r) = StepsOf(steps, r)
          \/ /\ total'[r] \in 0 .. Cardinality(StepsOf(steps', r))
             /\ total'[r] = 0 => StepsOf(steps', r) = {}

Next == \E w \in Writers : Append(w)

Spec == Init /\ [][Next]_vars
=============================================================================
