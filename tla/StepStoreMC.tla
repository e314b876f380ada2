----------------------------- MODULE StepStoreMC -----------------------------
(* StepStore for TLC: what the batches carry. *)
EXTENDS StepStore, TLC

CONSTANTS r1, r2

Trace(r) == [kind |-> "trace-create", run |-> r, number |-> 0]
Obs(r, n) == [kind |-> "observation", run |-> r, number |-> n]
Span(r) == [kind |-> "span", run |-> r, number |-> 0]

(* The SDK's first batch of a run, one without a trace-create, an export    *)
(* with a spanId, and batches that touch two runs in opposite orders.       *)
SomeContents == {
    <<Trace(r1), Obs(r1, 1), Obs(r1, 0)>>,
    <<Obs(r1, 0), Obs(r2, 0)>>,
    <<Obs(r2, 2), Obs(r1, 0)>>,
    <<Obs(r1, 0), Span(r1)>> }

SingleEvents == {<<Trace(r1)>>, <<Obs(r1, 0)>>}

Symmetry == Permutations(Batches) \cup Permutations(Adders)
=============================================================================
