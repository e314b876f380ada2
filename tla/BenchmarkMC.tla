----------------------------- MODULE BenchmarkMC -----------------------------
(* Benchmark for TLC: what the records hold. *)
EXTENDS Benchmark

CONSTANTS r1, r2, r3, alice

Said(kind, agent) ==
    [kind |-> kind, agent |-> agent, number |-> NoValue, round |-> NoValue,
     position |-> NoValue, stage |-> NoValue]

NoTruth ==
    [type |-> "none", number |-> 0, dot |-> [round |-> Word, position |-> Word],
     agent |-> alice, round |-> NoValue, position |-> NoValue, stage |-> NoValue]

(* A pipeline whose stages are blamed, rounds of several agents, and a      *)
(* record of which nothing is a step.                                       *)
SomeTrajectories ==
    r1 :> << Said("user", NoValue), Said("planning", NoValue),
             [Said("other", alice) EXCEPT !.stage = 0], Said("other", NoValue),
             [Said("other", alice) EXCEPT !.stage = 1] >> @@
    r2 :> << [Said("agent", alice) EXCEPT !.round = 1, !.position = 1],
             [Said("agent", alice) EXCEPT !.round = 1, !.position = 2] >> @@
    r3 :> << Said("user", NoValue), Said("other", NoValue) >>

SomeTruths ==
    r1 :> [NoTruth EXCEPT !.stage = 1] @@
    r2 :> [NoTruth EXCEPT !.type = "dotted", !.dot = [round |-> 1, position |-> 2]] @@
    r3 :> [NoTruth EXCEPT !.stage = 0]
=============================================================================
