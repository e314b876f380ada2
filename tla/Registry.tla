------------------------------ MODULE Registry ------------------------------
(***************************************************************************)
(* What the API promises of projects, their keys and the runs ingested     *)
(* with them: a request that is answered takes effect, or is turned away   *)
(* for a reason that holds, in one step.  An ingestion takes two: its key  *)
(* is checked, and later its run is stored.                                *)
(***************************************************************************)
EXTENDS Naturals

CONSTANTS Creates, KeyCreates, Deletes, Ingests, Default, Names, DefaultName,
          RunIds, NoRow, NoKey

VARIABLES
    name,     \* the name of each project, or NoRow
    owner,    \* the project of each key, or NoRow
    run,      \* who inserted each run, for which project, or NoRow
    answer,   \* what each request asked for and was told, or NoRow
    granted   \* the trace of each ingestion and the project it is for, or NoRow

vars == <<name, owner, run, answer, granted>>

ProjectIds == Creates \cup {Default}

Trace == [run : RunIds, key : KeyCreates \cup {NoKey}]

Listed == {p \in ProjectIds : name[p] # NoRow}

Taken(n) == \E p \in ProjectIds : name[p] = n

Init ==
    /\ name = [p \in ProjectIds |-> IF p = Default THEN DefaultName ELSE NoRow]
    /\ owner = [k \in KeyCreates |-> NoRow]
    /\ run = [r \in RunIds |-> NoRow]
    /\ answer = [r \in Creates \cup KeyCreates \cup Deletes \cup Ingests |-> NoRow]
    /\ granted = [i \in Ingests |-> NoRow]

Answers(r, what, label) ==
    /\ answer[r] = NoRow
    /\ answer' = [answer EXCEPT ![r] = [to |-> what, is |-> label]]

Create(c, n) ==
    /\ \/ /\ ~Taken(n)
          /\ name' = [name EXCEPT ![c] = n]
          /\ Answers(c, n, "ok")
       \/ /\ Taken(n)
          /\ \E label \in {"conflict", "error"} : Answers(c, n, label)
          /\ UNCHANGED name
    /\ UNCHANGED <<owner, run, granted>>

(* A key is of a project that is there. *)
CreateKey(k, p) ==
    /\ \/ /\ p \in Listed
          /\ owner' = [owner EXCEPT ![k] = p]
          /\ Answers(k, p, "ok")
       \/ /\ p \notin Listed
          /\ Answers(k, p, "missing")
          /\ UNCHANGED owner
    /\ UNCHANGED <<name, run, granted>>

(* Only a key that was handed out is deleted, whoever deletes it first.     *)
DeleteKey(d, k) ==
    /\ \/ /\ \E p \in ProjectIds : answer[k] = [to |-> p, is |-> "ok"]
          /\ owner' = [owner EXCEPT ![k] = NoRow]
          /\ Answers(d, k, "ok")
       \/ /\ Answers(d, k, "missing")
          /\ UNCHANGED owner
    /\ UNCHANGED <<name, run, granted>>

(* The key is there when it is checked, and of the project that the run     *)
(* will have; only a batch with a key is refused.                           *)
Check(i, trace) ==
    /\ answer[i] = NoRow /\ granted[i] = NoRow
    /\ \/ \E p \in Listed :
             /\ p = IF trace.key = NoKey THEN Default ELSE owner[trace.key]
             /\ granted' = [granted EXCEPT ![i] = [trace |-> trace, project |-> p]]
             /\ UNCHANGED answer
       \/ /\ trace.key # NoKey
          /\ Answers(i, trace, "refused")
          /\ UNCHANGED granted
    /\ UNCHANGED <<name, owner, run>>

(* The first to store a run has it, and each is told of one that is there.  *)
Store(i, trace, p) ==
    /\ granted[i] = [trace |-> trace, project |-> p]
    /\ \/ /\ run[trace.run] = NoRow
          /\ run' = [run EXCEPT ![trace.run] = [by |-> i, project |-> p]]
          /\ Answers(i, trace, "ok")
       \/ /\ run[trace.run] # NoRow
          /\ \E label \in {"ok", "error"} : Answers(i, trace, label)
          /\ UNCHANGED run
    /\ UNCHANGED <<name, owner, granted>>

Next ==
    \/ \E c \in Creates, n \in Names : Create(c, n)
    \/ \E k \in KeyCreates, p \in ProjectIds : CreateKey(k, p)
    \/ \E d \in Deletes, k \in KeyCreates : DeleteKey(d, k)
    \/ \E i \in Ingests, trace \in Trace : Check(i, trace)
    \/ \E i \in Ingests, trace \in Trace, p \in Listed : Store(i, trace, p)

Spec == Init /\ [][Next]_vars
=============================================================================
