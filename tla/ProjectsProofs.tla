--------------------------- MODULE ProjectsProofs ---------------------------
(***************************************************************************)
(* Proofs about Projects for any requests, names and runs.                 *)
(***************************************************************************)
EXTENDS Projects, TLAPS

(* A project that is listed was created under the name that was wanted, or  *)
(* is the default one.                                                      *)
NamesWanted ==
    /\ name[Default] = DefaultName
    /\ \A c \in Creates :
          /\ pc[c] \in {"idle", "commit", "ok", "conflict", "error", "dead"}
          /\ pc[c] # "idle" => wanted[c] \in Names
          /\ name[c] # NoRow => name[c] = wanted[c]
          /\ name[c] # NoRow <=> pc[c] = "ok"

NamesUnique == \A p, q \in Listed : name[p] = name[q] => p = q

NamesTaken ==
    \A c \in Creates : pc[c] \in {"ok", "conflict", "error"} => Taken(wanted[c])

(* The row of a key is of the project it was wanted for, and is there only  *)
(* when its creation was answered; a deletion that was answered is final.   *)
KeysWanted ==
    /\ \A k \in KeyCreates :
          /\ pc[k] \in Outcomes \cup {"idle", "commit"}
          /\ pc[k] = "commit" => wanted[k] \in ProjectIds
          /\ owner[k] # NoRow => pc[k] = "ok" /\ owner[k] = wanted[k]
    /\ \A d \in Deletes :
          /\ pc[d] \in Outcomes \cup {"idle", "commit"}
          /\ pc[d] \in {"commit", "ok"} => wanted[d] \in KeyCreates
          /\ pc[d] \in {"commit", "ok"} => pc[wanted[d]] = "ok"
          /\ pc[d] = "ok" => owner[wanted[d]] = NoRow

(* What an ingestion resolved is the project of its key.                    *)
IngestsResolved ==
    \A i \in Ingests :
        /\ pc[i] # "idle" => wanted[i] \in Trace
        /\ pc[i] \in {"get", "commit"} \/ (\E r \in RunIds : run[r] # NoRow /\ run[r].by = i) =>
               /\ wanted[i].key # NoKey => pc[wanted[i].key] = "ok"
               /\ resolved[i] = IF wanted[i].key = NoKey THEN Default
                                ELSE wanted[wanted[i].key]
        /\ (\E r \in RunIds : run[r] # NoRow /\ run[r].by = i) => pc[i] = "ok"

IInv == ApiTypeOK /\ NamesWanted /\ NamesUnique /\ NamesTaken /\ KeysWanted
            /\ IngestsResolved /\ RunsFollowTheirKey

USE DisjointRequests, DefaultAssumption, SentinelsAssumption DEF Requests, ProjectIds

LEMMA Initially == ApiInit => IInv
<1>. SUFFICES ASSUME ApiInit PROVE IInv
    OBVIOUS
<1>1. ApiTypeOK
    BY DEF ApiInit, ApiTypeOK, Outcomes
<1>2. NamesWanted /\ NamesUnique /\ NamesTaken
    BY DEF ApiInit, NamesWanted, NamesUnique, NamesTaken, Listed
<1>3. KeysWanted
    BY DEF ApiInit, KeysWanted, Outcomes
<1>4. IngestsResolved /\ RunsFollowTheirKey
    BY DEF ApiInit, IngestsResolved, RunsFollowTheirKey
<1>. QED
    BY <1>1, <1>2, <1>3, <1>4 DEF IInv

(***************************************************************************)
(* What a step of a request leaves alone.                                  *)
(***************************************************************************)

LEMMA NamesUndisturbed ==
    ASSUME NamesWanted, NamesUnique, NamesTaken, name' = name,
           \A c \in Creates : pc'[c] = pc[c] /\ wanted'[c] = wanted[c]
    PROVE  NamesWanted' /\ NamesUnique' /\ NamesTaken'
<1>1. NamesWanted'
    BY DEF NamesWanted
<1>2. NamesUnique'
    BY DEF NamesUnique, Listed
<1>3. NamesTaken'
    BY DEF NamesTaken, Taken
<1>. QED
    BY <1>1, <1>2, <1>3

LEMMA KeysUndisturbed ==
    ASSUME KeysWanted, owner' = owner,
           \A r \in KeyCreates \cup Deletes : pc'[r] = pc[r] /\ wanted'[r] = wanted[r]
    PROVE  KeysWanted'
<1>1. \A d \in Deletes : pc[d] \in {"commit", "ok"} => wanted[d] \in KeyCreates
    BY DEF KeysWanted
<1>. QED
    BY <1>1 DEF KeysWanted

LEMMA IngestsUndisturbed ==
    ASSUME IngestsResolved, RunsFollowTheirKey, ApiTypeOK,
           run' = run, resolved' = resolved,
           \A i \in Ingests : pc'[i] = pc[i] /\ wanted'[i] = wanted[i],
           \A k \in KeyCreates : pc[k] = "ok" => pc'[k] = "ok" /\ wanted'[k] = wanted[k]
    PROVE  IngestsResolved' /\ RunsFollowTheirKey'
<1>1. \A i \in Ingests : pc[i] # "idle" => wanted[i].key \in KeyCreates \cup {NoKey}
    BY DEF IngestsResolved, Trace
<1>2. \A r \in RunIds : run[r] # NoRow => run[r].by \in Ingests
    BY DEF ApiTypeOK, RunRow
<1>3. IngestsResolved'
    BY <1>1, <1>2 DEF IngestsResolved
<1>4. RunsFollowTheirKey'
    <2>. SUFFICES ASSUME NEW r \in RunIds, run[r] # NoRow
                  PROVE  LET key == wanted[run[r].by].key IN
                         /\ wanted[run[r].by].run = r
                         /\ run[r].project =
                               IF key = NoKey THEN Default ELSE wanted'[key]
        BY <1>2 DEF RunsFollowTheirKey
    <2>1. pc[run[r].by] = "ok"
        BY <1>2 DEF IngestsResolved
    <2>2. wanted[run[r].by].key # NoKey => pc[wanted[run[r].by].key] = "ok"
        BY <1>2 DEF IngestsResolved
    <2>. QED
        BY <1>1, <1>2, <2>1, <2>2 DEF RunsFollowTheirKey
<1>. QED
    BY <1>3, <1>4

(* A step of one request, at least. *)
LEMMA OthersWait ==
    ASSUME ApiTypeOK, NEW r \in Requests, NEW label, Advance(r, label)
    PROVE  \A s \in Requests \ {r} : pc'[s] = pc[s]
BY DEF ApiTypeOK, Advance

LEMMA ArrivalsWait ==
    ASSUME ApiTypeOK, NEW r \in Requests, NEW what, NEW label, Arrives(r, what, label)
    PROVE  /\ pc[r] = "idle" /\ pc'[r] = label /\ wanted'[r] = what
           /\ \A s \in Requests \ {r} : pc'[s] = pc[s] /\ wanted'[s] = wanted[s]
BY DEF ApiTypeOK, Arrives, Advance

(***************************************************************************)
(* create_project.                                                         *)
(***************************************************************************)

LEMMA CreateSelectStep ==
    ASSUME IInv, NEW c \in Creates, NEW n \in Names, CreateSelect(c, n)
    PROVE  IInv'
<1>. USE DEF IInv
<1>1. pc[c] = "idle" /\ pc'[c] = (IF Taken(n) THEN "conflict" ELSE "commit") /\ wanted'[c] = n
    BY ArrivalsWait DEF CreateSelect
<1>2. \A s \in Requests \ {c} : pc'[s] = pc[s] /\ wanted'[s] = wanted[s]
    BY ArrivalsWait DEF CreateSelect
<1>3. name' = name /\ owner' = owner /\ run' = run /\ resolved' = resolved
    BY DEF CreateSelect
<1>4. ApiTypeOK'
    BY <1>3 DEF ApiTypeOK, CreateSelect, Arrives, Advance, Outcomes
<1>5. NamesWanted'
    BY <1>1, <1>2, <1>3 DEF NamesWanted
<1>6. NamesUnique'
    BY <1>3 DEF NamesUnique, Listed
<1>7. NamesTaken'
    <2>1. (pc'[c] = "conflict" /\ Taken(n)) \/ pc'[c] = "commit"
        BY <1>1
    <2>2. \A b \in Creates \ {c} : pc'[b] = pc[b] /\ wanted'[b] = wanted[b]
        BY <1>2
    <2>3. ASSUME NEW b \in Creates, pc'[b] \in {"ok", "conflict", "error"}
          PROVE  Taken(wanted'[b])
        BY <1>1, <2>1, <2>2, <2>3 DEF NamesTaken
    <2>. QED
        BY <1>3, <2>3 DEF NamesTaken, Taken
<1>8. KeysWanted'
    BY <1>2, <1>3, KeysUndisturbed
<1>9. IngestsResolved' /\ RunsFollowTheirKey'
    BY <1>2, <1>3, IngestsUndisturbed
<1>. QED
    BY <1>4, <1>5, <1>6, <1>7, <1>8, <1>9

LEMMA CreateCommitStep ==
    ASSUME IInv, NEW c \in Creates, CreateCommit(c)
    PROVE  IInv'
<1>. USE DEF IInv
<1>1. /\ pc[c] = "commit"
      /\ wanted' = wanted /\ owner' = owner /\ run' = run /\ resolved' = resolved
    BY DEF CreateCommit
<1>2. \A s \in Requests \ {c} : pc'[s] = pc[s]
    BY OthersWait DEF CreateCommit
<1>3. wanted[c] \in Names /\ name[c] = NoRow
    BY <1>1 DEF NamesWanted, ApiTypeOK
<1>4. \/ Taken(wanted[c]) /\ pc'[c] = "error" /\ name' = name
      \/ ~Taken(wanted[c]) /\ pc'[c] = "ok" /\ name' = [name EXCEPT ![c] = wanted[c]]
    BY DEF CreateCommit, Advance, ApiTypeOK
<1>5. ApiTypeOK'
    BY <1>1, <1>3, <1>4 DEF ApiTypeOK, CreateCommit, Advance, Outcomes
<1>6. NamesWanted' /\ NamesUnique' /\ NamesTaken'
    <2>1. CASE Taken(wanted[c]) /\ pc'[c] = "error" /\ name' = name
        BY <1>1, <1>2, <1>3, <2>1 DEF NamesWanted, NamesUnique, NamesTaken, Taken, Listed
    <2>2. CASE ~Taken(wanted[c]) /\ pc'[c] = "ok"
                                 /\ name' = [name EXCEPT ![c] = wanted[c]]
        <3>1. name'[c] = wanted[c] /\ \A p \in ProjectIds \ {c} : name'[p] = name[p]
            BY <2>2 DEF ApiTypeOK
        <3>2. NamesWanted'
            BY <1>1, <1>2, <1>3, <2>2, <3>1 DEF NamesWanted
        <3>3. NamesUnique'
            BY <1>3, <2>2, <3>1 DEF NamesUnique, Taken, Listed
        <3>4. NamesTaken'
            <4>. SUFFICES ASSUME NEW b \in Creates, pc'[b] \in {"ok", "conflict", "error"}
                          PROVE  \E p \in ProjectIds : name'[p] = wanted[b]
                BY <1>1 DEF NamesTaken, Taken
            <4>1. CASE b = c
                BY <3>1, <4>1
            <4>2. CASE b # c
                <5>1. wanted[b] \in Names /\ Taken(wanted[b])
                    BY <1>2, <4>2 DEF NamesTaken, NamesWanted
                <5>2. PICK p \in ProjectIds : name[p] = wanted[b]
                    BY <5>1 DEF Taken
                <5>3. p # c
                    BY <1>3, <5>1, <5>2
                <5>. QED
                    BY <3>1, <5>2, <5>3
            <4>. QED
                BY <4>1, <4>2
        <3>. QED
            BY <3>2, <3>3, <3>4
    <2>. QED
        BY <1>4, <2>1, <2>2
<1>7. KeysWanted'
    BY <1>1, <1>2, KeysUndisturbed
<1>8. IngestsResolved' /\ RunsFollowTheirKey'
    BY <1>1, <1>2, IngestsUndisturbed
<1>. QED
    BY <1>5, <1>6, <1>7, <1>8

(***************************************************************************)
(* create_key and delete_key.                                              *)
(***************************************************************************)

LEMMA CreateKeyLoadStep ==
    ASSUME IInv, NEW k \in KeyCreates, NEW p \in ProjectIds, CreateKeyLoad(k, p)
    PROVE  IInv'
<1>. USE DEF IInv
<1>1. pc[k] = "idle" /\ pc'[k] \in {"commit", "missing"} /\ wanted'[k] = p
    BY ArrivalsWait DEF CreateKeyLoad
<1>2. \A s \in Requests \ {k} : pc'[s] = pc[s] /\ wanted'[s] = wanted[s]
    BY ArrivalsWait DEF CreateKeyLoad
<1>3. name' = name /\ owner' = owner /\ run' = run /\ resolved' = resolved
    BY DEF CreateKeyLoad
<1>4. ApiTypeOK'
    BY <1>3 DEF ApiTypeOK, CreateKeyLoad, Arrives, Advance, Outcomes
<1>5. NamesWanted' /\ NamesUnique' /\ NamesTaken'
    BY <1>2, <1>3, NamesUndisturbed
<1>6. KeysWanted'
    <2>1. owner[k] = NoRow
        BY <1>1 DEF KeysWanted
    <2>2. \A d \in Deletes : pc[d] \in {"commit", "ok"} => wanted[d] # k
        BY <1>1 DEF KeysWanted
    <2>. QED
        BY <1>1, <1>2, <1>3, <2>1, <2>2 DEF KeysWanted, Outcomes
<1>7. IngestsResolved' /\ RunsFollowTheirKey'
    BY <1>1, <1>2, <1>3, IngestsUndisturbed
<1>. QED
    BY <1>4, <1>5, <1>6, <1>7

LEMMA CreateKeyCommitStep ==
    ASSUME IInv, NEW k \in KeyCreates, CreateKeyCommit(k)
    PROVE  IInv'
<1>. USE DEF IInv
<1>1. /\ pc[k] = "commit" /\ pc'[k] = "ok"
      /\ name' = name /\ wanted' = wanted /\ run' = run /\ resolved' = resolved
    BY DEF CreateKeyCommit, Advance, ApiTypeOK
<1>2. \A s \in Requests \ {k} : pc'[s] = pc[s]
    BY OthersWait DEF CreateKeyCommit
<1>3. owner'[k] = wanted[k] /\ \A j \in KeyCreates \ {k} : owner'[j] = owner[j]
    BY DEF CreateKeyCommit, ApiTypeOK
<1>4. wanted[k] \in ProjectIds
    BY <1>1 DEF KeysWanted
<1>5. ApiTypeOK'
    BY <1>1, <1>4 DEF ApiTypeOK, CreateKeyCommit, Advance, Outcomes
<1>6. NamesWanted' /\ NamesUnique' /\ NamesTaken'
    BY <1>1, <1>2, NamesUndisturbed
<1>7. KeysWanted'
    <2>1. \A d \in Deletes : pc[d] \in {"commit", "ok"} => wanted[d] \in KeyCreates \ {k}
        BY <1>1 DEF KeysWanted
    <2>. QED
        BY <1>1, <1>2, <1>3, <1>4, <2>1 DEF KeysWanted, Outcomes
<1>8. IngestsResolved' /\ RunsFollowTheirKey'
    BY <1>1, <1>2, IngestsUndisturbed
<1>. QED
    BY <1>5, <1>6, <1>7, <1>8

LEMMA DeleteKeyLoadStep ==
    ASSUME IInv, NEW d \in Deletes, NEW p \in ProjectIds, NEW k \in KeyCreates,
           DeleteKeyLoad(d, p, k)
    PROVE  IInv'
<1>. USE DEF IInv
<1>1. /\ pc[d] = "idle" /\ wanted'[d] = k
      /\ pc'[d] = IF owner[k] = p THEN "commit" ELSE "missing"
    BY ArrivalsWait DEF DeleteKeyLoad
<1>2. \A s \in Requests \ {d} : pc'[s] = pc[s] /\ wanted'[s] = wanted[s]
    BY ArrivalsWait DEF DeleteKeyLoad
<1>3. name' = name /\ owner' = owner /\ run' = run /\ resolved' = resolved
    BY DEF DeleteKeyLoad
<1>4. ApiTypeOK'
    BY <1>3 DEF ApiTypeOK, DeleteKeyLoad, Arrives, Advance, Outcomes
<1>5. NamesWanted' /\ NamesUnique' /\ NamesTaken'
    BY <1>2, <1>3, NamesUndisturbed
<1>6. KeysWanted'
    <2>1. owner[k] = p => pc[k] = "ok"
        BY DEF KeysWanted
    <2>2. \A j \in KeyCreates : pc'[j] = pc[j] /\ wanted'[j] = wanted[j]
        BY <1>2
    <2>3. \A e \in Deletes : pc[e] \in {"commit", "ok"} => wanted[e] \in KeyCreates
        BY DEF KeysWanted
    <2>. QED
        BY <1>1, <1>2, <1>3, <2>1, <2>2, <2>3 DEF KeysWanted, Outcomes
<1>7. IngestsResolved' /\ RunsFollowTheirKey'
    BY <1>2, <1>3, IngestsUndisturbed
<1>. QED
    BY <1>4, <1>5, <1>6, <1>7

LEMMA DeleteKeyCommitStep ==
    ASSUME IInv, NEW d \in Deletes, DeleteKeyCommit(d)
    PROVE  IInv'
<1>. USE DEF IInv
<1>1. /\ pc[d] = "commit" /\ pc'[d] = "ok"
      /\ name' = name /\ wanted' = wanted /\ run' = run /\ resolved' = resolved
    BY DEF DeleteKeyCommit, Advance, ApiTypeOK
<1>2. \A s \in Requests \ {d} : pc'[s] = pc[s]
    BY OthersWait DEF DeleteKeyCommit
<1>3. wanted[d] \in KeyCreates /\ pc[wanted[d]] = "ok"
    BY <1>1 DEF KeysWanted
<1>4. owner'[wanted[d]] = NoRow /\ \A k \in KeyCreates \ {wanted[d]} : owner'[k] = owner[k]
    BY <1>3 DEF DeleteKeyCommit, ApiTypeOK
<1>5. ApiTypeOK'
    BY <1>1, <1>3 DEF ApiTypeOK, DeleteKeyCommit, Advance, Outcomes
<1>6. NamesWanted' /\ NamesUnique' /\ NamesTaken'
    BY <1>1, <1>2, NamesUndisturbed
<1>7. KeysWanted'
    <2>1. \A e \in Deletes : pc[e] \in {"commit", "ok"} => wanted[e] \in KeyCreates
        BY DEF KeysWanted
    <2>. QED
        BY <1>1, <1>2, <1>3, <1>4, <2>1 DEF KeysWanted, Outcomes
<1>8. IngestsResolved' /\ RunsFollowTheirKey'
    BY <1>1, <1>2, IngestsUndisturbed
<1>. QED
    BY <1>5, <1>6, <1>7, <1>8

(***************************************************************************)
(* ingest.                                                                 *)
(***************************************************************************)

LEMMA ResolvedProject ==
    ASSUME IInv, NEW key \in KeyCreates \cup {NoKey},
           NEW secret \in {"none", "right", "wrong"}, Resolved(key, secret) # NoRow
    PROVE  /\ Resolved(key, secret) \in ProjectIds
           /\ key # NoKey => pc[key] = "ok"
           /\ Resolved(key, secret) = IF key = NoKey THEN Default ELSE wanted[key]
BY DEF IInv, Resolved, KeysWanted, ApiTypeOK

LEMMA IngestResolveStep ==
    ASSUME IInv, NEW i \in Ingests, NEW trace \in Trace,
           NEW secret \in {"none", "right", "wrong"}, IngestResolve(i, trace, secret)
    PROVE  IInv'
<1>. USE DEF IInv
<1>. DEFINE project == Resolved(trace.key, secret)
<1>1. /\ pc[i] = "idle" /\ wanted'[i] = trace
      /\ pc'[i] = IF project = NoRow THEN "refused" ELSE "get"
    BY ArrivalsWait DEF IngestResolve
<1>2. \A s \in Requests \ {i} : pc'[s] = pc[s] /\ wanted'[s] = wanted[s]
    BY ArrivalsWait DEF IngestResolve
<1>3. /\ name' = name /\ owner' = owner /\ run' = run
      /\ resolved' = IF project = NoRow THEN resolved
                     ELSE [resolved EXCEPT ![i] = project]
    BY DEF IngestResolve
<1>4. trace.key \in KeyCreates \cup {NoKey}
    BY DEF Trace
<1>5. project # NoRow =>
          /\ project \in ProjectIds
          /\ trace.key # NoKey => pc[trace.key] = "ok"
          /\ project = IF trace.key = NoKey THEN Default ELSE wanted[trace.key]
    BY <1>4, ResolvedProject
<1>. HIDE DEF project
<1>6. ApiTypeOK'
    <2>1. resolved' \in [Ingests -> ProjectIds]
        BY <1>3, <1>5 DEF ApiTypeOK
    <2>2. pc' \in [Requests -> Outcomes \cup {"idle", "get", "commit"}]
        BY DEF ApiTypeOK, IngestResolve, Arrives, Advance, Outcomes
    <2>3. DOMAIN wanted' = Requests
        BY DEF ApiTypeOK, IngestResolve, Arrives
    <2>. QED
        BY <1>1, <1>2, <1>3, <2>1, <2>2, <2>3 DEF ApiTypeOK
<1>7. NamesWanted' /\ NamesUnique' /\ NamesTaken'
    BY <1>2, <1>3, NamesUndisturbed
<1>8. KeysWanted'
    BY <1>2, <1>3, KeysUndisturbed
<1>9. \A r \in RunIds : run[r] # NoRow => run[r].by \in Ingests \ {i}
    BY <1>1 DEF ApiTypeOK, RunRow, IngestsResolved
<1>10. \A k \in KeyCreates : pc'[k] = pc[k] /\ wanted'[k] = wanted[k]
    BY <1>2
<1>11. \A j \in Ingests \ {i} :
           /\ pc'[j] = pc[j] /\ wanted'[j] = wanted[j] /\ resolved'[j] = resolved[j]
           /\ pc[j] # "idle" => wanted[j].key \in KeyCreates \cup {NoKey}
    BY <1>2, <1>3 DEF ApiTypeOK, IngestsResolved, Trace
<1>12. IngestsResolved'
    <2>1. ASSUME NEW j \in Ingests \ {i}
          PROVE  /\ pc[j] # "idle" => wanted[j] \in Trace
                 /\ pc[j] \in {"get", "commit"}
                        \/ (\E r \in RunIds : run[r] # NoRow /\ run[r].by = j) =>
                      /\ wanted[j].key # NoKey => pc'[wanted[j].key] = "ok"
                      /\ resolved[j] = IF wanted[j].key = NoKey THEN Default
                                       ELSE wanted'[wanted[j].key]
                 /\ (\E r \in RunIds : run[r] # NoRow /\ run[r].by = j) => pc[j] = "ok"
        BY <1>10, <1>11, <2>1 DEF IngestsResolved
    <2>2. pc'[i] = "get" => project # NoRow /\ resolved'[i] = project
        BY <1>1, <1>3 DEF ApiTypeOK
    <2>3. /\ wanted'[i] \in Trace
          /\ pc'[i] \in {"refused", "get"}
          /\ pc'[i] = "get" =>
                /\ wanted'[i].key # NoKey => pc'[wanted'[i].key] = "ok"
                /\ resolved'[i] = IF wanted'[i].key = NoKey THEN Default
                                  ELSE wanted'[wanted'[i].key]
          /\ ~\E r \in RunIds : run'[r] # NoRow /\ run'[r].by = i
        BY <1>1, <1>3, <1>4, <1>5, <1>9, <1>10, <2>2
    <2>. QED
        BY <1>3, <1>11, <2>1, <2>3 DEF IngestsResolved
<1>13. RunsFollowTheirKey'
    <2>. SUFFICES ASSUME NEW r \in RunIds, run[r] # NoRow
                  PROVE  /\ wanted'[run[r].by].run = r
                         /\ run[r].project =
                               IF wanted'[run[r].by].key = NoKey THEN Default
                               ELSE wanted'[wanted'[run[r].by].key]
        BY <1>3 DEF RunsFollowTheirKey
    <2>1. run[r].by \in Ingests \ {i} /\ pc[run[r].by] = "ok"
        BY <1>9 DEF IngestsResolved
    <2>. QED
        BY <1>10, <1>11, <2>1 DEF RunsFollowTheirKey
<1>. QED
    BY <1>6, <1>7, <1>8, <1>12, <1>13

LEMMA IngestGetRunStep ==
    ASSUME IInv, NEW i \in Ingests, IngestGetRun(i)
    PROVE  IInv'
<1>. USE DEF IInv
<1>1. pc[i] = "get" /\ pc'[i] \in {"commit", "ok"}
    BY DEF IngestGetRun, Advance, ApiTypeOK
<1>2. UNCHANGED <<name, owner, run, wanted, resolved>>
    BY DEF IngestGetRun
<1>3. \A s \in Requests \ {i} : pc'[s] = pc[s]
    BY OthersWait DEF IngestGetRun
<1>4. ApiTypeOK'
    BY <1>2 DEF ApiTypeOK, IngestGetRun, Advance, Outcomes
<1>5. NamesWanted' /\ NamesUnique' /\ NamesTaken'
    BY <1>2, <1>3, NamesUndisturbed
<1>6. KeysWanted'
    BY <1>2, <1>3, KeysUndisturbed
<1>7. \A j \in Ingests : pc[j] # "idle" => wanted[j].key \in KeyCreates \cup {NoKey}
    BY DEF IngestsResolved, Trace
<1>8. IngestsResolved'
    BY <1>1, <1>2, <1>3, <1>7 DEF IngestsResolved
<1>9. RunsFollowTheirKey'
    BY <1>2 DEF RunsFollowTheirKey
<1>. QED
    BY <1>4, <1>5, <1>6, <1>8, <1>9

LEMMA IngestCommitStep ==
    ASSUME IInv, NEW i \in Ingests, IngestCommit(i)
    PROVE  IInv'
<1>. USE DEF IInv
<1>. DEFINE r == wanted[i].run
<1>1. /\ pc[i] = "commit"
      /\ \/ pc'[i] = "error" /\ run' = run
         \/ /\ pc'[i] = "ok" /\ run[r] = NoRow
            /\ run' = [run EXCEPT ![r] = [by |-> i, project |-> resolved[i]]]
    BY DEF IngestCommit, Advance, ApiTypeOK
<1>2. UNCHANGED <<name, owner, wanted, resolved>>
    BY DEF IngestCommit
<1>3. \A s \in Requests \ {i} : pc'[s] = pc[s]
    BY OthersWait DEF IngestCommit
<1>4. /\ wanted[i] \in Trace /\ r \in RunIds
      /\ wanted[i].key \in KeyCreates \cup {NoKey}
      /\ wanted[i].key # NoKey => pc[wanted[i].key] = "ok"
      /\ resolved[i] = IF wanted[i].key = NoKey THEN Default ELSE wanted[wanted[i].key]
      /\ [by |-> i, project |-> resolved[i]] \in RunRow
    BY <1>1 DEF IngestsResolved, ApiTypeOK, Trace, RunRow
<1>5. ApiTypeOK'
    BY <1>2, <1>4 DEF ApiTypeOK, IngestCommit, Advance, Outcomes
<1>6. NamesWanted' /\ NamesUnique' /\ NamesTaken'
    BY <1>2, <1>3, NamesUndisturbed
<1>7. KeysWanted'
    BY <1>2, <1>3, KeysUndisturbed
<1>8. \A j \in Ingests : pc[j] # "idle" => wanted[j].key \in KeyCreates \cup {NoKey}
    BY DEF IngestsResolved, Trace
<1>9. \/ run' = run /\ pc'[i] = "error"
      \/ /\ pc'[i] = "ok"
         /\ run'[r] = [by |-> i, project |-> resolved[i]]
         /\ \A q \in RunIds \ {r} : run'[q] = run[q]
    BY <1>1, <1>4 DEF ApiTypeOK
<1>10. ~\E q \in RunIds : run[q] # NoRow /\ run[q].by = i
    BY <1>1 DEF IngestsResolved
<1>11. [by |-> i, project |-> resolved[i]] # NoRow
    BY <1>4
<1>. HIDE DEF r
<1>12. \A j \in Ingests \ {i} :
           (\E q \in RunIds : run'[q] # NoRow /\ run'[q].by = j)
               => (\E q \in RunIds : run[q] # NoRow /\ run[q].by = j)
    BY <1>4, <1>9
<1>13. IngestsResolved'
    BY <1>1, <1>2, <1>3, <1>4, <1>8, <1>9, <1>10, <1>12 DEF IngestsResolved
<1>14. RunsFollowTheirKey'
    BY <1>2, <1>4, <1>9 DEF RunsFollowTheirKey, r
<1>. QED
    BY <1>5, <1>6, <1>7, <1>13, <1>14

LEMMA CrashStep ==
    ASSUME IInv, NEW q \in Requests, Crash(q)
    PROVE  IInv'
<1>. USE DEF IInv
<1>1. pc[q] \notin Outcomes \cup {"idle"} /\ pc'[q] = "dead"
    BY DEF Crash, InFlight, Advance, ApiTypeOK
<1>2. UNCHANGED <<name, owner, run, wanted, resolved>>
    BY DEF Crash
<1>3. \A s \in Requests \ {q} : pc'[s] = pc[s]
    BY OthersWait DEF Crash
<1>4. ApiTypeOK'
    BY <1>2 DEF ApiTypeOK, Crash, Advance, Outcomes
<1>5. NamesWanted' /\ NamesUnique' /\ NamesTaken'
    BY <1>1, <1>2, <1>3 DEF NamesWanted, NamesUnique, NamesTaken, Taken, Listed, Outcomes
<1>6. KeysWanted'
    <2>1. \A d \in Deletes : pc[d] \in {"commit", "ok"} => wanted[d] \in KeyCreates
        BY DEF KeysWanted
    <2>. QED
        BY <1>1, <1>2, <1>3, <2>1 DEF KeysWanted, Outcomes
<1>7. \A j \in Ingests : pc[j] # "idle" => wanted[j].key \in KeyCreates \cup {NoKey}
    BY DEF IngestsResolved, Trace
<1>8. IngestsResolved'
    BY <1>1, <1>2, <1>3, <1>7 DEF IngestsResolved, Outcomes
<1>9. RunsFollowTheirKey'
    BY <1>2 DEF RunsFollowTheirKey
<1>. QED
    BY <1>4, <1>5, <1>6, <1>8, <1>9

(***************************************************************************)
(* The theorems.                                                           *)
(***************************************************************************)

LEMMA Step == IInv /\ [ApiNext]_apiVars => IInv'
<1>. SUFFICES ASSUME IInv, [ApiNext]_apiVars PROVE IInv'
    OBVIOUS
<1>1. CASE Arrival
    BY <1>1, CreateSelectStep, CreateKeyLoadStep, DeleteKeyLoadStep, IngestResolveStep
    DEF Arrival
<1>2. CASE Serving
    BY <1>2, CreateCommitStep, CreateKeyCommitStep, DeleteKeyCommitStep,
       IngestGetRunStep, IngestCommitStep DEF Serving
<1>3. CASE \E r \in Requests : Crash(r)
    BY <1>3, CrashStep
<1>4. CASE UNCHANGED apiVars
    <2>1. ApiTypeOK'
        BY <1>4 DEF IInv, apiVars, ApiTypeOK
    <2>2. NamesWanted' /\ NamesUnique' /\ NamesTaken'
        BY <1>4, NamesUndisturbed DEF IInv, apiVars
    <2>3. KeysWanted'
        BY <1>4, KeysUndisturbed DEF IInv, apiVars
    <2>4. IngestsResolved' /\ RunsFollowTheirKey'
        BY <1>4, IngestsUndisturbed DEF IInv, apiVars
    <2>. QED
        BY <2>1, <2>2, <2>3, <2>4 DEF IInv
<1>. QED
    BY <1>1, <1>2, <1>3, <1>4 DEF ApiNext

(* Names, keys and resolved ingestions are as their requests wanted them.   *)
THEOREM Invariance == ApiSpec => []IInv
<1>. QED
    BY Initially, Step, PTL DEF ApiSpec

(* The rows and the requests have their types. *)
THEOREM TypeCorrect == ApiSpec => []ApiTypeOK
<1>1. IInv => ApiTypeOK
    BY DEF IInv
<1>. QED
    BY <1>1, Invariance, PTL

(* Of the requests that create projects of one name, however they           *)
(* interleave, one at most succeeds, and every answer says that the name is *)
(* there.                                                                   *)
THEOREM NamesAreAnswered == ApiSpec => []NamesAnswered
<1>1. IInv => NamesAnswered
    BY DEF IInv, NamesAnswered, NamesUnique, NamesTaken
<1>. QED
    BY <1>1, Invariance, PTL

(* A run is of the project of the key that its batch came with.             *)
THEOREM RunsAreOfTheirKey == ApiSpec => []RunsFollowTheirKey
<1>1. IInv => RunsFollowTheirKey
    BY DEF IInv
<1>. QED
    BY <1>1, Invariance, PTL

LEMMA ArrivedIngest ==
    ASSUME IInv, [ApiNext]_apiVars, NEW i \in Ingests, pc[i] = "idle", pc'[i] # "idle"
    PROVE  \E trace \in Trace, secret \in {"none", "right", "wrong"} :
               IngestResolve(i, trace, secret)
<1>. USE DEF IInv
<1>1. CASE Arrival
    <2>1. ASSUME NEW c \in Creates, NEW n \in Names, CreateSelect(c, n) PROVE FALSE
        BY <2>1, ArrivalsWait DEF CreateSelect
    <2>2. ASSUME NEW k \in KeyCreates, NEW p \in ProjectIds, CreateKeyLoad(k, p) PROVE FALSE
        BY <2>2, ArrivalsWait DEF CreateKeyLoad
    <2>3. ASSUME NEW d \in Deletes, NEW p \in ProjectIds, NEW k \in KeyCreates,
                 DeleteKeyLoad(d, p, k)
          PROVE  FALSE
        BY <2>3, ArrivalsWait DEF DeleteKeyLoad
    <2>4. ASSUME NEW j \in Ingests, NEW trace \in Trace,
                 NEW secret \in {"none", "right", "wrong"}, IngestResolve(j, trace, secret)
          PROVE  i = j
        BY <2>4, ArrivalsWait DEF IngestResolve
    <2>. QED
        BY <1>1, <2>1, <2>2, <2>3, <2>4 DEF Arrival
<1>2. CASE Serving
    <2>1. ASSUME NEW c \in Creates, CreateCommit(c) PROVE FALSE
        BY <2>1, OthersWait DEF CreateCommit
    <2>2. ASSUME NEW k \in KeyCreates, CreateKeyCommit(k) PROVE FALSE
        BY <2>2, OthersWait DEF CreateKeyCommit
    <2>3. ASSUME NEW d \in Deletes, DeleteKeyCommit(d) PROVE FALSE
        BY <2>3, OthersWait DEF DeleteKeyCommit
    <2>4. ASSUME NEW j \in Ingests, IngestGetRun(j) \/ IngestCommit(j) PROVE FALSE
        BY <2>4, OthersWait DEF IngestGetRun, IngestCommit
    <2>. QED
        BY <1>2, <2>1, <2>2, <2>3, <2>4 DEF Serving
<1>3. CASE \E r \in Requests : Crash(r)
    BY <1>3, OthersWait DEF Crash, InFlight
<1>4. CASE UNCHANGED apiVars
    BY <1>4 DEF apiVars
<1>. QED
    BY <1>1, <1>2, <1>3, <1>4 DEF ApiNext

(* A key whose deletion was answered authorises no batch that comes later.  *)
THEOREM RevokedKeysAreRefused == ApiSpec => RevokedKeysRefused
<1>1. ASSUME IInv, [ApiNext]_apiVars
      PROVE  [\A i \in Ingests, d \in Deletes :
                 pc[i] = "idle" /\ pc'[i] # "idle" /\ pc[d] = "ok"
                                /\ wanted'[i].key = wanted[d]
                     => pc'[i] = "refused"]_apiVars
    <2>. SUFFICES ASSUME NEW i \in Ingests, NEW d \in Deletes,
                         pc[i] = "idle", pc'[i] # "idle", pc[d] = "ok",
                         wanted'[i].key = wanted[d]
                  PROVE  pc'[i] = "refused"
        OBVIOUS
    <2>1. PICK trace \in Trace, secret \in {"none", "right", "wrong"} :
              IngestResolve(i, trace, secret)
        BY <1>1, ArrivedIngest
    <2>2. /\ wanted'[i] = trace
          /\ pc'[i] = IF Resolved(trace.key, secret) = NoRow THEN "refused" ELSE "get"
        BY <1>1, <2>1, ArrivalsWait DEF IngestResolve, IInv
    <2>3. wanted[d] \in KeyCreates /\ owner[wanted[d]] = NoRow
        BY <1>1 DEF IInv, KeysWanted
    <2>4. Resolved(trace.key, secret) = NoRow
        BY <2>2, <2>3 DEF Resolved
    <2>. QED
        BY <2>2, <2>4
<1>. QED
    BY <1>1, Invariance, PTL DEF ApiSpec, RevokedKeysRefused

(***************************************************************************)
(* The registry.                                                           *)
(***************************************************************************)

(* A key, and a run to be stored, are of projects that are there. *)
InProject ==
    /\ \A k \in KeyCreates :
          /\ pc[k] \in {"commit", "ok"} => wanted[k] \in Listed
          /\ owner[k] # NoRow => owner[k] \in Listed
    /\ \A i \in Ingests : pc[i] \in {"get", "commit"} => resolved[i] \in Listed

LEMMA DefaultListed ==
    ASSUME IInv
    PROVE  Default \in Listed
BY DEF IInv, NamesWanted, Listed

LEMMA ProjectsStay ==
    ASSUME IInv, [ApiNext]_apiVars
    PROVE  Listed \subseteq Listed'
<1>1. ASSUME NEW c \in Creates, CreateCommit(c) PROVE Listed \subseteq Listed'
    <2>1. pc[c] = "commit" /\ wanted[c] \in Names
        BY <1>1 DEF CreateCommit, IInv, NamesWanted
    <2>2. name' = name \/ name' = [name EXCEPT ![c] = wanted[c]]
        BY <1>1 DEF CreateCommit
    <2>. QED
        BY <2>1, <2>2 DEF Listed, IInv, ApiTypeOK
<1>2. CASE name' = name
    BY <1>2 DEF Listed
<1>. QED
    BY <1>1, <1>2 DEF ApiNext, apiVars, Arrival, Serving, CreateSelect, CreateKeyLoad,
                      CreateKeyCommit, DeleteKeyLoad, DeleteKeyCommit, IngestResolve,
                      IngestGetRun, IngestCommit, Crash

LEMMA InProjectStep ==
    ASSUME IInv, InProject, [ApiNext]_apiVars
    PROVE  InProject'
<1>. USE DEF IInv
<1>1. Listed \subseteq Listed'
    BY ProjectsStay
<1>2. ASSUME NEW r \in Requests, owner' = owner, resolved' = resolved,
             \A s \in Requests \ {r} : pc'[s] = pc[s] /\ wanted'[s] = wanted[s],
             r \in KeyCreates /\ pc'[r] \in {"commit", "ok"} => wanted'[r] \in Listed,
             r \in Ingests /\ pc'[r] \in {"get", "commit"} => pc[r] = "get"
      PROVE  InProject'
    BY <1>1, <1>2 DEF InProject
<1>3. ASSUME NEW c \in Creates, NEW n \in Names, CreateSelect(c, n) PROVE InProject'
    BY <1>2, <1>3, ArrivalsWait DEF CreateSelect
<1>4. ASSUME NEW c \in Creates, CreateCommit(c) PROVE InProject'
    BY <1>2, <1>4, OthersWait DEF CreateCommit
<1>5. ASSUME NEW k \in KeyCreates, NEW p \in ProjectIds, CreateKeyLoad(k, p)
      PROVE  InProject'
    BY <1>2, <1>5, ArrivalsWait DEF CreateKeyLoad
<1>6. ASSUME NEW k \in KeyCreates, CreateKeyCommit(k) PROVE InProject'
    <2>1. /\ wanted[k] \in Listed /\ owner' = [owner EXCEPT ![k] = wanted[k]]
          /\ wanted' = wanted /\ resolved' = resolved
        BY <1>6 DEF CreateKeyCommit, InProject
    <2>2. pc' = [pc EXCEPT ![k] = "ok"]
        BY <1>6 DEF CreateKeyCommit, Advance
    <2>. QED
        BY <1>1, <2>1, <2>2 DEF InProject, ApiTypeOK
<1>7. ASSUME NEW d \in Deletes, NEW p \in ProjectIds, NEW k \in KeyCreates,
             DeleteKeyLoad(d, p, k)
      PROVE  InProject'
    BY <1>2, <1>7, ArrivalsWait DEF DeleteKeyLoad
<1>8. ASSUME NEW d \in Deletes, DeleteKeyCommit(d) PROVE InProject'
    <2>1. /\ wanted' = wanted /\ resolved' = resolved
          /\ owner' = [owner EXCEPT ![wanted[d]] = NoRow] /\ pc' = [pc EXCEPT ![d] = "ok"]
        BY <1>8 DEF DeleteKeyCommit, Advance
    <2>. QED
        BY <1>1, <2>1 DEF InProject, ApiTypeOK
<1>9. ASSUME NEW i \in Ingests, NEW trace \in Trace,
             NEW secret \in {"none", "right", "wrong"}, IngestResolve(i, trace, secret)
      PROVE  InProject'
    <2>. DEFINE project == Resolved(trace.key, secret)
    <2>1. project = NoRow \/ project \in Listed
        BY DefaultListed DEF Resolved, InProject, Trace
    <2>2. /\ owner' = owner
          /\ \A s \in Requests \ {i} : pc'[s] = pc[s] /\ wanted'[s] = wanted[s]
          /\ \/ project = NoRow /\ pc'[i] = "refused" /\ resolved' = resolved
             \/ project # NoRow /\ resolved' = [resolved EXCEPT ![i] = project]
        BY <1>9, ArrivalsWait DEF IngestResolve
    <2>. HIDE DEF project
    <2>. QED
        BY <1>1, <2>1, <2>2 DEF InProject, ApiTypeOK
<1>10. ASSUME NEW i \in Ingests, IngestGetRun(i) \/ IngestCommit(i) PROVE InProject'
    <2>1. /\ pc'[i] \in {"commit", "ok", "error"} /\ owner' = owner
          /\ resolved' = resolved /\ wanted' = wanted
          /\ pc'[i] = "commit" => pc[i] = "get"
          /\ \A s \in Requests \ {i} : pc'[s] = pc[s]
        BY <1>10, OthersWait DEF IngestGetRun, IngestCommit, Advance, ApiTypeOK
    <2>. QED
        BY <1>2, <2>1
<1>11. ASSUME NEW r \in Requests, Crash(r) PROVE InProject'
    <2>1. /\ pc'[r] = "dead" /\ UNCHANGED <<owner, resolved, wanted>>
          /\ \A s \in Requests \ {r} : pc'[s] = pc[s]
        BY <1>11, OthersWait DEF Crash, Advance, ApiTypeOK
    <2>. QED
        BY <1>2, <2>1
<1>12. CASE UNCHANGED apiVars
    BY <1>12 DEF apiVars, InProject, Listed
<1>. QED
    BY <1>3, <1>4, <1>5, <1>6, <1>7, <1>8, <1>9, <1>10, <1>11, <1>12
    DEF ApiNext, Arrival, Serving

(* What a step of one request changes of what has been told and granted.    *)
LEMMA OneTold ==
    ASSUME ApiTypeOK, NEW r \in Requests,
           \A s \in Requests \ {r} : pc'[s] = pc[s] /\ wanted'[s] = wanted[s]
    PROVE  Told' = [Told EXCEPT ![r] = IF pc'[r] \in Outcomes \ {"dead"}
                                       THEN [to |-> wanted'[r], is |-> pc'[r]]
                                       ELSE NoRow]
BY DEF Told

LEMMA SameGranted ==
    ASSUME ApiTypeOK, NEW r \in Requests, resolved' = resolved,
           \A s \in Requests \ {r} : pc'[s] = pc[s] /\ wanted'[s] = wanted[s],
           r \in Ingests =>
               /\ Granted'[r] = Granted[r]
    PROVE  Granted' = Granted
<1>1. Granted = [i \in Ingests |-> Granted[i]] /\ Granted' = [i \in Ingests |-> Granted'[i]]
    BY DEF Granted
<1>2. \A i \in Ingests \ {r} : Granted'[i] = Granted[i]
    BY DEF Granted
<1>3. \A i \in Ingests : Granted'[i] = Granted[i]
    BY <1>2
<1>. HIDE DEF Granted
<1>. QED
    BY <1>1, <1>3

LEMMA Untold ==
    ASSUME NEW r \in Requests, pc[r] \in {"idle", "get", "commit"}
    PROVE  Told[r] = NoRow
BY DEF Told, Outcomes

LEMMA CreateRegistered ==
    ASSUME IInv, NEW c \in Creates,
           (\E n \in Names : CreateSelect(c, n)) \/ CreateCommit(c)
    PROVE  [Registered!Next]_Registered!vars
<1>. USE DEF IInv
<1>1. /\ c \in Requests /\ c \notin Ingests
      /\ owner' = owner /\ run' = run /\ resolved' = resolved
      /\ \A s \in Requests \ {c} : pc'[s] = pc[s] /\ wanted'[s] = wanted[s]
    BY ArrivalsWait, OthersWait DEF CreateSelect, CreateCommit
<1>2. Granted' = Granted
    BY <1>1, SameGranted
<1>3. Told[c] = NoRow
    BY <1>1, Untold DEF CreateSelect, CreateCommit, Arrives
<1>4. Told' = [Told EXCEPT ![c] = IF pc'[c] \in Outcomes \ {"dead"}
                                  THEN [to |-> wanted'[c], is |-> pc'[c]] ELSE NoRow]
    BY <1>1, OneTold
<1>5. ASSUME NEW n \in Names, CreateSelect(c, n)
      PROVE  [Registered!Next]_Registered!vars
    <2>1. /\ pc'[c] = (IF Taken(n) THEN "conflict" ELSE "commit") /\ wanted'[c] = n
          /\ name' = name
        BY <1>5, ArrivalsWait DEF CreateSelect
    <2>2. CASE Taken(n)
        <3>1. Told' = [Told EXCEPT ![c] = [to |-> n, is |-> "conflict"]]
            BY <1>4, <2>1, <2>2 DEF Outcomes
        <3>2. Registered!Create(c, n)
            BY <1>1, <1>2, <1>3, <2>1, <2>2, <3>1
            DEF Registered!Create, Registered!Answers, Registered!Taken,
                Registered!ProjectIds, Taken
        <3>. QED
            BY <3>2 DEF Registered!Next
    <2>3. CASE ~Taken(n)
        <3>1. Told' = Told
            BY <1>1, <1>3, <1>4, <2>1, <2>3 DEF Outcomes, Told
        <3>. QED
            BY <1>1, <1>2, <2>1, <3>1 DEF Registered!vars
    <2>. QED
        BY <2>2, <2>3
<1>6. ASSUME CreateCommit(c)
      PROVE  [Registered!Next]_Registered!vars
    <2>1. pc[c] = "commit" /\ wanted' = wanted /\ wanted[c] \in Names
        BY <1>6 DEF CreateCommit, NamesWanted
    <2>2. \/ Taken(wanted[c]) /\ pc'[c] = "error" /\ name' = name
          \/ ~Taken(wanted[c]) /\ pc'[c] = "ok" /\ name' = [name EXCEPT ![c] = wanted[c]]
        BY <1>6 DEF CreateCommit, Advance, ApiTypeOK
    <2>3. Told' = [Told EXCEPT ![c] = [to |-> wanted[c], is |-> pc'[c]]]
        BY <1>4, <2>1, <2>2 DEF Outcomes
    <2>4. Registered!Create(c, wanted[c])
        BY <1>1, <1>2, <1>3, <2>2, <2>3
        DEF Registered!Create, Registered!Answers, Registered!Taken,
            Registered!ProjectIds, Taken
    <2>. QED
        BY <2>1, <2>4 DEF Registered!Next
<1>. QED
    BY <1>5, <1>6

LEMMA KeyRegistered ==
    ASSUME IInv, InProject, NEW k \in KeyCreates,
           (\E p \in ProjectIds : CreateKeyLoad(k, p)) \/ CreateKeyCommit(k)
    PROVE  [Registered!Next]_Registered!vars
<1>. USE DEF IInv
<1>1. /\ k \in Requests /\ k \notin Ingests
      /\ name' = name /\ run' = run /\ resolved' = resolved
      /\ \A s \in Requests \ {k} : pc'[s] = pc[s] /\ wanted'[s] = wanted[s]
    BY ArrivalsWait, OthersWait DEF CreateKeyLoad, CreateKeyCommit
<1>2. Granted' = Granted
    BY <1>1, SameGranted
<1>3. Told[k] = NoRow
    BY <1>1, Untold DEF CreateKeyLoad, CreateKeyCommit, Arrives
<1>4. Told' = [Told EXCEPT ![k] = IF pc'[k] \in Outcomes \ {"dead"}
                                  THEN [to |-> wanted'[k], is |-> pc'[k]] ELSE NoRow]
    BY <1>1, OneTold
<1>5. Registered!Listed = Listed /\ Registered!ProjectIds = ProjectIds
    BY DEF Registered!Listed, Registered!ProjectIds, Listed
<1>6. ASSUME NEW p \in ProjectIds, CreateKeyLoad(k, p)
      PROVE  [Registered!Next]_Registered!vars
    <2>1. /\ pc'[k] = (IF p \in Listed THEN "commit" ELSE "missing") /\ wanted'[k] = p
          /\ owner' = owner
        BY <1>6, ArrivalsWait DEF CreateKeyLoad
    <2>2. CASE p \in Listed
        <3>1. Told' = Told
            BY <1>1, <1>3, <1>4, <2>1, <2>2 DEF Outcomes, Told
        <3>. QED
            BY <1>1, <1>2, <2>1, <3>1 DEF Registered!vars
    <2>3. CASE p \notin Listed
        <3>1. Told' = [Told EXCEPT ![k] = [to |-> p, is |-> "missing"]]
            BY <1>4, <2>1, <2>3 DEF Outcomes
        <3>2. Registered!CreateKey(k, p)
            BY <1>1, <1>2, <1>3, <1>5, <2>1, <2>3, <3>1
            DEF Registered!CreateKey, Registered!Answers
        <3>. QED
            BY <1>5, <3>2 DEF Registered!Next
    <2>. QED
        BY <2>2, <2>3
<1>7. ASSUME CreateKeyCommit(k)
      PROVE  [Registered!Next]_Registered!vars
    <2>1. /\ wanted' = wanted /\ wanted[k] \in Listed /\ wanted[k] \in ProjectIds
          /\ owner' = [owner EXCEPT ![k] = wanted[k]] /\ pc'[k] = "ok"
        BY <1>7 DEF CreateKeyCommit, Advance, KeysWanted, InProject, ApiTypeOK
    <2>2. Told' = [Told EXCEPT ![k] = [to |-> wanted[k], is |-> "ok"]]
        BY <1>4, <2>1 DEF Outcomes
    <2>3. Registered!CreateKey(k, wanted[k])
        BY <1>1, <1>2, <1>3, <1>5, <2>1, <2>2
        DEF Registered!CreateKey, Registered!Answers
    <2>. QED
        BY <1>5, <2>1, <2>3 DEF Registered!Next
<1>. QED
    BY <1>6, <1>7

LEMMA DeleteRegistered ==
    ASSUME IInv, InProject, NEW d \in Deletes,
           \/ \E p \in ProjectIds, k \in KeyCreates : DeleteKeyLoad(d, p, k)
           \/ DeleteKeyCommit(d)
    PROVE  [Registered!Next]_Registered!vars
<1>. USE DEF IInv
<1>1. /\ d \in Requests /\ d \notin Ingests
      /\ name' = name /\ run' = run /\ resolved' = resolved
      /\ \A s \in Requests \ {d} : pc'[s] = pc[s] /\ wanted'[s] = wanted[s]
    BY ArrivalsWait, OthersWait DEF DeleteKeyLoad, DeleteKeyCommit
<1>2. Granted' = Granted
    BY <1>1, SameGranted
<1>3. Told[d] = NoRow
    BY <1>1, Untold DEF DeleteKeyLoad, DeleteKeyCommit, Arrives
<1>4. Told' = [Told EXCEPT ![d] = IF pc'[d] \in Outcomes \ {"dead"}
                                  THEN [to |-> wanted'[d], is |-> pc'[d]] ELSE NoRow]
    BY <1>1, OneTold
<1>5. ASSUME NEW p \in ProjectIds, NEW k \in KeyCreates, DeleteKeyLoad(d, p, k)
      PROVE  [Registered!Next]_Registered!vars
    <2>1. /\ pc'[d] = (IF owner[k] = p THEN "commit" ELSE "missing") /\ wanted'[d] = k
          /\ owner' = owner
        BY <1>5, ArrivalsWait DEF DeleteKeyLoad
    <2>2. CASE owner[k] = p
        <3>1. Told' = Told
            BY <1>1, <1>3, <1>4, <2>1, <2>2 DEF Outcomes, Told
        <3>. QED
            BY <1>1, <1>2, <2>1, <3>1 DEF Registered!vars
    <2>3. CASE owner[k] # p
        <3>1. Told' = [Told EXCEPT ![d] = [to |-> k, is |-> "missing"]]
            BY <1>4, <2>1, <2>3 DEF Outcomes
        <3>2. Registered!DeleteKey(d, k)
            BY <1>1, <1>2, <1>3, <2>1, <3>1
            DEF Registered!DeleteKey, Registered!Answers
        <3>. QED
            BY <3>2 DEF Registered!Next
    <2>. QED
        BY <2>2, <2>3
<1>6. ASSUME DeleteKeyCommit(d)
      PROVE  [Registered!Next]_Registered!vars
    <2>. DEFINE k == wanted[d]
    <2>1. /\ wanted' = wanted /\ k \in KeyCreates /\ pc[k] = "ok" /\ pc'[d] = "ok"
          /\ owner' = [owner EXCEPT ![k] = NoRow]
        BY <1>6 DEF DeleteKeyCommit, Advance, KeysWanted, ApiTypeOK
    <2>2. Told' = [Told EXCEPT ![d] = [to |-> k, is |-> "ok"]]
        BY <1>4, <2>1 DEF Outcomes
    <2>3. Told[k] = [to |-> wanted[k], is |-> "ok"] /\ wanted[k] \in ProjectIds
        BY <2>1 DEF Told, Outcomes, InProject, Listed
    <2>. HIDE DEF k
    <2>4. Registered!DeleteKey(d, k)
        BY <1>1, <1>2, <1>3, <2>1, <2>2, <2>3
        DEF Registered!DeleteKey, Registered!Answers, Registered!ProjectIds
    <2>. QED
        BY <2>1, <2>4 DEF Registered!Next
<1>. QED
    BY <1>5, <1>6

LEMMA IngestChecked ==
    ASSUME IInv, InProject, NEW i \in Ingests, NEW trace \in Trace,
           NEW secret \in {"none", "right", "wrong"}, IngestResolve(i, trace, secret)
    PROVE  Registered!Check(i, trace)
<1>. USE DEF IInv
<1>. DEFINE project == Resolved(trace.key, secret)
<1>1. /\ i \in Requests /\ pc[i] = "idle" /\ wanted'[i] = trace
      /\ pc'[i] = (IF project = NoRow THEN "refused" ELSE "get")
      /\ resolved' = IF project = NoRow THEN resolved
                     ELSE [resolved EXCEPT ![i] = project]
      /\ name' = name /\ owner' = owner /\ run' = run
      /\ \A s \in Requests \ {i} : pc'[s] = pc[s] /\ wanted'[s] = wanted[s]
    BY ArrivalsWait DEF IngestResolve
<1>2. Told[i] = NoRow /\ Granted[i] = NoRow
    BY <1>1, Untold DEF Granted
<1>3. Told' = [Told EXCEPT ![i] = IF pc'[i] \in Outcomes \ {"dead"}
                                  THEN [to |-> wanted'[i], is |-> pc'[i]] ELSE NoRow]
    BY <1>1, OneTold
<1>4. CASE project = NoRow
    <2>1. Told' = [Told EXCEPT ![i] = [to |-> trace, is |-> "refused"]]
        BY <1>1, <1>3, <1>4 DEF Outcomes
    <2>2. Granted'[i] = Granted[i]
        BY <1>1, <1>4 DEF Granted
    <2>3. Granted' = Granted
        BY <1>1, <1>4, <2>2, SameGranted
    <2>4. trace.key # NoKey
        BY <1>4 DEF Resolved
    <2>. QED
        BY <1>1, <1>2, <2>1, <2>3, <2>4 DEF Registered!Check, Registered!Answers
<1>5. CASE project # NoRow
    <2>1. project = (IF trace.key = NoKey THEN Default ELSE owner[trace.key])
        BY <1>5 DEF Resolved
    <2>2. project \in Listed
        BY <1>5, <2>1, DefaultListed DEF InProject, Trace
    <2>. HIDE DEF project
    <2>3. Told' = Told
        BY <1>1, <1>2, <1>3, <1>5 DEF Outcomes, Told
    <2>4. resolved'[i] = project /\ \A j \in Ingests \ {i} : resolved'[j] = resolved[j]
        BY <1>1, <1>5 DEF ApiTypeOK
    <2>5. Granted' = [Granted EXCEPT ![i] = [trace |-> trace, project |-> project]]
        BY <1>1, <1>5, <2>4 DEF Granted
    <2>6. project \in Registered!Listed
        BY <2>2 DEF Registered!Listed, Registered!ProjectIds, Listed
    <2>. QED
        BY <1>1, <1>2, <2>1, <2>3, <2>5, <2>6 DEF Registered!Check
<1>. QED
    BY <1>4, <1>5

LEMMA IngestRegistered ==
    ASSUME IInv, InProject, NEW i \in Ingests, IngestGetRun(i) \/ IngestCommit(i)
    PROVE  [Registered!Next]_Registered!vars
<1>. USE DEF IInv
<1>. DEFINE trace == wanted[i]
            p == resolved[i]
<1>1. /\ i \in Requests /\ pc[i] \in {"get", "commit"}
      /\ name' = name /\ owner' = owner /\ resolved' = resolved /\ wanted' = wanted
      /\ \A s \in Requests \ {i} : pc'[s] = pc[s] /\ wanted'[s] = wanted[s]
    BY OthersWait DEF IngestGetRun, IngestCommit
<1>2. trace \in Trace /\ p \in Listed
    BY <1>1 DEF IngestsResolved, InProject
<1>3. Told[i] = NoRow /\ Granted[i] = [trace |-> trace, project |-> p]
    BY <1>1, Untold DEF Granted
<1>4. Told' = [Told EXCEPT ![i] = IF pc'[i] \in Outcomes \ {"dead"}
                                  THEN [to |-> wanted'[i], is |-> pc'[i]] ELSE NoRow]
    BY <1>1, OneTold
<1>5. pc'[i] \in {"commit", "ok", "error"} => Granted' = Granted
    <2>. SUFFICES ASSUME pc'[i] \in {"commit", "ok", "error"} PROVE Granted'[i] = Granted[i]
        BY <1>1, SameGranted
    <2>. QED
        BY <1>1 DEF Granted
<1>6. /\ trace \in Registered!Trace /\ p \in Registered!Listed
    BY <1>2 DEF Registered!Trace, Trace, Registered!Listed, Registered!ProjectIds, Listed
<1>7. CASE pc'[i] = "commit" /\ run' = run
    <2>1. Told' = Told
        BY <1>1, <1>3, <1>4, <1>7 DEF Outcomes, Told
    <2>. QED
        BY <1>1, <1>5, <1>7, <2>1 DEF Registered!vars
<1>8. CASE pc'[i] \in {"ok", "error"} /\ run[trace.run] # NoRow /\ run' = run
    <2>1. Told' = [Told EXCEPT ![i] = [to |-> trace, is |-> pc'[i]]]
        BY <1>1, <1>4, <1>8 DEF Outcomes
    <2>2. Registered!Store(i, trace, p)
        BY <1>1, <1>3, <1>5, <1>8, <2>1 DEF Registered!Store, Registered!Answers
    <2>. QED
        BY <1>6, <2>2 DEF Registered!Next
<1>9. CASE /\ pc'[i] = "ok" /\ run[trace.run] = NoRow
           /\ run' = [run EXCEPT ![trace.run] = [by |-> i, project |-> p]]
    <2>1. Told' = [Told EXCEPT ![i] = [to |-> trace, is |-> "ok"]]
        BY <1>1, <1>4, <1>9 DEF Outcomes
    <2>2. Registered!Store(i, trace, p)
        BY <1>1, <1>3, <1>5, <1>9, <2>1 DEF Registered!Store, Registered!Answers
    <2>. QED
        BY <1>6, <2>2 DEF Registered!Next
<1>. QED
    BY <1>7, <1>8, <1>9 DEF IngestGetRun, IngestCommit, Advance, ApiTypeOK

(* A request that dies told nothing, and will not. *)
LEMMA CrashRegistered ==
    ASSUME IInv, NEW r \in Requests, Crash(r)
    PROVE  UNCHANGED Registered!vars
<1>. USE DEF IInv
<1>1. /\ pc[r] \in {"get", "commit"} /\ pc'[r] = "dead"
      /\ UNCHANGED <<name, owner, run, wanted, resolved>>
      /\ \A s \in Requests \ {r} : pc'[s] = pc[s] /\ wanted'[s] = wanted[s]
    BY OthersWait DEF Crash, InFlight, Advance, ApiTypeOK
<1>2. Told' = Told
    BY <1>1, Untold DEF Told, Outcomes
<1>3. r \in Ingests => Granted'[r] = Granted[r]
    BY <1>1 DEF Granted
<1>4. Granted' = Granted
    BY <1>1, <1>3, SameGranted
<1>. QED
    BY <1>1, <1>2, <1>4 DEF Registered!vars

(* Every step of the handlers is a step of the registry, or none.           *)
LEMMA StepRegistered ==
    ASSUME IInv, InProject, [ApiNext]_apiVars
    PROVE  [Registered!Next]_Registered!vars
<1>1. ASSUME NEW i \in Ingests, NEW trace \in Trace,
             NEW secret \in {"none", "right", "wrong"}, IngestResolve(i, trace, secret)
      PROVE  [Registered!Next]_Registered!vars
    BY <1>1, IngestChecked DEF Registered!Next, Registered!Trace, Trace
<1>2. CASE UNCHANGED apiVars
    BY <1>2 DEF apiVars, Registered!vars, Told, Granted
<1>. QED
    BY <1>1, <1>2, CreateRegistered, KeyRegistered, DeleteRegistered, IngestRegistered,
       CrashRegistered
    DEF ApiNext, Arrival, Serving

(* The handlers of projects, keys and ingestion implement the registry.     *)
THEOREM ImplementsRegistry == ApiSpec => RegistrySpec
<1>1. ApiInit => Registered!Init
    <2>. SUFFICES ASSUME ApiInit PROVE Registered!Init
        OBVIOUS
    <2>1. Told = [r \in Requests |-> NoRow] /\ Granted = [i \in Ingests |-> NoRow]
        BY DEF ApiInit, Told, Granted, Outcomes
    <2>. QED
        BY <2>1 DEF ApiInit, Registered!Init, Registered!ProjectIds
<1>2. ApiInit => InProject
    BY DEF ApiInit, InProject
<1>3. IInv /\ InProject /\ [ApiNext]_apiVars => InProject'
    BY InProjectStep
<1>4. IInv /\ InProject /\ [ApiNext]_apiVars => [Registered!Next]_Registered!vars
    BY StepRegistered
<1>. QED
    BY <1>1, <1>2, <1>3, <1>4, Invariance, PTL DEF ApiSpec, RegistrySpec, Registered!Spec
=============================================================================
