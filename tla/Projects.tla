------------------------------ MODULE Projects ------------------------------
(***************************************************************************)
(* The API's projects and their keys, and the ingestion endpoint where it  *)
(* asks whose project a batch belongs to.                                  *)
(*                                                                         *)
(* A handler reads, awaits and commits, so what it read may be gone when   *)
(* it commits.  A project or a key is named by the request that inserts    *)
(* it; projects are never deleted.                                         *)
(***************************************************************************)
EXTENDS Naturals, FiniteSets

CONSTANTS
    Creates,     \* POST /projects requests
    KeyCreates,  \* POST /projects/{id}/api-keys requests
    Deletes,     \* DELETE /projects/{id}/api-keys/{key} requests
    Ingests,     \* POST /public/ingestion requests
    Default,     \* the project that migration 002 inserts
    Names,       \* names of projects
    DefaultName, \* the name of Default
    RunIds,      \* ids of runs in trace-create events
    NoRow,       \* the row does not exist
    NoKey        \* no public key is given

Requests == Creates \cup KeyCreates \cup Deletes \cup Ingests

ProjectIds == Creates \cup {Default}

(* A trace-create event and the public key it comes with. *)
Trace == [run: RunIds, key: KeyCreates \cup {NoKey}]

RunRow == [by: Ingests, project: ProjectIds]

ASSUME DisjointRequests ==
    /\ Creates \cap (KeyCreates \cup Deletes \cup Ingests) = {}
    /\ KeyCreates \cap (Deletes \cup Ingests) = {}
    /\ Deletes \cap Ingests = {}

ASSUME DefaultAssumption == Default \notin Creates /\ DefaultName \in Names

ASSUME SentinelsAssumption ==
    /\ NoRow \notin Names \cup ProjectIds \cup RunRow \cup KeyCreates \cup Trace
    /\ NoKey \notin KeyCreates

VARIABLES
    name,      \* the name of each row of projects, or NoRow
    owner,     \* the project of each row of api_keys, or NoRow
    run,       \* who inserted each row of runs, for which project
    pc,        \* how far each request has come
    wanted,    \* what it asks for: a name, a project, a key, a trace
    resolved   \* the project of each ingestion

apiVars == <<name, owner, run, pc, wanted, resolved>>

ApiInit ==
    /\ name = [p \in ProjectIds |-> IF p = Default THEN DefaultName ELSE NoRow]
    /\ owner = [k \in KeyCreates |-> NoRow]
    /\ run = [r \in RunIds |-> NoRow]
    /\ pc = [r \in Requests |-> "idle"]
    /\ wanted = [r \in Requests |-> NoRow]
    /\ resolved = [i \in Ingests |-> Default]

Listed == {p \in ProjectIds : name[p] # NoRow}

KeysOf(p) == {k \in KeyCreates : owner[k] = p}

Taken(n) == \E p \in ProjectIds : name[p] = n

Outcomes == {"ok", "missing", "conflict", "refused", "error", "dead"}

InFlight(r) == pc[r] \notin Outcomes \cup {"idle"}

Advance(r, label) == pc' = [pc EXCEPT ![r] = label]

(* The request arrives and comes as far as its first answer. *)
Arrives(r, what, label) ==
    /\ pc[r] = "idle"
    /\ wanted' = [wanted EXCEPT ![r] = what]
    /\ Advance(r, label)

(***************************************************************************)
(* create_project.                                                         *)
(***************************************************************************)

(* select(Project): 409 when the name is taken. *)
CreateSelect(c, n) ==
    /\ Arrives(c, n, IF Taken(n) THEN "conflict" ELSE "commit")
    /\ UNCHANGED <<name, owner, run, resolved>>

(* Mutant: the column is not unique. *)
CreateCommitUnchecked(c) ==
    /\ pc[c] = "commit"
    /\ name' = [name EXCEPT ![c] = wanted[c]]
    /\ Advance(c, "ok")
    /\ UNCHANGED <<owner, run, wanted, resolved>>

(* The insert loses to a name committed since the SELECT: 500. *)
CreateCommit(c) ==
    /\ pc[c] = "commit"
    /\ IF Taken(wanted[c])
       THEN Advance(c, "error") /\ UNCHANGED name
       ELSE Advance(c, "ok") /\ name' = [name EXCEPT ![c] = wanted[c]]
    /\ UNCHANGED <<owner, run, wanted, resolved>>

(***************************************************************************)
(* create_key and delete_key.                                              *)
(***************************************************************************)

(* Mutant: the foreign key of api_keys is left to check the project. *)
CreateKeyLoadUnchecked(k, p) ==
    /\ Arrives(k, p, "commit")
    /\ UNCHANGED <<name, owner, run, resolved>>

(* session.get(Project): 404 without a row. *)
CreateKeyLoad(k, p) ==
    /\ Arrives(k, p, IF p \in Listed THEN "commit" ELSE "missing")
    /\ UNCHANGED <<name, owner, run, resolved>>

CreateKeyCommit(k) ==
    /\ pc[k] = "commit"
    /\ owner' = [owner EXCEPT ![k] = wanted[k]]
    /\ Advance(k, "ok")
    /\ UNCHANGED <<name, run, wanted, resolved>>

(* session.get(ApiKey): 404 without a row, or with one of another project. *)
DeleteKeyLoad(d, p, k) ==
    /\ Arrives(d, k, IF owner[k] = p THEN "commit" ELSE "missing")
    /\ UNCHANGED <<name, owner, run, resolved>>

(* A row that another request has deleted since only warns. *)
DeleteKeyCommit(d) ==
    /\ pc[d] = "commit"
    /\ owner' = [owner EXCEPT ![wanted[d]] = NoRow]
    /\ Advance(d, "ok")
    /\ UNCHANGED <<name, run, wanted, resolved>>

(***************************************************************************)
(* ingest.                                                                 *)
(***************************************************************************)

(* Mutant: keys are remembered, as a cache in the process would. *)
ResolvedFromCache(key, secret) ==
    IF key = NoKey THEN Default
    ELSE IF secret = "wrong" \/ pc[key] # "ok" THEN NoRow ELSE wanted[key]

(* _resolve_project: a public key alone is enough, a secret that comes with *)
(* it is compared.                                                          *)
Resolved(key, secret) ==
    IF key = NoKey THEN Default
    ELSE IF secret = "wrong" THEN NoRow ELSE owner[key]

(* Mutant: the answer is not tested. *)
IngestResolveUntested(i, trace, secret) ==
    /\ Arrives(i, trace, "get")
    /\ resolved' = [resolved EXCEPT ![i] = Resolved(trace.key, secret)]
    /\ UNCHANGED <<name, owner, run>>

(* 401 without a project. *)
IngestResolve(i, trace, secret) ==
    LET project == Resolved(trace.key, secret) IN
    /\ Arrives(i, trace, IF project = NoRow THEN "refused" ELSE "get")
    /\ resolved' = IF project = NoRow THEN resolved
                   ELSE [resolved EXCEPT ![i] = project]
    /\ UNCHANGED <<name, owner, run>>

(* session.get(Run): a trace-create of a run that is there adds nothing. *)
IngestGetRun(i) ==
    /\ pc[i] = "get"
    /\ Advance(i, IF run[wanted[i].run] = NoRow THEN "commit" ELSE "ok")
    /\ UNCHANGED <<name, owner, run, wanted, resolved>>

(* Mutant: the project is looked up once more for the insert. *)
IngestCommitResolving(i) ==
    /\ pc[i] = "commit"
    /\ run[wanted[i].run] = NoRow
    /\ Advance(i, "ok")
    /\ run' = [run EXCEPT ![wanted[i].run] =
                  [by |-> i, project |-> Resolved(wanted[i].key, "none")]]
    /\ UNCHANGED <<name, owner, wanted, resolved>>

(* The insert loses to one committed since. *)
IngestCommit(i) ==
    /\ pc[i] = "commit"
    /\ LET r == wanted[i].run IN
       IF run[r] # NoRow
       THEN Advance(i, "error") /\ UNCHANGED run
       ELSE /\ Advance(i, "ok")
            /\ run' = [run EXCEPT ![r] = [by |-> i, project |-> resolved[i]]]
    /\ UNCHANGED <<name, owner, wanted, resolved>>

(* The process that serves r dies and its transaction with it. *)
Crash(r) ==
    /\ InFlight(r)
    /\ Advance(r, "dead")
    /\ UNCHANGED <<name, owner, run, wanted, resolved>>

(* A request arrives. *)
Arrival ==
    \/ \E c \in Creates, n \in Names : CreateSelect(c, n)
    \/ \E k \in KeyCreates, p \in ProjectIds : CreateKeyLoad(k, p)
    \/ \E d \in Deletes, p \in ProjectIds, k \in KeyCreates : DeleteKeyLoad(d, p, k)
    \/ \E i \in Ingests, trace \in Trace, secret \in {"none", "right", "wrong"} :
          IngestResolve(i, trace, secret)

(* A request that has arrived goes on. *)
Serving ==
    \/ \E c \in Creates : CreateCommit(c)
    \/ \E k \in KeyCreates : CreateKeyCommit(k)
    \/ \E d \in Deletes : DeleteKeyCommit(d)
    \/ \E i \in Ingests : IngestGetRun(i) \/ IngestCommit(i)

ApiNext == Arrival \/ Serving \/ \E r \in Requests : Crash(r)

ApiSpec == ApiInit /\ [][ApiNext]_apiVars

(***************************************************************************)
(* Properties.                                                             *)
(***************************************************************************)

ApiTypeOK ==
    /\ name \in [ProjectIds -> Names \cup {NoRow}]
    /\ owner \in [KeyCreates -> ProjectIds \cup {NoRow}]
    /\ run \in [RunIds -> RunRow \cup {NoRow}]
    /\ pc \in [Requests -> Outcomes \cup {"idle", "get", "commit"}]
    /\ DOMAIN wanted = Requests
    /\ \A c \in Creates : wanted[c] \in Names \cup {NoRow}
    /\ \A k \in KeyCreates : wanted[k] \in ProjectIds \cup {NoRow}
    /\ \A d \in Deletes : wanted[d] \in KeyCreates \cup {NoRow}
    /\ \A i \in Ingests : wanted[i] \in Trace \cup {NoRow}
    /\ resolved \in [Ingests -> ProjectIds]

(* No two projects have one name, and a client that is told that its name   *)
(* is created, exists, or collided finds exactly one project of that name.  *)
NamesAnswered ==
    /\ \A p, q \in Listed : name[p] = name[q] => p = q
    /\ \A c \in Creates : pc[c] \in {"ok", "conflict", "error"} => Taken(wanted[c])

(* An ingested run is of the project whose key came with it, even when that *)
(* key was deleted meanwhile or another batch names the same run; without a *)
(* key it is of the default project.                                        *)
RunsFollowTheirKey ==
    \A r \in RunIds :
        run[r] # NoRow =>
            LET key == wanted[run[r].by].key IN
            /\ wanted[run[r].by].run = r
            /\ run[r].project = IF key = NoKey THEN Default ELSE wanted[key]

(* A key whose deletion was answered is refused for ever after, although    *)
(* requests that it had authorised before may still commit.                 *)
RevokedKeysRefused ==
    [][\A i \in Ingests, d \in Deletes :
          pc[i] = "idle" /\ pc'[i] # "idle" /\ pc[d] = "ok"
                         /\ wanted'[i].key = wanted[d]
              => pc'[i] = "refused"]_apiVars

(* What the clients have been told; a request that died told nothing.       *)
Told == [r \in Requests |->
            IF pc[r] \in Outcomes \ {"dead"}
            THEN [to |-> wanted[r], is |-> pc[r]] ELSE NoRow]

(* The ingestions whose key has been accepted. *)
Granted == [i \in Ingests |->
               IF pc[i] \in {"get", "commit", "ok", "error", "dead"}
               THEN [trace |-> wanted[i], project |-> resolved[i]] ELSE NoRow]

(* The handlers together implement the registry: whatever they interleave,  *)
(* each answer is true in one moment of its own, at which the request takes *)
(* effect as a whole; a key authorises a run only where it was there when   *)
(* it was checked, and a deleted one never comes back.                      *)
Registered == INSTANCE Registry WITH answer <- Told, granted <- Granted

RegistrySpec == Registered!Spec
=============================================================================
