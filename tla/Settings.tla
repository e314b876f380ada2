------------------------------ MODULE Settings ------------------------------
(***************************************************************************)
(* The dashboard's settings page in one browser tab, beside the other      *)
(* clients of Projects.                                                    *)
(*                                                                         *)
(* The page keeps a list of projects, a selected one and the keys it shows *)
(* for it.  Every answer is applied when it comes, whatever has happened   *)
(* since it was asked for, and a handler sees the state of the render that *)
(* created it.                                                             *)
(***************************************************************************)
EXTENDS Projects, Sequences

CONSTANTS
    Mount,       \* the load of the page's first effect
    MaxFetches,  \* bound on the fetches of keys
    NoProject    \* the empty selection

ASSUME MountAssumption == Mount \notin Creates

ASSUME NoProjectAssumption == NoProject \notin ProjectIds \cup {NoRow}

ASSUME MaxFetchesAssumption == MaxFetches \in Nat

(* The calls of load: of the first effect, and of each handleCreateProject. *)
Loads == {Mount} \cup Creates

(* A call of fetchApiKeys, by handleCreateKey or by the selection's effect. *)
Fetch == [of: ProjectIds, handler: BOOLEAN, at: {"asked", "replied", "done"},
          keys: SUBSET KeyCreates]

VARIABLES
    options,    \* projects
    selected,   \* selected
    shown,      \* keys
    secret,     \* the key whose secret lastSecret shows, or NoKey
    stored,     \* jev_project_id in localStorage
    calls,      \* the requests of handlers whose answer has not come
    load,       \* where each load is
    listed,     \* what its reply lists
    fetches,    \* the fetches of keys, oldest first
    hasty,      \* the user has acted before the page had all its answers, and
                \* has selected no project at rest since
    failed      \* an answer was lost

pageVars == <<options, selected, shown, secret, stored, calls, load, listed,
              fetches, hasty, failed>>
vars == <<apiVars, pageVars>>

Init ==
    /\ ApiInit
    /\ options = {}
    /\ selected = NoProject
    /\ shown = {}
    /\ secret = NoKey
    /\ stored = NoProject
    /\ calls = {}
    /\ load = [l \in Loads |-> IF l = Mount THEN "asked" ELSE "none"]
    /\ listed = [l \in Loads |-> {}]
    /\ fetches = <<>>
    /\ hasty = FALSE
    /\ failed = FALSE

Loading == {l \in Loads : load[l] \in {"asked", "replied"}}

Fetching == {f \in DOMAIN fetches : fetches[f].at # "done"}

Busy == calls # {} \/ Loading # {} \/ Fetching # {}

(* Every call the page has made may still lead to a fetch. *)
Room == Len(fetches) + Cardinality(calls) + Cardinality(Loading) < MaxFetches

Asked(p, handler) ==
    Append(fetches, [of |-> p, handler |-> handler, at |-> "asked", keys |-> {}])

(* setSelected and, when that changes it, the effect: the keys are fetched  *)
(* and the selection is stored.                                             *)
Select(p) ==
    /\ selected' = p
    /\ stored' = p
    /\ fetches' = IF p # selected THEN Asked(p, FALSE) ELSE fetches

(***************************************************************************)
(* The user.                                                               *)
(***************************************************************************)

Acts == Room /\ hasty' = (hasty \/ Busy)

Pick(p) ==
    /\ Room
    /\ hasty' = Busy
    /\ p \in options
    /\ p # selected
    /\ Select(p)
    /\ UNCHANGED <<apiVars, options, shown, secret, calls, load, listed, failed>>

(* handleCreateProject, to its first await. *)
ClickCreate(c, n) ==
    /\ Acts
    /\ CreateSelect(c, n)
    /\ calls' = calls \cup {c}
    /\ UNCHANGED <<options, selected, shown, secret, stored, load, listed, fetches,
                   failed>>

(* handleCreateKey, to its first await, for the project selected then. *)
ClickCreateKey(k) ==
    /\ Acts
    /\ selected # NoProject
    /\ CreateKeyLoad(k, selected)
    /\ calls' = calls \cup {k}
    /\ UNCHANGED <<options, selected, shown, secret, stored, load, listed, fetches,
                   failed>>

User ==
    \/ \E p \in ProjectIds : Pick(p)
    \/ \E c \in Creates, n \in Names : ClickCreate(c, n)
    \/ \E k \in KeyCreates : ClickCreateKey(k)

(***************************************************************************)
(* Answers.                                                                *)
(***************************************************************************)

(* Mutant: the new project is selected without another load. *)
CreatedUnloaded(c) ==
    /\ calls' = calls \ {c}
    /\ IF pc[c] = "ok" THEN Select(c) ELSE UNCHANGED <<selected, stored, fetches>>
    /\ UNCHANGED <<options, shown, secret, load>>

(* createProject returns: load again; an error ends the handler. *)
Created(c) ==
    /\ calls' = calls \ {c}
    /\ load' = IF pc[c] = "ok" THEN [load EXCEPT ![c] = "asked"] ELSE load
    /\ UNCHANGED <<options, selected, shown, secret, stored, fetches>>

(* Mutant: the keys are fetched with the id of the key. *)
KeyCreatedById(k) ==
    /\ calls' = calls \ {k}
    /\ IF pc[k] = "ok"
       THEN secret' = k /\ fetches' = Asked(k, TRUE)
       ELSE UNCHANGED <<secret, fetches>>
    /\ UNCHANGED <<options, selected, shown, stored, load>>

(* createApiKey returns: the secret is shown, and the keys of the project   *)
(* it was called with are fetched.                                          *)
KeyCreated(k) ==
    /\ calls' = calls \ {k}
    /\ IF pc[k] = "ok"
       THEN secret' = k /\ fetches' = Asked(wanted[k], TRUE)
       ELSE UNCHANGED <<secret, fetches>>
    /\ UNCHANGED <<options, selected, shown, stored, load>>

Answered(r) ==
    /\ r \in calls
    /\ pc[r] \in Outcomes
    /\ IF r \in Creates THEN Created(r) ELSE KeyCreated(r)
    /\ UNCHANGED <<apiVars, listed, hasty, failed>>

(* list_projects. *)
ServeLoad(l) ==
    /\ load[l] = "asked"
    /\ load' = [load EXCEPT ![l] = "replied"]
    /\ listed' = [listed EXCEPT ![l] = Listed]
    /\ UNCHANGED <<apiVars, options, selected, shown, secret, stored, calls, fetches,
                   hasty, failed>>

(* fetchProjects returns.  The load of the mount saw no selection and       *)
(* selects the oldest project, which is the default one; what a load of     *)
(* handleCreateProject selects gives way, in the same render, to the        *)
(* project that was created.                                                *)
ApplyLoad(l) ==
    /\ load[l] = "replied"
    /\ load' = [load EXCEPT ![l] = "done"]
    /\ options' = listed[l]
    /\ Select(IF l = Mount THEN Default ELSE l)
    /\ UNCHANGED <<apiVars, shown, secret, calls, listed, hasty, failed>>

(* list_keys. *)
ServeFetch(f) ==
    /\ fetches[f].at = "asked"
    /\ fetches' = [fetches EXCEPT ![f].at = "replied",
                                  ![f].keys = KeysOf(fetches[f].of)]
    /\ UNCHANGED <<apiVars, options, selected, shown, secret, stored, calls, load,
                   listed, hasty, failed>>

(* Mutant: the keys are a dependency of the effect that sets them. *)
FetchAgain(f) == [fetches EXCEPT ![f].at = "asked"]

Fetched(f) == [fetches EXCEPT ![f].at = "done"]

(* fetchApiKeys returns: setKeys. *)
ApplyFetch(f) ==
    /\ fetches[f].at = "replied"
    /\ fetches' = Fetched(f)
    /\ shown' = fetches[f].keys
    /\ UNCHANGED <<apiVars, options, selected, secret, stored, calls, load, listed,
                   hasty, failed>>

(***************************************************************************)
(* Lost answers.                                                           *)
(***************************************************************************)

(* A handler or a load ends; the effect shows no keys. *)
LoseCall(r) ==
    /\ r \in calls
    /\ calls' = calls \ {r}
    /\ UNCHANGED <<load, fetches, shown>>

LoseLoad(l) ==
    /\ l \in Loading
    /\ load' = [load EXCEPT ![l] = "done"]
    /\ UNCHANGED <<calls, fetches, shown>>

LoseFetch(f) ==
    /\ f \in Fetching
    /\ fetches' = Fetched(f)
    /\ shown' = IF fetches[f].handler THEN shown ELSE {}
    /\ UNCHANGED <<calls, load>>

(* The bound: one answer is lost. *)
Lose ==
    /\ ~failed
    /\ \/ \E r \in Requests : LoseCall(r)
       \/ \E l \in Loads : LoseLoad(l)
       \/ \E f \in DOMAIN fetches : LoseFetch(f)
    /\ failed' = TRUE
    /\ UNCHANGED <<apiVars, options, selected, secret, stored, listed, hasty>>

Page ==
    \/ \E r \in Requests : Answered(r)
    \/ \E l \in Loads : ServeLoad(l) \/ ApplyLoad(l)
    \/ \E f \in DOMAIN fetches : ServeFetch(f) \/ ApplyFetch(f)

Api == ApiNext /\ UNCHANGED pageVars

Next == User \/ Page \/ Lose \/ Api

Spec == Init /\ [][Next]_vars

(* The browser and the API go on with what has been asked of them. *)
FairSpec ==
    Spec /\ WF_vars(Page) /\ WF_vars(Serving /\ UNCHANGED pageVars)

(***************************************************************************)
(* Properties.                                                             *)
(***************************************************************************)

TypeOK ==
    /\ ApiTypeOK
    /\ options \in SUBSET ProjectIds
    /\ selected \in ProjectIds \cup {NoProject}
    /\ shown \in SUBSET KeyCreates
    /\ secret \in KeyCreates \cup {NoKey}
    /\ stored \in ProjectIds \cup {NoProject}
    /\ calls \in SUBSET (Creates \cup KeyCreates)
    /\ load \in [Loads -> {"none", "asked", "replied", "done"}]
    /\ listed \in [Loads -> SUBSET ProjectIds]
    /\ fetches \in Seq(Fetch)
    /\ hasty \in BOOLEAN
    /\ failed \in BOOLEAN

(* Whatever overlaps, the selected project is among the options, also when  *)
(* it was created after they had been listed.  A user who waits for the     *)
(* page's answers sees its keys, the one created last among them unless     *)
(* another client has deleted it; and whatever overlapped before, so does   *)
(* one who selects a project once the page is at rest, and waits from then. *)
PanelOfSelection ==
    /\ selected \in options \cup {NoProject}
    /\ ~hasty /\ ~failed /\ ~Busy =>
          /\ \A k \in shown : wanted[k] = selected
          /\ secret # NoKey /\ owner[secret] = selected => secret \in shown

(* The page has all its answers in the end, however its calls overlap.      *)
PageSettles == Busy ~> ~Busy
=============================================================================
