--------------------------- MODULE SettingsProofs ---------------------------
(***************************************************************************)
(* Proofs about Settings for any requests, names and fetches.  What the    *)
(* API keeps is taken from ProjectsProofs: the page only adds clients.     *)
(***************************************************************************)
EXTENDS Settings, ProjectsProofs

PageTypeOK ==
    /\ options \in SUBSET ProjectIds
    /\ selected \in ProjectIds \cup {NoProject}
    /\ shown \in SUBSET KeyCreates
    /\ secret \in KeyCreates \cup {NoKey}
    /\ stored \in ProjectIds \cup {NoProject}
    /\ calls \in SUBSET (Creates \cup KeyCreates)
    /\ load \in [Loads -> {"none", "asked", "replied", "done"}]
    /\ listed \in [Loads -> SUBSET ProjectIds]
    /\ fetches \in Seq(Fetch)
    /\ hasty \in BOOLEAN
    /\ failed \in BOOLEAN

(* What the page has asked for is under way or answered, and the keys it    *)
(* knows were created.                                                      *)
CallsAsked ==
    /\ \A r \in calls : pc[r] # "idle"
    /\ \A k \in calls \cap KeyCreates : wanted[k] \in ProjectIds
    /\ \A k \in shown : pc[k] # "idle"
    /\ secret # NoKey => pc[secret] = "ok"

(* A load that lists the projects for a new one finds it.                   *)
LoadsListed ==
    /\ load[Mount] # "none"
    /\ \A c \in Creates : load[c] # "none" => pc[c] = "ok"
    /\ \A l \in Loads :
          load[l] = "replied" => Default \in listed[l] /\ (l \in Creates => l \in listed[l])

KeysFetched ==
    \A f \in DOMAIN fetches :
        fetches[f].at = "replied" =>
            \A k \in fetches[f].keys : pc[k] # "idle" /\ wanted[k] = fetches[f].of

(* A user who waits leaves one call, one load or one fetch under way.       *)
OneAtATime ==
    ~hasty =>
        /\ \A r, s \in calls : r = s
        /\ \A l, m \in Loading : l = m
        /\ \A f, g \in Fetching : f = g
        /\ calls # {} => Loading = {} /\ Fetching = {}
        /\ Loading # {} => Fetching = {}

(* For such a user, what is under way and what is shown is of the selected  *)
(* project.                                                                 *)
PanelFollows ==
    ~hasty /\ ~failed =>
        /\ \A k \in calls \cap KeyCreates : wanted[k] = selected
        /\ \A f \in Fetching :
              /\ fetches[f].of = selected
              /\ fetches[f].at = "replied" /\ secret # NoKey /\ owner[secret] = selected
                    => secret \in fetches[f].keys
        /\ Fetching = {} =>
              /\ \A k \in shown : wanted[k] = selected
              /\ secret # NoKey /\ owner[secret] = selected => secret \in shown

PageInv ==
    /\ PageTypeOK /\ CallsAsked /\ LoadsListed /\ KeysFetched /\ OneAtATime
    /\ PanelFollows
    /\ selected \in options \cup {NoProject}

USE DisjointRequests, DefaultAssumption, SentinelsAssumption, MountAssumption,
    NoProjectAssumption
    DEF Requests, ProjectIds

(***************************************************************************)
(* The page and the API.                                                   *)
(***************************************************************************)

LEMMA PageStepsTheApi == PageTypeOK /\ [Next]_vars => [ApiNext]_apiVars
<1>. SUFFICES ASSUME PageTypeOK, [Next]_vars PROVE [ApiNext]_apiVars
    OBVIOUS
<1>1. CASE User
    <2>1. CASE \E p \in ProjectIds : Pick(p)
        BY <2>1 DEF Pick
    <2>2. CASE \E c \in Creates, n \in Names : ClickCreate(c, n)
        BY <2>2 DEF ClickCreate, ApiNext, Arrival
    <2>3. CASE \E k \in KeyCreates : ClickCreateKey(k)
        <3>1. PICK k \in KeyCreates : ClickCreateKey(k)
            BY <2>3
        <3>2. selected \in ProjectIds
            BY <3>1 DEF ClickCreateKey, PageTypeOK
        <3>. QED
            BY <3>1, <3>2 DEF ClickCreateKey, ApiNext, Arrival
    <2>. QED
        BY <1>1, <2>1, <2>2, <2>3 DEF User
<1>2. CASE Page \/ Lose \/ UNCHANGED vars
    BY <1>2 DEF Page, Lose, Answered, ServeLoad, ApplyLoad, ServeFetch, ApplyFetch, vars
<1>3. CASE Api
    BY <1>3 DEF Api
<1>. QED
    BY <1>1, <1>2, <1>3 DEF Next

(* What a step of the API keeps of a request that has arrived.              *)
LEMMA RequestsStay ==
    ASSUME IInv, [ApiNext]_apiVars
    PROVE  /\ \A r \in Requests :
                  pc[r] # "idle" => pc'[r] # "idle" /\ wanted'[r] = wanted[r]
           /\ \A r \in Requests : pc[r] \in Outcomes => pc'[r] = pc[r]
           /\ \A k \in KeyCreates : pc[k] = "ok" => owner'[k] \in {owner[k], NoRow}
<1>. USE DEF IInv, ApiTypeOK, Outcomes
<1>1. ASSUME NEW q \in Requests, NEW label, NEW what, Arrives(q, what, label),
             label # "idle", owner' = owner
      PROVE  /\ \A r \in Requests :
                    pc[r] # "idle" => pc'[r] # "idle" /\ wanted'[r] = wanted[r]
             /\ \A r \in Requests : pc[r] \in Outcomes => pc'[r] = pc[r]
             /\ \A k \in KeyCreates : pc[k] = "ok" => owner'[k] \in {owner[k], NoRow}
    BY <1>1 DEF Arrives, Advance
<1>2. CASE Arrival
    BY <1>1, <1>2 DEF Arrival, CreateSelect, CreateKeyLoad, DeleteKeyLoad, IngestResolve
<1>3. ASSUME NEW q \in Requests, NEW label, Advance(q, label), pc[q] \notin Outcomes,
             label # "idle", wanted' = wanted
      PROVE  /\ \A r \in Requests :
                    pc[r] # "idle" => pc'[r] # "idle" /\ wanted'[r] = wanted[r]
             /\ \A r \in Requests : pc[r] \in Outcomes => pc'[r] = pc[r]
    BY <1>3 DEF Advance
<1>4. CASE Serving
    <2>1. CASE \E c \in Creates : CreateCommit(c)
        BY <1>3, <2>1 DEF CreateCommit
    <2>2. CASE \E k \in KeyCreates : CreateKeyCommit(k)
        <3>1. PICK k \in KeyCreates : CreateKeyCommit(k)
            BY <2>2
        <3>2. \A j \in KeyCreates : pc[j] = "ok" => owner'[j] = owner[j]
            BY <3>1 DEF CreateKeyCommit
        <3>. QED
            BY <1>3, <3>1, <3>2 DEF CreateKeyCommit
    <2>3. CASE \E d \in Deletes : DeleteKeyCommit(d)
        <3>1. PICK d \in Deletes : DeleteKeyCommit(d)
            BY <2>3
        <3>2. \A j \in KeyCreates : owner'[j] \in {owner[j], NoRow}
            BY <3>1 DEF DeleteKeyCommit
        <3>. QED
            BY <1>3, <3>1, <3>2 DEF DeleteKeyCommit
    <2>4. CASE \E i \in Ingests : IngestGetRun(i) \/ IngestCommit(i)
        BY <1>3, <2>4 DEF IngestGetRun, IngestCommit
    <2>. QED
        BY <1>4, <2>1, <2>2, <2>3, <2>4 DEF Serving
<1>5. CASE \E r \in Requests : Crash(r)
    BY <1>3, <1>5 DEF Crash, InFlight
<1>6. CASE UNCHANGED apiVars
    BY <1>6 DEF apiVars
<1>. QED
    BY <1>2, <1>4, <1>5, <1>6 DEF ApiNext

(***************************************************************************)
(* Steps of the API, alone or with a call of the page.                     *)
(***************************************************************************)

LEMMA PageType == ASSUME PageInv PROVE PageTypeOK
BY DEF PageInv

LEMMA FetchType ==
    ASSUME fetches \in Seq(Fetch), NEW f \in DOMAIN fetches
    PROVE  /\ fetches[f] \in Fetch
           /\ fetches[f].of \in ProjectIds /\ fetches[f].keys \in SUBSET KeyCreates
<1>1. fetches[f] \in Fetch
    OBVIOUS
<1>. QED
    BY <1>1 DEF Fetch

LEMMA ApiKeeps ==
    ASSUME IInv, PageInv, [ApiNext]_apiVars,
           UNCHANGED <<options, selected, shown, secret, stored, load, listed, fetches,
                       failed>>
    PROVE  /\ LoadsListed' /\ KeysFetched'
           /\ \A k \in calls \cap KeyCreates : pc'[k] # "idle" /\ wanted'[k] = wanted[k]
           /\ \A r \in calls : pc'[r] # "idle"
           /\ \A k \in shown : pc'[k] # "idle" /\ wanted'[k] = wanted[k]
           /\ secret # NoKey => pc'[secret] = "ok"
           /\ secret # NoKey /\ owner'[secret] = selected => owner[secret] = selected
<1>. USE DEF PageInv, PageTypeOK
<1>1. LoadsListed'
    BY RequestsStay DEF LoadsListed, Outcomes
<1>2. KeysFetched'
    <2>1. \A f \in DOMAIN fetches : fetches[f].keys \subseteq KeyCreates
        BY FetchType
    <2>. QED
        BY <2>1, RequestsStay DEF KeysFetched
<1>3. \A r \in calls : pc'[r] # "idle" /\ wanted'[r] = wanted[r]
    BY RequestsStay DEF CallsAsked
<1>4. \A k \in shown : pc'[k] # "idle" /\ wanted'[k] = wanted[k]
    BY RequestsStay DEF CallsAsked
<1>5. secret # NoKey => pc'[secret] = "ok" /\ owner'[secret] \in {owner[secret], NoRow}
    BY RequestsStay DEF CallsAsked, Outcomes
<1>6. selected # NoRow
    OBVIOUS
<1>. QED
    BY <1>1, <1>2, <1>3, <1>4, <1>5, <1>6

LEMMA ApiAlone ==
    ASSUME IInv, PageInv, [ApiNext]_apiVars, UNCHANGED pageVars
    PROVE  PageInv'
<1>. USE DEF pageVars
<1>1. PageTypeOK' /\ (selected \in options \cup {NoProject})'
    BY DEF PageInv, PageTypeOK
<1>2. CallsAsked'
    BY ApiKeeps DEF PageInv, CallsAsked
<1>3. OneAtATime'
    BY DEF PageInv, OneAtATime, Loading, Fetching
<1>4. PanelFollows'
    <2>1. Fetching' = Fetching
        BY DEF Fetching
    <2>. QED
        BY <2>1, ApiKeeps DEF PageInv, PanelFollows
<1>. QED
    BY <1>1, <1>2, <1>3, <1>4, ApiKeeps DEF PageInv

LEMMA Called ==
    ASSUME IInv, PageInv, [ApiNext]_apiVars, NEW r \in Creates \cup KeyCreates,
           pc'[r] # "idle",
           r \in KeyCreates => selected \in ProjectIds /\ wanted'[r] = selected,
           calls' = calls \cup {r}, hasty' = (hasty \/ Busy),
           UNCHANGED <<options, selected, shown, secret, stored, load, listed, fetches,
                       failed>>
    PROVE  PageInv'
<1>1. PageTypeOK' /\ (selected \in options \cup {NoProject})'
    BY DEF PageInv, PageTypeOK
<1>2. CallsAsked'
    BY ApiKeeps DEF PageInv, CallsAsked
<1>3. Loading' = Loading /\ Fetching' = Fetching
    BY DEF Loading, Fetching
<1>4. ~hasty' => ~hasty /\ calls = {} /\ Loading = {} /\ Fetching = {}
    BY Zenon DEF Busy
<1>5. OneAtATime'
    BY <1>3, <1>4 DEF OneAtATime
<1>6. PanelFollows'
    BY <1>3, <1>4, ApiKeeps DEF PageInv, PanelFollows
<1>. QED
    BY <1>1, <1>2, <1>5, <1>6, ApiKeeps DEF PageInv

LEMMA ClickCreateStep ==
    ASSUME IInv, PageInv, NEW c \in Creates, NEW n \in Names, ClickCreate(c, n)
    PROVE  PageInv'
<1>1. pc'[c] # "idle"
    BY DEF IInv, ApiTypeOK, ClickCreate, CreateSelect, Arrives, Advance
<1>2. ApiNext
    BY DEF ClickCreate, ApiNext, Arrival
<1>3. c \notin KeyCreates
    OBVIOUS
<1>. QED
    BY <1>1, <1>2, <1>3, Called DEF ClickCreate, Acts

LEMMA ClickCreateKeyStep ==
    ASSUME IInv, PageInv, NEW k \in KeyCreates, ClickCreateKey(k)
    PROVE  PageInv'
<1>1. pc'[k] # "idle" /\ wanted'[k] = selected
    BY DEF IInv, ApiTypeOK, ClickCreateKey, CreateKeyLoad, Arrives, Advance
<1>2. selected \in ProjectIds
    BY PageType DEF PageTypeOK, ClickCreateKey
<1>3. ApiNext
    BY <1>2 DEF ClickCreateKey, ApiNext, Arrival
<1>. QED
    BY <1>1, <1>2, <1>3, Called DEF ClickCreateKey, Acts

(***************************************************************************)
(* Steps of the page.                                                      *)
(***************************************************************************)

(* The fetches after one more was asked for.                                *)
LEMMA OneMoreFetch ==
    ASSUME fetches \in Seq(Fetch), NEW p \in ProjectIds, NEW handler \in BOOLEAN,
           fetches' = Asked(p, handler)
    PROVE  /\ fetches' \in Seq(Fetch)
           /\ DOMAIN fetches' = DOMAIN fetches \cup {Len(fetches) + 1}
           /\ Len(fetches) + 1 \notin DOMAIN fetches
           /\ \A f \in DOMAIN fetches : fetches'[f] = fetches[f]
           /\ fetches'[Len(fetches) + 1].of = p
           /\ fetches'[Len(fetches) + 1].at = "asked"
           /\ Fetching' = Fetching \cup {Len(fetches) + 1}
<1>. DEFINE new == [of |-> p, handler |-> handler, at |-> "asked", keys |-> {}]
<1>1. new \in Fetch
    BY DEF Fetch
<1>2. fetches' = Append(fetches, new)
    BY DEF Asked
<1>3. /\ fetches' \in Seq(Fetch)
      /\ DOMAIN fetches' = DOMAIN fetches \cup {Len(fetches) + 1}
      /\ Len(fetches) + 1 \notin DOMAIN fetches
      /\ \A f \in DOMAIN fetches : fetches'[f] = fetches[f]
      /\ fetches'[Len(fetches) + 1] = new
    <2>. HIDE DEF new
    <2>. QED
        BY <1>1, <1>2
<1>4. Fetching' = Fetching \cup {Len(fetches) + 1}
    BY <1>3 DEF Fetching
<1>. QED
    BY <1>3, <1>4

LEMMA SelectKeeps ==
    ASSUME PageInv, NEW p \in ProjectIds, Select(p), UNCHANGED apiVars
    PROVE  /\ selected' = p /\ stored' = p
           /\ fetches' \in Seq(Fetch) /\ KeysFetched'
           /\ \/ p = selected /\ fetches' = fetches
              \/ \E f \in DOMAIN fetches' :
                    /\ Fetching' = Fetching \cup {f}
                    /\ fetches'[f].of = p /\ fetches'[f].at = "asked"
<1>. USE DEF PageInv, PageTypeOK, Select, apiVars
<1>1. CASE p = selected
    BY <1>1 DEF KeysFetched
<1>2. CASE p # selected
    <2>1. fetches' = Asked(p, FALSE)
        BY <1>2
    <2>. DEFINE n == Len(fetches) + 1
    <2>2. /\ fetches' \in Seq(Fetch)
          /\ DOMAIN fetches' = DOMAIN fetches \cup {n}
          /\ \A f \in DOMAIN fetches : fetches'[f] = fetches[f]
          /\ fetches'[n].of = p
          /\ fetches'[n].at = "asked"
          /\ Fetching' = Fetching \cup {n}
        BY <2>1, OneMoreFetch
    <2>. HIDE DEF n
    <2>3. ASSUME NEW f \in DOMAIN fetches', fetches'[f].at = "replied"
          PROVE  f \in DOMAIN fetches /\ fetches'[f] = fetches[f]
        BY <2>2, <2>3
    <2>4. pc' = pc /\ wanted' = wanted
        OBVIOUS
    <2>5. KeysFetched'
        BY <2>3, <2>4 DEF KeysFetched
    <2>. QED
        BY <2>2, <2>5
<1>. QED
    BY <1>1, <1>2

(* What is selected when nothing is under way is what will be shown.        *)
LEMMA SelectFollows ==
    ASSUME PageInv, NEW p \in ProjectIds, Select(p), UNCHANGED <<apiVars, shown, secret>>,
           calls' = {}, Fetching = {}, p = selected => ~hasty, ~failed
    PROVE  PanelFollows' /\ \A f, g \in Fetching' : f = g
<1>1. CASE p = selected /\ fetches' = fetches
    <2>1. Fetching' = {} /\ selected' = selected /\ ~hasty
        BY <1>1, SelectKeeps DEF Fetching
    <2>2. /\ \A k \in shown : wanted[k] = selected
          /\ secret # NoKey /\ owner[secret] = selected => secret \in shown
        BY <2>1 DEF PageInv, PanelFollows
    <2>. QED
        BY <2>1, <2>2 DEF PanelFollows, apiVars
<1>2. CASE \E f \in DOMAIN fetches' :
               /\ Fetching' = Fetching \cup {f}
               /\ fetches'[f].of = p /\ fetches'[f].at = "asked"
    <2>1. PICK f \in DOMAIN fetches' :
              Fetching' = {f} /\ fetches'[f].of = p /\ fetches'[f].at = "asked"
        BY <1>2
    <2>2. selected' = p
        BY SelectKeeps
    <2>. QED
        BY <2>1, <2>2 DEF PanelFollows
<1>. QED
    BY <1>1, <1>2, SelectKeeps

LEMMA PickStep ==
    ASSUME PageInv, NEW p \in ProjectIds, Pick(p)
    PROVE  PageInv'
<1>1. /\ Select(p) /\ UNCHANGED <<apiVars, options, shown, secret, calls, load, listed,
                                 failed>>
      /\ hasty' = Busy /\ p \in options /\ p # selected
    BY DEF Pick
<1>2. /\ selected' = p /\ stored' = p
      /\ fetches' \in Seq(Fetch) /\ KeysFetched'
    BY <1>1, SelectKeeps
<1>3. hasty' \in BOOLEAN /\ (~hasty' => ~Busy)
    BY <1>1, Zenon DEF Busy
<1>4. PageTypeOK' /\ selected' \in options' \cup {NoProject}
    BY <1>1, <1>2, <1>3 DEF PageInv, PageTypeOK
<1>5. CallsAsked' /\ LoadsListed'
    BY <1>1 DEF PageInv, CallsAsked, LoadsListed, apiVars
<1>6. CASE hasty'
    BY <1>2, <1>4, <1>5, <1>6 DEF PageInv, OneAtATime, PanelFollows
<1>7. CASE ~hasty'
    <2>1. calls' = {} /\ Loading' = {} /\ Fetching = {}
        BY <1>1, <1>3, <1>7 DEF Busy, Loading
    <2>2. failed => PanelFollows'
        BY <1>1 DEF PanelFollows
    <2>3. \A f, g \in Fetching' : f = g
        <3>1. Fetching' = Fetching \/ \E f : Fetching' = Fetching \cup {f}
            BY <1>1, SelectKeeps DEF Fetching
        <3>. QED
            BY <2>1, <3>1
    <2>4. PanelFollows'
        BY <1>1, <2>1, <2>2, SelectFollows
    <2>5. OneAtATime'
        BY <2>1, <2>3 DEF OneAtATime
    <2>. QED
        BY <1>2, <1>4, <1>5, <2>4, <2>5 DEF PageInv
<1>. QED
    BY <1>6, <1>7

LEMMA CreatedStep ==
    ASSUME IInv, PageInv, NEW c \in Creates, Answered(c)
    PROVE  PageInv'
<1>. USE DEF PageInv
<1>1. /\ c \in calls /\ calls' = calls \ {c}
      /\ load' = (IF pc[c] = "ok" THEN [load EXCEPT ![c] = "asked"] ELSE load)
      /\ UNCHANGED <<apiVars, options, selected, shown, secret, stored, listed, fetches,
                     hasty, failed>>
    BY DEF Answered, Created
<1>2. c \in Loads /\ c # Mount
    BY DEF Loads
<1>3. PageTypeOK' /\ selected' \in options' \cup {NoProject}
    BY <1>1, <1>2 DEF PageTypeOK
<1>4. CallsAsked' /\ KeysFetched'
    BY <1>1 DEF CallsAsked, KeysFetched, apiVars
<1>5. LoadsListed'
    BY <1>1, <1>2 DEF LoadsListed, PageTypeOK, apiVars
<1>6. Fetching' = Fetching /\ Loading' \subseteq Loading \cup {c}
    BY <1>1, <1>2 DEF Fetching, Loading, PageTypeOK
<1>7. OneAtATime'
    BY <1>1, <1>6 DEF OneAtATime
<1>8. PanelFollows'
    BY <1>1, <1>6 DEF PanelFollows, apiVars
<1>. QED
    BY <1>3, <1>4, <1>5, <1>7, <1>8

LEMMA KeyCreatedStep ==
    ASSUME IInv, PageInv, NEW k \in KeyCreates, Answered(k)
    PROVE  PageInv'
<1>. USE DEF PageInv
<1>1. /\ k \in calls /\ calls' = calls \ {k}
      /\ UNCHANGED <<apiVars, options, selected, shown, stored, load, listed, hasty, failed>>
    BY DEF Answered, KeyCreated
<1>2. Loading' = Loading
    BY <1>1 DEF Loading
<1>3. LoadsListed' /\ selected' \in options' \cup {NoProject}
    BY <1>1 DEF LoadsListed, apiVars
<1>4. CASE secret' = secret /\ fetches' = fetches
    <2>1. PageTypeOK'
        BY <1>1, <1>4 DEF PageTypeOK
    <2>2. CallsAsked' /\ KeysFetched'
        BY <1>1, <1>4 DEF CallsAsked, KeysFetched, apiVars
    <2>3. Fetching' = Fetching
        BY <1>4 DEF Fetching
    <2>4. OneAtATime' /\ PanelFollows'
        BY <1>1, <1>2, <1>4, <2>3 DEF OneAtATime, PanelFollows, apiVars
    <2>. QED
        BY <1>3, <2>1, <2>2, <2>4
<1>5. CASE pc[k] = "ok" /\ secret' = k /\ fetches' = Asked(wanted[k], TRUE)
    <2>1. wanted[k] \in ProjectIds /\ fetches \in Seq(Fetch)
        BY <1>1 DEF CallsAsked, PageTypeOK
    <2>. DEFINE n == Len(fetches) + 1
    <2>2. /\ fetches' \in Seq(Fetch)
          /\ DOMAIN fetches' = DOMAIN fetches \cup {n}
          /\ \A f \in DOMAIN fetches : fetches'[f] = fetches[f]
          /\ fetches'[n].of = wanted[k] /\ fetches'[n].at = "asked"
          /\ Fetching' = Fetching \cup {n}
        BY <1>5, <2>1, OneMoreFetch
    <2>. HIDE DEF n
    <2>3. PageTypeOK'
        BY <1>1, <1>5, <2>2 DEF PageTypeOK
    <2>4. CallsAsked'
        BY <1>1, <1>5 DEF CallsAsked, apiVars
    <2>5. KeysFetched'
        <3>1. ASSUME NEW f \in DOMAIN fetches', fetches'[f].at = "replied"
              PROVE  f \in DOMAIN fetches /\ fetches'[f] = fetches[f]
            BY <2>2, <3>1
        <3>. QED
            BY <1>1, <3>1 DEF KeysFetched, apiVars
    <2>6. ~hasty => calls' = {} /\ Loading = {} /\ Fetching' = {n}
        BY <1>1, <2>2 DEF OneAtATime
    <2>7. OneAtATime'
        BY <1>1, <1>2, <2>6 DEF OneAtATime
    <2>8. PanelFollows'
        BY <1>1, <2>2, <2>6 DEF PanelFollows
    <2>. QED
        BY <1>3, <2>3, <2>4, <2>5, <2>7, <2>8
<1>6. k \notin Creates
    OBVIOUS
<1>. QED
    BY <1>4, <1>5, <1>6 DEF Answered, KeyCreated

LEMMA ServeLoadStep ==
    ASSUME IInv, PageInv, NEW l \in Loads, ServeLoad(l)
    PROVE  PageInv'
<1>. USE DEF PageInv
<1>1. /\ load[l] = "asked" /\ load' = [load EXCEPT ![l] = "replied"]
      /\ listed' = [listed EXCEPT ![l] = Listed]
      /\ UNCHANGED <<apiVars, options, selected, shown, secret, stored, calls, fetches,
                     hasty, failed>>
    BY DEF ServeLoad
<1>2. Listed \subseteq ProjectIds /\ Default \in Listed /\ (l \in Creates => l \in Listed)
    BY <1>1 DEF IInv, NamesWanted, Listed, LoadsListed
<1>3. PageTypeOK' /\ selected' \in options' \cup {NoProject}
    BY <1>1, <1>2 DEF PageTypeOK
<1>4. CallsAsked' /\ KeysFetched'
    BY <1>1 DEF CallsAsked, KeysFetched, apiVars
<1>5. LoadsListed'
    BY <1>1, <1>2 DEF LoadsListed, PageTypeOK, apiVars, Loads
<1>6. Fetching' = Fetching /\ Loading' = Loading
    BY <1>1 DEF Fetching, Loading, PageTypeOK
<1>7. OneAtATime' /\ PanelFollows'
    BY <1>1, <1>6 DEF OneAtATime, PanelFollows, apiVars
<1>. QED
    BY <1>3, <1>4, <1>5, <1>7

LEMMA ApplyLoadStep ==
    ASSUME IInv, PageInv, NEW l \in Loads, ApplyLoad(l)
    PROVE  PageInv'
<1>. DEFINE p == IF l = Mount THEN Default ELSE l
<1>1. /\ load[l] = "replied" /\ load' = [load EXCEPT ![l] = "done"]
      /\ options' = listed[l] /\ Select(p)
      /\ UNCHANGED <<apiVars, shown, secret, calls, listed, hasty, failed>>
    BY DEF ApplyLoad
<1>2. p \in ProjectIds /\ p \in listed[l]
    BY <1>1 DEF PageInv, LoadsListed, Loads
<1>. HIDE DEF p
<1>3. /\ selected' = p /\ stored' = p
      /\ fetches' \in Seq(Fetch) /\ KeysFetched'
    BY <1>1, <1>2, SelectKeeps
<1>4. PageTypeOK' /\ selected' \in options' \cup {NoProject}
    BY <1>1, <1>2, <1>3 DEF PageInv, PageTypeOK
<1>5. CallsAsked' /\ LoadsListed'
    BY <1>1 DEF PageInv, PageTypeOK, CallsAsked, LoadsListed, apiVars
<1>6. CASE hasty
    BY <1>1, <1>3, <1>4, <1>5, <1>6 DEF PageInv, OneAtATime, PanelFollows
<1>7. CASE ~hasty
    <2>1. l \in Loading /\ Loading' = Loading \ {l}
        BY <1>1 DEF PageInv, PageTypeOK, Loading
    <2>2. calls' = {} /\ Loading' = {} /\ Fetching = {}
        BY <1>1, <1>7, <2>1 DEF PageInv, OneAtATime
    <2>3. failed => PanelFollows'
        BY <1>1 DEF PanelFollows
    <2>4. PanelFollows'
        BY <1>1, <1>2, <1>7, <2>2, <2>3, SelectFollows
    <2>5. \A f, g \in Fetching' : f = g
        <3>1. Fetching' = Fetching \/ \E f : Fetching' = Fetching \cup {f}
            BY <1>1, <1>2, SelectKeeps DEF Fetching
        <3>. QED
            BY <2>2, <3>1
    <2>6. OneAtATime'
        BY <2>2, <2>5 DEF OneAtATime
    <2>. QED
        BY <1>3, <1>4, <1>5, <2>4, <2>6 DEF PageInv
<1>. QED
    BY <1>6, <1>7

LEMMA ServeFetchStep ==
    ASSUME IInv, PageInv, NEW f \in DOMAIN fetches, ServeFetch(f)
    PROVE  PageInv'
<1>. USE DEF PageInv
<1>1. /\ fetches[f].at = "asked"
      /\ UNCHANGED <<apiVars, options, selected, shown, secret, stored, calls, load,
                     listed, hasty, failed>>
    BY DEF ServeFetch
<1>2. fetches \in Seq(Fetch) /\ fetches[f] \in Fetch /\ fetches[f].of \in ProjectIds
    BY FetchType DEF PageTypeOK
<1>. DEFINE new == [fetches[f] EXCEPT !.at = "replied", !.keys = KeysOf(fetches[f].of)]
<1>3. /\ new \in Fetch /\ new.of = fetches[f].of /\ new.at = "replied"
      /\ new.keys = KeysOf(fetches[f].of)
    BY <1>2 DEF Fetch, KeysOf
<1>4. fetches' = [fetches EXCEPT ![f] = new]
    BY <1>2 DEF ServeFetch, Fetch
<1>. HIDE DEF new
<1>5. /\ fetches' \in Seq(Fetch) /\ DOMAIN fetches' = DOMAIN fetches
      /\ fetches'[f] = new
      /\ \A g \in DOMAIN fetches \ {f} : fetches'[g] = fetches[g]
    BY <1>2, <1>3, <1>4
<1>6. \A k \in new.keys : pc[k] # "idle" /\ wanted[k] = new.of
    BY <1>2, <1>3 DEF IInv, KeysWanted, KeysOf
<1>7. PageTypeOK' /\ selected' \in options' \cup {NoProject}
    BY <1>1, <1>5 DEF PageTypeOK
<1>8. CallsAsked' /\ LoadsListed'
    BY <1>1 DEF CallsAsked, LoadsListed, apiVars
<1>9. KeysFetched'
    BY <1>1, <1>5, <1>6 DEF KeysFetched, apiVars
<1>10. Fetching' = Fetching /\ Loading' = Loading
    BY <1>1, <1>3, <1>5 DEF Fetching, Loading
<1>11. OneAtATime'
    BY <1>1, <1>10 DEF OneAtATime
<1>12. PanelFollows'
    <2>1. ASSUME NEW g \in Fetching', ~hasty, ~failed
          PROVE  /\ fetches'[g].of = selected
                 /\ fetches'[g].at = "replied" /\ secret # NoKey /\ owner[secret] = selected
                       => secret \in fetches'[g].keys
        <3>1. CASE g = f
            BY <1>3, <1>5, <1>10, <2>1, <3>1 DEF PanelFollows, PageTypeOK, KeysOf
        <3>2. CASE g # f
            <4>1. g \in Fetching /\ fetches'[g] = fetches[g]
                BY <1>5, <1>10, <2>1, <3>2 DEF Fetching
            <4>. QED
                BY <2>1, <4>1 DEF PanelFollows
        <3>. QED
            BY <3>1, <3>2
    <2>. QED
        BY <1>1, <1>10, <2>1 DEF PanelFollows, apiVars
<1>. QED
    BY <1>7, <1>8, <1>9, <1>11, <1>12

(* A fetch that ends, whatever it has shown.                                *)
LEMMA FetchEnds ==
    ASSUME PageInv, NEW f \in Fetching, fetches' = Fetched(f),
           UNCHANGED <<pc, wanted>>
    PROVE  /\ fetches' \in Seq(Fetch)
           /\ Fetching' = Fetching \ {f}
           /\ \A g \in DOMAIN fetches' \ {f} : fetches'[g] = fetches[g]
           /\ KeysFetched'
<1>. USE DEF PageInv
<1>1. f \in DOMAIN fetches /\ fetches \in Seq(Fetch) /\ fetches[f] \in Fetch
    BY FetchType DEF PageTypeOK, Fetching
<1>. DEFINE new == [fetches[f] EXCEPT !.at = "done"]
<1>2. new \in Fetch /\ new.at = "done"
    BY <1>1 DEF Fetch
<1>3. fetches' = [fetches EXCEPT ![f] = new]
    BY DEF Fetched
<1>. HIDE DEF new
<1>4. /\ fetches' \in Seq(Fetch) /\ DOMAIN fetches' = DOMAIN fetches
      /\ fetches'[f] = new
      /\ \A g \in DOMAIN fetches \ {f} : fetches'[g] = fetches[g]
    BY <1>1, <1>2, <1>3
<1>5. Fetching' = Fetching \ {f}
    BY <1>2, <1>4 DEF Fetching
<1>6. KeysFetched'
    BY <1>2, <1>4 DEF KeysFetched
<1>. QED
    BY <1>4, <1>5, <1>6

LEMMA ApplyFetchStep ==
    ASSUME IInv, PageInv, NEW f \in DOMAIN fetches, ApplyFetch(f)
    PROVE  PageInv'
<1>. USE DEF PageInv
<1>1. /\ fetches[f].at = "replied" /\ fetches' = Fetched(f) /\ shown' = fetches[f].keys
      /\ UNCHANGED <<apiVars, options, selected, secret, stored, calls, load, listed,
                     hasty, failed>>
    BY DEF ApplyFetch
<1>2. f \in Fetching /\ fetches[f].keys \in SUBSET KeyCreates
    BY <1>1, FetchType DEF Fetching, PageTypeOK
<1>3. fetches' \in Seq(Fetch) /\ Fetching' = Fetching \ {f} /\ KeysFetched'
    BY <1>1, <1>2, FetchEnds DEF apiVars
<1>4. PageTypeOK' /\ selected' \in options' \cup {NoProject}
    BY <1>1, <1>2, <1>3 DEF PageTypeOK
<1>5. CallsAsked' /\ LoadsListed'
    BY <1>1 DEF CallsAsked, LoadsListed, KeysFetched, apiVars
<1>6. Loading' = Loading
    BY <1>1 DEF Loading
<1>7. OneAtATime'
    BY <1>1, <1>3, <1>6 DEF OneAtATime
<1>8. PanelFollows'
    <2>1. ~hasty => Fetching' = {} /\ calls' = {}
        BY <1>1, <1>2, <1>3 DEF OneAtATime
    <2>. QED
        BY <1>1, <1>2, <2>1 DEF PanelFollows, KeysFetched, apiVars
<1>. QED
    BY <1>3, <1>4, <1>5, <1>7, <1>8

LEMMA LoseStep ==
    ASSUME IInv, PageInv, Lose
    PROVE  PageInv'
<1>. USE DEF PageInv
<1>1. /\ failed' = TRUE
      /\ UNCHANGED <<apiVars, options, selected, secret, stored, listed, hasty>>
    BY DEF Lose
<1>2. PanelFollows' /\ selected' \in options' \cup {NoProject}
    BY <1>1 DEF PanelFollows
<1>3. CASE \E r \in Requests : LoseCall(r)
    <2>1. calls' \subseteq calls /\ UNCHANGED <<load, fetches, shown>>
        BY <1>3 DEF LoseCall
    <2>2. PageTypeOK' /\ CallsAsked' /\ LoadsListed' /\ KeysFetched'
        BY <1>1, <2>1 DEF PageTypeOK, CallsAsked, LoadsListed, KeysFetched, apiVars
    <2>3. OneAtATime'
        BY <1>1, <2>1 DEF OneAtATime, Loading, Fetching
    <2>. QED
        BY <1>2, <2>2, <2>3
<1>4. CASE \E l \in Loads : LoseLoad(l)
    <2>1. PICK l \in Loads : LoseLoad(l)
        BY <1>4
    <2>2. /\ l \in Loading /\ load' = [load EXCEPT ![l] = "done"]
          /\ UNCHANGED <<calls, fetches, shown>>
        BY <2>1 DEF LoseLoad
    <2>3. PageTypeOK' /\ CallsAsked' /\ LoadsListed' /\ KeysFetched'
        BY <1>1, <2>2 DEF PageTypeOK, CallsAsked, LoadsListed, KeysFetched, Loading, apiVars
    <2>4. Loading' \subseteq Loading /\ Fetching' = Fetching
        BY <2>2 DEF Loading, Fetching, PageTypeOK
    <2>5. OneAtATime'
        BY <1>1, <2>2, <2>4 DEF OneAtATime
    <2>. QED
        BY <1>2, <2>3, <2>5
<1>5. CASE \E f \in DOMAIN fetches : LoseFetch(f)
    <2>1. PICK f \in DOMAIN fetches : LoseFetch(f)
        BY <1>5
    <2>2. /\ f \in Fetching /\ fetches' = Fetched(f) /\ shown' \in {shown, {}}
          /\ UNCHANGED <<calls, load>>
        BY <2>1 DEF LoseFetch
    <2>3. fetches' \in Seq(Fetch) /\ Fetching' = Fetching \ {f} /\ KeysFetched'
        BY <1>1, <2>2, FetchEnds DEF apiVars
    <2>4. PageTypeOK' /\ CallsAsked' /\ LoadsListed'
        BY <1>1, <2>2, <2>3 DEF PageTypeOK, CallsAsked, LoadsListed, apiVars
    <2>5. Loading' = Loading
        BY <2>2 DEF Loading
    <2>6. OneAtATime'
        BY <1>1, <2>2, <2>3, <2>5 DEF OneAtATime
    <2>. QED
        BY <1>2, <2>3, <2>4, <2>6
<1>. QED
    BY <1>3, <1>4, <1>5 DEF Lose

(***************************************************************************)
(* Theorems.                                                               *)
(***************************************************************************)

LEMMA PageInitially == Init => IInv /\ PageInv
<1>. SUFFICES ASSUME Init PROVE IInv /\ PageInv
    OBVIOUS
<1>. USE DEF Init
<1>1. IInv
    BY Initially
<1>2. PageTypeOK
    <2>1. load \in [Loads -> {"none", "asked", "replied", "done"}]
        OBVIOUS
    <2>2. listed \in [Loads -> SUBSET ProjectIds]
        OBVIOUS
    <2>3. fetches \in Seq(Fetch)
        OBVIOUS
    <2>. QED
        BY <2>1, <2>2, <2>3 DEF PageTypeOK
<1>3. CallsAsked /\ LoadsListed /\ KeysFetched
    BY DEF CallsAsked, LoadsListed, KeysFetched, Loads
<1>4. Loading = {Mount} /\ Fetching = {}
    BY DEF Loading, Fetching, Loads
<1>5. OneAtATime /\ PanelFollows
    BY <1>4 DEF OneAtATime, PanelFollows
<1>. QED
    BY <1>1, <1>2, <1>3, <1>5 DEF PageInv

LEMMA PageSteps == IInv /\ PageInv /\ [Next]_vars => PageInv'
<1>. SUFFICES ASSUME IInv, PageInv, [Next]_vars PROVE PageInv'
    OBVIOUS
<1>1. CASE User
    BY <1>1, PickStep, ClickCreateStep, ClickCreateKeyStep DEF User
<1>2. CASE Page
    <2>1. CASE \E r \in Requests : Answered(r)
        <3>1. PICK r \in Requests : Answered(r)
            BY <2>1
        <3>2. r \in Creates \cup KeyCreates
            BY <3>1 DEF Answered, PageInv, PageTypeOK
        <3>. QED
            BY <3>1, <3>2, CreatedStep, KeyCreatedStep
    <2>2. CASE \E l \in Loads : ServeLoad(l) \/ ApplyLoad(l)
        BY <2>2, ServeLoadStep, ApplyLoadStep
    <2>3. CASE \E f \in DOMAIN fetches : ServeFetch(f) \/ ApplyFetch(f)
        BY <2>3, ServeFetchStep, ApplyFetchStep
    <2>. QED
        BY <1>2, <2>1, <2>2, <2>3 DEF Page
<1>3. CASE Lose
    BY <1>3, LoseStep
<1>4. CASE Api
    BY <1>4, ApiAlone DEF Api
<1>5. CASE UNCHANGED vars
    BY <1>5, ApiAlone DEF vars
<1>. QED
    BY <1>1, <1>2, <1>3, <1>4, <1>5 DEF Next

(* The inductive invariant of the page, beside that of the API.             *)
THEOREM PageInvariance == Spec => [](IInv /\ PageInv)
<1>1. IInv /\ PageInv /\ [Next]_vars => (IInv /\ PageInv)'
    BY PageSteps, PageStepsTheApi, PageType, Step
<1>. QED
    BY <1>1, PageInitially, PTL DEF Spec

(* The page is a client of the API: beside it, the API does what Projects   *)
(* says, so that whatever is proved there holds here.                       *)
THEOREM PageImplementsApi == Spec => ApiSpec
<1>1. Init => ApiInit
    BY DEF Init
<1>2. PageInv /\ [Next]_vars => [ApiNext]_apiVars
    BY PageType, PageStepsTheApi
<1>. QED
    BY <1>1, <1>2, PageInvariance, PTL DEF Spec, ApiSpec

(* And so the page sees the atomic operations of Registry, however its      *)
(* requests interleave with those of the other clients.                     *)
THEOREM PageSeesRegistry == Spec => RegistrySpec
<1>. QED
    BY PageImplementsApi, ImplementsRegistry, PTL

(* Names stay unique and answers true with the page among the clients.      *)
THEOREM NamesAreAnsweredToThePage == Spec => []NamesAnswered
<1>. QED
    BY PageImplementsApi, NamesAreAnswered, PTL

(* The variables of the page and of the API keep their types.               *)
THEOREM PageTypeCorrect == Spec => []TypeOK
<1>1. IInv /\ PageInv => TypeOK
    BY DEF IInv, PageInv, PageTypeOK, TypeOK
<1>. QED
    BY <1>1, PageInvariance, PTL

(* The selected project is an option, and a user who waits for the page's   *)
(* answers is shown its keys, for any requests and other clients.           *)
THEOREM PanelIsOfSelection == Spec => []PanelOfSelection
<1>1. PageInv => PanelOfSelection
    BY DEF PageInv, PanelFollows, PanelOfSelection, Busy
<1>. QED
    BY <1>1, PageInvariance, PTL

(***************************************************************************)
(* Why the page settles.                                                   *)
(***************************************************************************)

Rank(at) ==
    CASE at = "none" -> 0 [] at = "asked" -> 1 [] at = "replied" -> 2 [] OTHER -> 3

(* A load begins with the answer to its call.                               *)
CallsUnloaded == \A c \in calls \cap Creates : load[c] = "none"

LoadsForward == \A l \in Loads : Rank(load[l]) <= Rank(load'[l])

FetchesForward ==
    \A f \in DOMAIN fetches :
        f \in DOMAIN fetches' /\ Rank(fetches[f].at) <= Rank(fetches'[f].at)

(* A call that was answered or lost is not made again.                      *)
CallsOnce ==
    \A r \in Creates \cup KeyCreates :
        pc[r] # "idle" /\ r \notin calls => r \notin calls'

(* No call, load or fetch is ever back at a point it has left, and every    *)
(* step of the page moves one of them on.                                   *)
Forward ==
    /\ LoadsForward /\ FetchesForward /\ CallsOnce
    /\ Page => calls' # calls \/ load' # load \/ fetches' # fetches

(* The API has answered each call of the page or can commit it.             *)
CallsCanEnd == \A r \in calls : pc[r] \in Outcomes \cup {"commit"}

LEMMA FetchesStay ==
    ASSUME PageTypeOK, fetches' = fetches
    PROVE  FetchesForward
<1>1. \A f \in DOMAIN fetches : Rank(fetches[f].at) \in Nat
    BY DEF Rank
<1>. QED
    BY <1>1 DEF FetchesForward

LEMMA LoadsStay ==
    ASSUME load' = load
    PROVE  LoadsForward
<1>1. \A l \in Loads : Rank(load[l]) \in Nat
    BY DEF Rank
<1>. QED
    BY <1>1 DEF LoadsForward

LEMMA FetchAsked ==
    ASSUME PageTypeOK, NEW p \in ProjectIds, NEW handler \in BOOLEAN,
           fetches' = Asked(p, handler)
    PROVE  FetchesForward
<1>1. \A f \in DOMAIN fetches : f \in DOMAIN fetches' /\ fetches'[f] = fetches[f]
    BY OneMoreFetch DEF PageTypeOK
<1>2. \A f \in DOMAIN fetches : Rank(fetches[f].at) \in Nat
    BY DEF Rank
<1>. QED
    BY <1>1, <1>2 DEF FetchesForward

LEMMA SelectForward ==
    ASSUME PageTypeOK, NEW p \in ProjectIds, Select(p)
    PROVE  FetchesForward
BY FetchesStay, FetchAsked DEF Select

(* One load, or one fetch, comes to a point after its own.                  *)
LEMMA LoadMoves ==
    ASSUME PageTypeOK, NEW l \in Loads, NEW at, load' = [load EXCEPT ![l] = at],
           Rank(load[l]) < Rank(at)
    PROVE  LoadsForward /\ load' # load
<1>1. /\ load'[l] = at
      /\ \A m \in Loads : m # l => load'[m] = load[m]
    BY DEF PageTypeOK
<1>2. \A m \in Loads : Rank(load[m]) \in Nat
    BY DEF Rank
<1>3. Rank(at) \in Nat
    BY DEF Rank
<1>4. LoadsForward
    BY <1>1, <1>2, <1>3 DEF LoadsForward
<1>5. load' # load
    BY <1>1, <1>2, <1>3
<1>. QED
    BY <1>4, <1>5

LEMMA FetchMoves ==
    ASSUME PageTypeOK, NEW f \in DOMAIN fetches, DOMAIN fetches' = DOMAIN fetches,
           \A g \in DOMAIN fetches \ {f} : fetches'[g] = fetches[g],
           Rank(fetches[f].at) < Rank(fetches'[f].at)
    PROVE  FetchesForward /\ fetches' # fetches
<1>1. \A g \in DOMAIN fetches : Rank(fetches[g].at) \in Nat /\ Rank(fetches'[g].at) \in Nat
    BY DEF Rank
<1>2. FetchesForward
    BY <1>1 DEF FetchesForward
<1>3. fetches' # fetches
    BY <1>1
<1>. QED
    BY <1>2, <1>3

LEMMA FetchDone ==
    ASSUME PageTypeOK, NEW f \in Fetching, fetches' = Fetched(f)
    PROVE  FetchesForward /\ fetches' # fetches
<1>1. f \in DOMAIN fetches /\ fetches \in Seq(Fetch) /\ fetches[f] \in Fetch
      /\ fetches[f].at \in {"asked", "replied"}
    BY FetchType DEF PageTypeOK, Fetching, Fetch
<1>2. fetches'[f].at = "done"
    BY <1>1 DEF Fetched, Fetch
<1>3. /\ DOMAIN fetches' = DOMAIN fetches
      /\ \A g \in DOMAIN fetches \ {f} : fetches'[g] = fetches[g]
    BY <1>1 DEF Fetched
<1>4. Rank(fetches[f].at) < Rank(fetches'[f].at)
    BY <1>1, <1>2 DEF Rank
<1>. QED
    BY <1>1, <1>3, <1>4, FetchMoves

LEMMA FetchReplied ==
    ASSUME PageTypeOK, NEW f \in DOMAIN fetches, ServeFetch(f)
    PROVE  FetchesForward /\ fetches' # fetches
<1>1. fetches \in Seq(Fetch) /\ fetches[f] \in Fetch /\ fetches[f].at = "asked"
    BY FetchType DEF PageTypeOK, ServeFetch
<1>. DEFINE new == [fetches[f] EXCEPT !.at = "replied", !.keys = KeysOf(fetches[f].of)]
<1>2. new.at = "replied"
    BY <1>1 DEF Fetch
<1>3. fetches' = [fetches EXCEPT ![f] = new]
    BY <1>1 DEF ServeFetch
<1>. HIDE DEF new
<1>4. /\ DOMAIN fetches' = DOMAIN fetches /\ fetches'[f] = new
      /\ \A g \in DOMAIN fetches \ {f} : fetches'[g] = fetches[g]
    BY <1>1, <1>3
<1>5. Rank(fetches[f].at) < Rank(fetches'[f].at)
    BY <1>1, <1>2, <1>4 DEF Rank
<1>. QED
    BY <1>4, <1>5, FetchMoves

(* A call that ends, and what is asked for when it ends.                    *)
LEMMA AnsweredForward ==
    ASSUME IInv, PageInv, CallsUnloaded, NEW r \in Requests, Answered(r)
    PROVE  LoadsForward /\ FetchesForward /\ CallsOnce /\ CallsUnloaded' /\ calls' # calls
<1>1. PageTypeOK
    BY PageType
<1>2. r \in calls /\ calls' = calls \ {r} /\ UNCHANGED apiVars
    BY DEF Answered, Created, KeyCreated
<1>3. CallsOnce /\ calls' # calls
    BY <1>2 DEF CallsOnce
<1>4. CASE r \in Creates
    <2>1. /\ fetches' = fetches
          /\ load' = (IF pc[r] = "ok" THEN [load EXCEPT ![r] = "asked"] ELSE load)
        BY <1>4 DEF Answered, Created
    <2>2. r \in Loads /\ load[r] = "none"
        BY <1>2, <1>4 DEF Loads, CallsUnloaded
    <2>3. Rank(load[r]) < Rank("asked")
        BY <2>2 DEF Rank
    <2>4. LoadsForward
        BY <1>1, <2>1, <2>2, <2>3, LoadMoves, LoadsStay
    <2>5. CallsUnloaded'
        BY <1>1, <1>2, <2>1, <2>2 DEF CallsUnloaded, PageTypeOK
    <2>. QED
        BY <1>1, <1>3, <2>1, <2>4, <2>5, FetchesStay
<1>5. CASE r \in KeyCreates
    <2>1. load' = load /\ r \notin Creates
        BY <1>5 DEF Answered, KeyCreated
    <2>2. fetches' = fetches \/ fetches' = Asked(wanted[r], TRUE)
        BY <1>5, <2>1 DEF Answered, KeyCreated
    <2>3. wanted[r] \in ProjectIds
        BY <1>2, <1>5 DEF PageInv, CallsAsked
    <2>4. FetchesForward
        BY <1>1, <2>2, <2>3, FetchesStay, FetchAsked
    <2>. QED
        BY <1>2, <1>3, <2>1, <2>4, LoadsStay DEF CallsUnloaded
<1>. QED
    BY <1>1, <1>2, <1>4, <1>5 DEF PageTypeOK

LEMMA LoadForward ==
    ASSUME PageTypeOK, CallsUnloaded, NEW l \in Loads,
           ServeLoad(l) \/ ApplyLoad(l) \/ LoseLoad(l), calls' = calls
    PROVE  LoadsForward /\ CallsOnce /\ CallsUnloaded' /\ load' # load
<1>1. \E at \in {"replied", "done"} :
          load' = [load EXCEPT ![l] = at] /\ Rank(load[l]) < Rank(at)
    BY DEF ServeLoad, ApplyLoad, LoseLoad, Loading, Rank
<1>2. LoadsForward /\ load' # load
    BY <1>1, LoadMoves
<1>3. load[l] # "none"
    BY DEF ServeLoad, ApplyLoad, LoseLoad, Loading
<1>4. CallsUnloaded'
    BY <1>1, <1>3 DEF CallsUnloaded, PageTypeOK, Loads
<1>. QED
    BY <1>2, <1>4 DEF CallsOnce

LEMMA PageMoves ==
    ASSUME IInv, PageInv, CallsUnloaded, Page
    PROVE  /\ LoadsForward /\ FetchesForward /\ CallsOnce /\ CallsUnloaded'
           /\ calls' # calls \/ load' # load \/ fetches' # fetches
<1>1. PageTypeOK
    BY PageType
<1>2. CASE \E r \in Requests : Answered(r)
    BY <1>2, AnsweredForward
<1>3. CASE \E l \in Loads : ServeLoad(l) \/ ApplyLoad(l)
    <2>1. PICK l \in Loads : ServeLoad(l) \/ ApplyLoad(l)
        BY <1>3
    <2>2. calls' = calls
        BY <2>1 DEF ServeLoad, ApplyLoad
    <2>3. LoadsForward /\ CallsOnce /\ CallsUnloaded' /\ load' # load
        BY <1>1, <2>1, <2>2, LoadForward
    <2>4. CASE ServeLoad(l)
        <3>1. fetches' = fetches
            BY <2>4 DEF ServeLoad
        <3>. QED
            BY <1>1, <2>3, <3>1, FetchesStay
    <2>5. CASE ApplyLoad(l)
        <3>1. (IF l = Mount THEN Default ELSE l) \in ProjectIds
            BY DEF Loads
        <3>2. FetchesForward
            BY <1>1, <2>5, <3>1, SelectForward DEF ApplyLoad
        <3>. QED
            BY <2>3, <3>2
    <2>. QED
        BY <2>1, <2>4, <2>5
<1>4. CASE \E f \in DOMAIN fetches : ServeFetch(f) \/ ApplyFetch(f)
    <2>1. PICK f \in DOMAIN fetches : ServeFetch(f) \/ ApplyFetch(f)
        BY <1>4
    <2>2. calls' = calls /\ load' = load
        BY <2>1 DEF ServeFetch, ApplyFetch
    <2>3. ApplyFetch(f) => f \in Fetching /\ fetches' = Fetched(f)
        BY DEF ApplyFetch, Fetching
    <2>4. FetchesForward /\ fetches' # fetches
        BY <1>1, <2>1, <2>3, FetchReplied, FetchDone
    <2>. QED
        BY <2>2, <2>4, LoadsStay DEF CallsOnce, CallsUnloaded
<1>. QED
    BY <1>2, <1>3, <1>4 DEF Page

LEMMA UserForward ==
    ASSUME IInv, PageInv, CallsUnloaded, User
    PROVE  LoadsForward /\ FetchesForward /\ CallsOnce /\ CallsUnloaded'
<1>1. PageTypeOK
    BY PageType
<1>2. load' = load /\ LoadsForward
    BY LoadsStay DEF User, Pick, ClickCreate, ClickCreateKey
<1>3. CASE \E p \in ProjectIds : Pick(p)
    <2>1. calls' = calls /\ FetchesForward
        BY <1>1, <1>3, SelectForward DEF Pick
    <2>. QED
        BY <1>2, <2>1 DEF CallsOnce, CallsUnloaded
<1>4. CASE \E c \in Creates, n \in Names : ClickCreate(c, n)
    <2>1. PICK c \in Creates, n \in Names : ClickCreate(c, n)
        BY <1>4
    <2>2. pc[c] = "idle" /\ calls' = calls \cup {c} /\ fetches' = fetches
        BY <2>1 DEF ClickCreate, CreateSelect, Arrives
    <2>3. c \in Loads /\ load[c] \in {"none", "asked", "replied", "done"}
        BY <1>1 DEF Loads, PageTypeOK
    <2>4. load[c] = "none"
        BY <2>2, <2>3 DEF PageInv, LoadsListed
    <2>. QED
        BY <1>1, <1>2, <2>2, <2>4, FetchesStay DEF CallsOnce, CallsUnloaded
<1>5. CASE \E k \in KeyCreates : ClickCreateKey(k)
    <2>1. PICK k \in KeyCreates : ClickCreateKey(k)
        BY <1>5
    <2>2. pc[k] = "idle" /\ calls' = calls \cup {k} /\ fetches' = fetches /\ k \notin Creates
        BY <2>1 DEF ClickCreateKey, CreateKeyLoad, Arrives
    <2>. QED
        BY <1>1, <1>2, <2>2, FetchesStay DEF CallsOnce, CallsUnloaded
<1>. QED
    BY <1>3, <1>4, <1>5 DEF User

LEMMA LoseForward ==
    ASSUME PageInv, CallsUnloaded, Lose
    PROVE  LoadsForward /\ FetchesForward /\ CallsOnce /\ CallsUnloaded'
<1>1. PageTypeOK
    BY PageType
<1>2. CASE \E r \in Requests : LoseCall(r)
    <2>1. calls' \subseteq calls /\ load' = load /\ fetches' = fetches
        BY <1>2 DEF LoseCall
    <2>. QED
        BY <1>1, <2>1, LoadsStay, FetchesStay DEF CallsOnce, CallsUnloaded
<1>3. CASE \E l \in Loads : LoseLoad(l)
    <2>1. PICK l \in Loads : LoseLoad(l)
        BY <1>3
    <2>2. calls' = calls /\ fetches' = fetches
        BY <2>1 DEF LoseLoad
    <2>. QED
        BY <1>1, <2>1, <2>2, LoadForward, FetchesStay
<1>4. CASE \E f \in DOMAIN fetches : LoseFetch(f)
    <2>1. PICK f \in DOMAIN fetches : LoseFetch(f)
        BY <1>4
    <2>2. f \in Fetching /\ fetches' = Fetched(f) /\ calls' = calls /\ load' = load
        BY <2>1 DEF LoseFetch
    <2>. QED
        BY <1>1, <2>2, LoadsStay, FetchDone DEF CallsOnce, CallsUnloaded
<1>. QED
    BY <1>2, <1>3, <1>4 DEF Lose

LEMMA ForwardStep ==
    ASSUME IInv, PageInv, CallsUnloaded, [Next]_vars
    PROVE  [Forward]_vars /\ CallsUnloaded'
<1>1. PageTypeOK
    BY PageType
<1>2. CASE pageVars' = pageVars
    <2>1. calls' = calls /\ load' = load /\ fetches' = fetches
        BY <1>2 DEF pageVars
    <2>2. LoadsForward /\ FetchesForward /\ CallsOnce /\ CallsUnloaded'
        BY <1>1, <2>1, LoadsStay, FetchesStay DEF CallsOnce, CallsUnloaded
    <2>. QED
        BY <2>2, PageMoves DEF Forward
<1>3. CASE User \/ Page \/ Lose
    BY <1>3, PageMoves, UserForward, LoseForward DEF Forward
<1>. QED
    BY <1>2, <1>3 DEF Next, Api, vars

(* What the page has asked for only moves on, and so its answers are among  *)
(* a bounded number of steps: the safety half of PageSettles.               *)
THEOREM PageMovesForward == Spec => [][Forward]_vars
<1>1. Init => CallsUnloaded
    BY DEF Init, CallsUnloaded
<1>2. IInv /\ PageInv /\ CallsUnloaded /\ [Next]_vars => [Forward]_vars /\ CallsUnloaded'
    BY ForwardStep
<1>. QED
    BY <1>1, <1>2, PageInvariance, PTL DEF Spec

(* No call of the page waits for anything but the API's commit.             *)
THEOREM PageCallsCanEnd == Spec => []CallsCanEnd
<1>1. IInv /\ PageInv => CallsCanEnd
    <2>. SUFFICES ASSUME IInv, PageInv, NEW r \in calls
                  PROVE  pc[r] \in Outcomes \cup {"commit"}
        BY DEF CallsCanEnd
    <2>1. pc[r] # "idle" /\ r \in Creates \cup KeyCreates
        BY DEF PageInv, PageTypeOK, CallsAsked
    <2>2. r \in Creates => pc[r] \in {"idle", "commit", "ok", "conflict", "error", "dead"}
        BY DEF IInv, NamesWanted
    <2>3. r \in KeyCreates => pc[r] \in Outcomes \cup {"idle", "commit"}
        BY DEF IInv, KeysWanted
    <2>. QED
        BY <2>1, <2>2, <2>3 DEF Outcomes
<1>. QED
    BY <1>1, PageInvariance, PTL
=============================================================================
