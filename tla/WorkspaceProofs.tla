--------------------------- MODULE WorkspaceProofs ---------------------------
(***************************************************************************)
(* Proofs about what the server knows of the workspace: the cache of the   *)
(* projects that may use Duo, the searches for context, the items and      *)
(* diffs that a search finds, the libraries that it reads in files, the    *)
(* open tabs that go along with a request, and the repositories of the     *)
(* folder.  The components share nothing, save that tabs are of projects;  *)
(* each part is about the specification of one.                            *)
(***************************************************************************)
EXTENDS AdvancedContext, AiContext, ContextItems, LocalGit, DependencyScan, Repositories,
        FiniteSetTheorems, SequenceTheorems, WellFoundedInduction, TLAPS

-----------------------------------------------------------------------------
(* ProjectAccess.  While nothing went wrong since the last configuration   *)
(* there is at most one refresh, the one that this configuration began: it *)
(* asks the configured instance about the configured folders, and the      *)
(* cache is empty until it is through.                                     *)

RefreshFields == {"id", "host", "folders", "read", "remotes"}

\* What a refresh that missed nothing has found after the walk.
RefreshIsExact(r) ==
  /\ r.host = access.asked.host /\ r.folders = access.asked.folders
  /\ r.read => r.remotes = gitlabRemotesForWorkspaceFolders(r, {})

RefreshesRunAlone ==
  ~access.mixed /\ ~access.failed =>
    /\ \A r, q \in refreshes : r = q
    /\ \A r \in refreshes : RefreshIsExact(r)
    /\ refreshes # {} => access.projects = <<>>

AccessInv ==
  /\ DOMAIN access = {"projects", "asked", "mixed", "failed"}
  /\ DOMAIN config = {"host", "folders", "changes"}
  /\ \A r \in refreshes : DOMAIN r = RefreshFields
  /\ refreshes # {} => access.asked.host = config.host
  /\ RefreshesRunAlone
  /\ AccessIsCurrent

LEMMA AccessInitInv == AccessInit => AccessInv
<1> SUFFICES ASSUME AccessInit PROVE AccessInv
  OBVIOUS
<1>1. DOMAIN access = {"projects", "asked", "mixed", "failed"}
  BY DEF AccessInit
<1>2. DOMAIN config = {"host", "folders", "changes"}
  BY DEF AccessInit
<1>3. access.asked.folders = {} /\ access.projects = <<>>
  BY DEF AccessInit
<1>4. AccessIsCurrent
  BY <1>3 DEF AccessIsCurrent
<1> QED BY <1>1, <1>2, <1>4 DEF AccessInit, AccessInv, RefreshesRunAlone

\* A configuration clears the cache and begins a refresh.
LEMMA ConfigurationKeeps ==
  ASSUME AccessInv, NEW host, NEW folders, DidChangeConfiguration(host, folders)
  PROVE  AccessInv'
<1>1. PICK n : refreshes' = refreshes \cup
                 {[id |-> n, host |-> host, folders |-> folders, read |-> FALSE, remotes |-> {}]}
  BY DEF DidChangeConfiguration, updateCache
<1>2. /\ access'.projects = <<>> /\ access'.failed = FALSE
      /\ access'.mixed = (refreshes # {})
      /\ access'.asked = [host |-> host, folders |-> folders]
      /\ DOMAIN access' = DOMAIN access
  BY DEF DidChangeConfiguration, updateCache, AccessInv
<1>3. config'.host = host /\ DOMAIN config' = {"host", "folders", "changes"}
  BY DEF DidChangeConfiguration
<1>4. access'.asked.host = host /\ access'.asked.folders = folders
  BY <1>2
<1>5. \A q \in refreshes' : DOMAIN q = RefreshFields
  BY <1>1 DEF AccessInv, RefreshFields
<1>6. RefreshesRunAlone'
  <2> SUFFICES ASSUME ~access'.mixed PROVE RefreshesRunAlone'
    BY DEF RefreshesRunAlone
  <2>1. refreshes = {}
    BY <1>2
  <2> QED BY <2>1, <1>1, <1>2, <1>4 DEF RefreshesRunAlone, RefreshIsExact
<1>7. refreshes' # {}
  BY <1>1
<1> QED BY <1>2, <1>3, <1>4, <1>5, <1>6, <1>7 DEF AccessInv, AccessIsCurrent, Settled

\* The folders of the client's workspace are not those of the cache.
LEMMA FoldersKeep ==
  ASSUME AccessInv, NEW added, NEW removed, DidChangeWorkspaceFolders(added, removed)
  PROVE  AccessInv'
<1>1. access' = access /\ refreshes' = refreshes
  BY DEF DidChangeWorkspaceFolders
<1>2. config'.host = config.host /\ DOMAIN config' = {"host", "folders", "changes"}
  BY DEF DidChangeWorkspaceFolders, AccessInv
<1> QED
  BY <1>1, <1>2 DEF AccessInv, RefreshesRunAlone, RefreshIsExact, AccessIsCurrent, Settled,
                    gitlabRemotesForWorkspaceFolders

LEMMA WalkKeeps ==
  ASSUME AccessInv, NEW r \in refreshes, NEW unreadable, FoldersWalked(r, unreadable)
  PROVE  AccessInv'
<1> DEFINE q == [r EXCEPT !.read = TRUE,
                          !.remotes = gitlabRemotesForWorkspaceFolders(r, unreadable)]
<1>1. refreshes' = (refreshes \ {r}) \cup {q} /\ config' = config
  BY DEF FoldersWalked
<1>2. /\ access'.projects = access.projects /\ access'.asked = access.asked
      /\ access'.mixed = access.mixed /\ DOMAIN access' = DOMAIN access
      /\ ~access'.failed => ~access.failed /\ unreadable = {}
  BY DEF FoldersWalked, AccessInv
<1>3. /\ q.host = r.host /\ q.folders = r.folders
      /\ q.remotes = gitlabRemotesForWorkspaceFolders(r, unreadable)
      /\ DOMAIN q = RefreshFields
  BY DEF AccessInv, RefreshFields
<1> HIDE DEF q
<1>4. RefreshesRunAlone'
  <2> SUFFICES ASSUME ~access'.mixed, ~access'.failed PROVE RefreshesRunAlone'
    BY DEF RefreshesRunAlone
  <2>1. refreshes = {r} /\ RefreshIsExact(r) /\ access.projects = <<>> /\ unreadable = {}
    BY <1>2 DEF AccessInv, RefreshesRunAlone
  <2>2. refreshes' = {q}
    BY <1>1, <2>1
  <2>3. gitlabRemotesForWorkspaceFolders(q, {}) = gitlabRemotesForWorkspaceFolders(r, {})
    BY <1>3 DEF gitlabRemotesForWorkspaceFolders
  <2>4. RefreshIsExact(q)'
    BY <1>2, <1>3, <2>1, <2>3 DEF RefreshIsExact, gitlabRemotesForWorkspaceFolders
  <2> QED BY <1>2, <2>1, <2>2, <2>4 DEF RefreshesRunAlone
<1>5. refreshes' # {} /\ \A p \in refreshes' : DOMAIN p = RefreshFields
  BY <1>1, <1>3 DEF AccessInv
<1> QED BY <1>1, <1>2, <1>4, <1>5 DEF AccessInv, AccessIsCurrent, Settled

LEMMA FailedWalkKeeps ==
  ASSUME AccessInv, NEW r \in refreshes, WalkOfFoldersFails(r)
  PROVE  AccessInv'
<1>1. refreshes' = refreshes \ {r} /\ config' = config
  BY DEF WalkOfFoldersFails
<1>2. access'.failed = TRUE /\ access'.asked = access.asked /\ DOMAIN access' = DOMAIN access
  BY DEF WalkOfFoldersFails, AccessInv
<1> QED BY <1>1, <1>2 DEF AccessInv, RefreshesRunAlone, AccessIsCurrent, Settled

\* What a refresh that missed nothing has found is what there is.
LEMMA FoundIsThere ==
  ASSUME NEW r, NEW f \in r.folders, r.remotes = gitlabRemotesForWorkspaceFolders(r, {})
  PROVE  {[root |-> m.root, enabled |-> m.path \in DuoEnabled[r.host]] :
            m \in {n \in r.remotes : n.folder = f}}
           = projectsFor(f, r.host)
<1> DEFINE A == {m \in r.remotes : m.folder = f}
           B == {x \in GitConfigs \X Remotes : x[1].folder = f /\ x[2] \in parseRemotes(x[1], r.host)}
           M(x) == [folder |-> x[1].folder, root |-> x[1].root, path |-> x[2].path]
           S(root, path) == [root |-> root, enabled |-> path \in DuoEnabled[r.host]]
           P(m) == S(m.root, m.path)
           Q(x) == S(x[1].root, x[2].path)
<1>1. r.remotes = {M(x) : x \in {x \in GitConfigs \X Remotes :
                           x[1].folder \in r.folders /\ x[2] \in parseRemotes(x[1], r.host)}}
  BY DEF gitlabRemotesForWorkspaceFolders
<1>2. \A x : M(x).folder = x[1].folder /\ M(x).root = x[1].root /\ M(x).path = x[2].path
  OBVIOUS
<1> HIDE DEF M, S
<1>3. \A m \in A : \E x \in B : P(m) = Q(x)
  BY <1>1, <1>2
<1>4. \A x \in B : M(x) \in A /\ P(M(x)) = Q(x)
  BY <1>1, <1>2
<1>5. {P(m) : m \in A} = {Q(x) : x \in B}
  BY <1>3, <1>4
<1> QED BY <1>5 DEF projectsFor, S

LEMMA RefreshedKeeps ==
  ASSUME AccessInv, NEW r \in refreshes, NEW failing, Refreshed(r, failing)
  PROVE  AccessInv'
<1>1. refreshes' = refreshes \ {r} /\ config' = config
  BY DEF Refreshed
<1>2. /\ access'.asked = access.asked /\ access'.mixed = access.mixed
      /\ DOMAIN access' = DOMAIN access
      /\ ~access'.failed => ~access.failed /\ failing = {}
  BY DEF Refreshed, AccessInv
<1>3. access'.projects =
        [f \in DOMAIN access.projects \cup r.folders |->
          IF f \notin r.folders THEN access.projects[f]
          ELSE {[root |-> m.root, enabled |-> checkDuoFeaturesEnabled(m.path, failing)] :
                  m \in {n \in r.remotes : n.folder = f}}]
  BY DEF Refreshed, AccessInv
<1>4. CASE access'.mixed \/ access'.failed
  BY <1>1, <1>2, <1>4 DEF AccessInv, RefreshesRunAlone, AccessIsCurrent, Settled
<1>5. CASE ~access'.mixed /\ ~access'.failed
  <2>1. /\ refreshes = {r} /\ RefreshIsExact(r) /\ access.projects = <<>>
        /\ failing = {} /\ r.host = config.host
    BY <1>2, <1>5 DEF AccessInv, RefreshesRunAlone, RefreshIsExact
  <2>2. r.remotes = gitlabRemotesForWorkspaceFolders(r, {})
    BY <2>1 DEF RefreshIsExact, Refreshed
  <2>3. \A p : checkDuoFeaturesEnabled(p, failing) = (p \in DuoEnabled[r.host])
    BY <2>1 DEF checkDuoFeaturesEnabled
  <2>4. \A f \in r.folders :
          {[root |-> m.root, enabled |-> checkDuoFeaturesEnabled(m.path, failing)] :
                  m \in {n \in r.remotes : n.folder = f}} = projectsFor(f, r.host)
    BY <2>2, <2>3, FoundIsThere
  <2>5. DOMAIN access.projects \cup r.folders = r.folders
    BY <2>1
  <2>6. access'.projects = [f \in r.folders |-> projectsFor(f, r.host)]
    BY <1>3, <2>4, <2>5
  <2>7. AccessIsCurrent'
    BY <1>2, <2>1, <2>6 DEF AccessIsCurrent, RefreshIsExact, projectsFor, parseRemotes
  <2> QED BY <1>1, <1>2, <2>1, <2>7 DEF AccessInv, RefreshesRunAlone
<1> QED BY <1>4, <1>5

LEMMA AccessStepKeeps == AccessInv /\ [AccessNext]_accessVars => AccessInv'
<1> SUFFICES ASSUME AccessInv, [AccessNext]_accessVars PROVE AccessInv'
  OBVIOUS
<1>1. CASE ClientChanges
  BY <1>1, ConfigurationKeeps, FoldersKeep DEF ClientChanges
<1>2. CASE AccessProceeds
  BY <1>2, WalkKeeps, FailedWalkKeeps, RefreshedKeeps DEF AccessProceeds
<1>3. CASE UNCHANGED accessVars
  BY <1>3 DEF accessVars, AccessInv, RefreshesRunAlone, RefreshIsExact, AccessIsCurrent, Settled,
              gitlabRemotesForWorkspaceFolders
<1> QED BY <1>1, <1>2, <1>3 DEF AccessNext

\* Whatever the folders, the remotes and the instances are, and however
\* changes of the client fall between the awaits of a refresh: a cache that is
\* settled is that of the last configuration.
THEOREM AccessIsCurrentCorrect == AccessSpec => []AccessIsCurrent
<1>1. AccessInv => AccessIsCurrent
  BY DEF AccessInv
<1> QED BY <1>1, AccessInitInv, AccessStepKeeps, PTL DEF AccessSpec

-----------------------------------------------------------------------------
(* AiContext.  A search that began while none of its provider was at work  *)
(* waits for the timer, or for runs that began after it: the timer and     *)
(* those runs ask what it asks, or what a later search asks.               *)

RunFields == {"provider", "debounced", "asks", "stage", "missing", "account"}

Numbered ==
  /\ calls \in Nat
  /\ DOMAIN timers = Debounced /\ \A p \in Debounced : timers[p] \in 0 .. calls
  /\ \A r \in runs : DOMAIN r = RunFields /\ r.asks \in 0 .. calls
  /\ \A s \in searches : s.id \in 0 .. calls

WaitsForItsQuery(s) ==
  s.debounced /\ ~s.crossed =>
    /\ s.provider \in Debounced /\ (timers[s.provider] = 0 \/ timers[s.provider] >= s.id)
    /\ \A r \in runs : r.provider = s.provider /\ r.debounced => r.asks >= s.id

SearchInv ==
  /\ Numbered
  /\ \A s \in searches : WaitsForItsQuery(s)
  /\ SearchesAnswerTheQuery

LEMMA SearchInitInv == ContextInit => SearchInv
BY DEF ContextInit, SearchInv, Numbered, SearchesAnswerTheQuery

LEMMA NewSearchKeeps ==
  ASSUME SearchInv, NEW p, NEW empty, SearchContextItems(p, empty)
  PROVE  SearchInv'
<1>1. calls' = calls + 1 /\ answered' = answered /\ calls' \in Nat
  BY DEF SearchContextItems, call, SearchInv, Numbered
<1>2. PICK s : /\ searches' = searches \cup {s}
               /\ s.id = calls' /\ s.provider = p /\ (s.debounced <=> debounces(p, empty))
               /\ ~s.crossed => \A r \in runs : ~(r.provider = p /\ r.debounced)
  <2> DEFINE s == [id |-> calls', provider |-> p, debounced |-> debounces(p, empty),
                   crossed |-> \E r \in runs : r.provider = p /\ r.debounced]
  <2>1. searches' = searches \cup {s}
    BY DEF SearchContextItems
  <2>2. /\ s.id = calls' /\ s.provider = p /\ (s.debounced <=> debounces(p, empty))
        /\ ~s.crossed => \A r \in runs : ~(r.provider = p /\ r.debounced)
    OBVIOUS
  <2> HIDE DEF s
  <2> QED BY <2>1, <2>2
<1>4. CASE debounces(p, empty)
  <2>1. p \in Debounced /\ timers' = [timers EXCEPT ![p] = calls'] /\ runs' = runs
    BY <1>4 DEF debounces, SearchContextItems, latestQuery
  <2>2. Numbered'
    BY <1>1, <1>2, <2>1 DEF Numbered, SearchInv
  <2>3. \A x \in searches : WaitsForItsQuery(x)'
    BY <1>1, <2>1 DEF SearchInv, Numbered, WaitsForItsQuery
  <2>4. WaitsForItsQuery(s)'
    BY <1>1, <1>2, <1>4, <2>1 DEF SearchInv, Numbered, WaitsForItsQuery
  <2> QED BY <1>1, <1>2, <2>2, <2>3, <2>4 DEF SearchInv, SearchesAnswerTheQuery
<1>5. CASE ~debounces(p, empty)
  <2>1. PICK q : /\ runs' = runs \cup {q} /\ timers' = timers
                 /\ q.provider = p /\ ~q.debounced /\ q.asks = calls' /\ DOMAIN q = RunFields
    <3> DEFINE q == [provider |-> p, debounced |-> FALSE, asks |-> calls',
                     stage |-> "finding", missing |-> {}, account |-> NoAccount]
    <3>1. runs' = runs \cup {q} /\ timers' = timers
      BY <1>5, Zenon DEF SearchContextItems
    <3>2. q.provider = p /\ ~q.debounced /\ q.asks = calls' /\ DOMAIN q = RunFields
      BY DEF RunFields
    <3> HIDE DEF q
    <3> QED BY <3>1, <3>2
  <2>2. Numbered'
    BY <1>1, <1>2, <2>1 DEF Numbered, SearchInv
  <2>3. \A x \in searches : WaitsForItsQuery(x)'
    BY <2>1 DEF SearchInv, WaitsForItsQuery
  <2>4. WaitsForItsQuery(s)'
    BY <1>2, <1>5 DEF WaitsForItsQuery
  <2> QED BY <1>1, <1>2, <2>2, <2>3, <2>4 DEF SearchInv, SearchesAnswerTheQuery
<1> QED BY <1>4, <1>5

\* The run asks what the timer kept, which is the query of the latest search.
LEMMA TimerKeeps ==
  ASSUME SearchInv, NEW p \in Debounced, DebounceFires(p)
  PROVE  SearchInv'
<1> DEFINE q == [provider |-> p, debounced |-> TRUE, asks |-> timers[p], stage |-> "finding",
                 missing |-> {}, account |-> NoAccount]
<1>1. /\ timers[p] # 0 /\ timers' = [timers EXCEPT ![p] = 0] /\ runs' = runs \cup {q}
      /\ UNCHANGED <<searches, answered, calls>>
  BY DEF DebounceFires
<1>2. q.provider = p /\ q.asks = timers[p] /\ DOMAIN q = RunFields
  BY DEF RunFields
<1> HIDE DEF q
<1>3. Numbered'
  BY <1>1, <1>2 DEF SearchInv, Numbered
<1>4. ASSUME NEW s \in searches PROVE WaitsForItsQuery(s)'
  BY <1>1, <1>2 DEF SearchInv, Numbered, WaitsForItsQuery
<1> QED BY <1>1, <1>3, <1>4 DEF SearchInv, SearchesAnswerTheQuery

\* Every call that a run resolves had to wait for it.
LEMMA AnswerKeeps ==
  ASSUME SearchInv, NEW r \in runs, answer(r), UNCHANGED <<timers, calls>>
  PROVE  SearchInv'
<1>1. /\ searches' = searches \ resolved(r) /\ runs' = runs \ {r}
      /\ answered' = answered \cup
           {[call |-> s.id, asks |-> r.asks, crossed |-> s.crossed] : s \in resolved(r)}
  BY DEF answer
<1>2. ASSUME NEW s \in resolved(r), ~s.crossed PROVE r.asks >= s.id
  <2>1. s \in searches /\ s.id \in Nat /\ r.asks \in Nat
    BY DEF resolved, SearchInv, Numbered
  <2>2. CASE r.debounced
    BY <1>2, <2>1, <2>2 DEF resolved, SearchInv, WaitsForItsQuery
  <2>3. CASE ~r.debounced
    BY <2>1, <2>3 DEF resolved
  <2> QED BY <2>2, <2>3
<1>3. ASSUME NEW a \in answered', ~a.crossed PROVE a.asks >= a.call
  <2>1. CASE a \in answered
    BY <1>3, <2>1 DEF SearchInv, SearchesAnswerTheQuery
  <2>2. CASE a \notin answered
    <3>1. PICK s \in resolved(r) : a = [call |-> s.id, asks |-> r.asks, crossed |-> s.crossed]
      BY <1>1, <2>2
    <3>2. a.call = s.id /\ a.asks = r.asks /\ ~s.crossed
      BY <1>3, <3>1
    <3> QED BY <1>2, <3>2
  <2> QED BY <2>1, <2>2
<1>4. Numbered'
  BY <1>1 DEF SearchInv, Numbered
<1>5. \A s \in searches' : WaitsForItsQuery(s)'
  BY <1>1 DEF SearchInv, WaitsForItsQuery
<1> QED BY <1>3, <1>4, <1>5 DEF SearchInv, SearchesAnswerTheQuery

LEMMA FoundKeeps ==
  ASSUME SearchInv, NEW r \in runs, NEW ok, Found(r, ok)
  PROVE  SearchInv'
<1> DEFINE q == [r EXCEPT !.stage = "projects", !.missing = missingFromCache(r.provider),
                          !.account = account.name]
<1>1. UNCHANGED <<timers, calls>>
  BY DEF Found
<1>2. CASE answer(r)
  BY <1>1, <1>2, AnswerKeeps
<1>3. CASE runs' = (runs \ {r}) \cup {q} /\ UNCHANGED <<searches, answered>>
  <2>1. /\ q.provider = r.provider /\ q.debounced = r.debounced /\ q.asks = r.asks
        /\ DOMAIN q = RunFields
    BY DEF SearchInv, Numbered, RunFields
  <2> HIDE DEF q
  <2>2. Numbered'
    BY <1>1, <1>3, <2>1 DEF SearchInv, Numbered
  <2>3. \A s \in searches : WaitsForItsQuery(s)'
    BY <1>1, <1>3, <2>1 DEF SearchInv, WaitsForItsQuery
  <2> QED BY <1>3, <2>2, <2>3 DEF SearchInv, SearchesAnswerTheQuery
<1> QED BY <1>2, <1>3 DEF Found

LEMMA SearchStutters ==
  ASSUME SearchInv, UNCHANGED <<timers, runs, searches, answered>>,
         calls' = calls \/ (calls' = calls + 1)
  PROVE  SearchInv'
<1>1. Numbered'
  BY DEF SearchInv, Numbered
<1> QED BY <1>1 DEF SearchInv, WaitsForItsQuery, SearchesAnswerTheQuery

LEMMA SearchStepKeeps == SearchInv /\ [ContextNext]_contextVars => SearchInv'
<1> SUFFICES ASSUME SearchInv, [ContextNext]_contextVars PROVE SearchInv'
  OBVIOUS
<1>1. ASSUME NEW p, NEW empty, SearchContextItems(p, empty) PROVE SearchInv'
  BY <1>1, NewSearchKeeps
<1>2. ASSUME NEW p \in Debounced, DebounceFires(p) PROVE SearchInv'
  BY <1>2, TimerKeeps
<1>3. ASSUME NEW r \in runs, NEW ok, Found(r, ok) PROVE SearchInv'
  BY <1>3, FoundKeeps
<1>4. ASSUME NEW r \in runs, NEW ok, ProjectsAnswered(r, ok) PROVE SearchInv'
  BY <1>4, AnswerKeeps DEF ProjectsAnswered
<1>5. ASSUME UNCHANGED <<timers, runs, searches, answered>>,
             calls' = calls \/ (calls' = calls + 1)
      PROVE  SearchInv'
  BY <1>5, SearchStutters
<1>6. CASE UNCHANGED contextVars \/ \E name \in Accounts : Reconfigured(name)
  BY <1>5, <1>6 DEF contextVars, selectionVars, Reconfigured
<1>7. CASE GetAvailableCategories \/ ClearSelectedContextItems \/ RetrieveContextItemsWithContent
  BY <1>5, <1>7 DEF GetAvailableCategories, ClearSelectedContextItems,
                    RetrieveContextItemsWithContent, call
<1>8. ASSUME NEW p, NEW i, AddSelectedContextItem(p, i) \/ RemoveSelectedContextItem(p, i)
      PROVE  SearchInv'
  BY <1>5, <1>8 DEF AddSelectedContextItem, RemoveSelectedContextItem, call
<1>9. ASSUME NEW i, NEW ok, FeaturesAnswered(i, ok) PROVE SearchInv'
  BY <1>5, <1>9 DEF FeaturesAnswered
<1>10. ASSUME NEW r \in retrievals,
              Retrieved(r) \/ \E x \in r.waits, ok \in BOOLEAN : ContentArrives(r, x, ok)
       PROVE  SearchInv'
  BY <1>5, <1>10 DEF Retrieved, ContentArrives
<1>11. CASE Client
  BY <1>1, <1>7, <1>8, <1>11 DEF Client
<1>12. CASE ContextProceed
  BY <1>2, <1>3, <1>4, <1>9, <1>10, <1>12 DEF ContextProceed
<1> QED BY <1>6, <1>11, <1>12 DEF ContextNext

\* Whatever the providers and however searches, timers and answers follow each
\* other: no search that began while none of its provider was at work is
\* answered with what an older query found.
THEOREM SearchesAnswerTheQueryCorrect == ContextSpec => []SearchesAnswerTheQuery
<1>1. SearchInv => SearchesAnswerTheQuery
  BY DEF SearchInv
<1> QED BY <1>1, SearchInitInv, SearchStepKeeps, PTL DEF ContextSpec

-----------------------------------------------------------------------------
(* ContextItems.  The policy in force is the one of the content that was   *)
(* read last, and merge requests that were selected when the results came  *)
(* are not among them while nothing is selected.                           *)

PolicyKinds == {"missing", "unreadable", "empty", "comments", "mapping"}
Policies ==
  /\ DOMAIN policyFiles = Folders
  /\ \A folder \in Folders : policyFiles[folder].is \in PolicyKinds
  /\ policySource.is \in PolicyKinds \ {"comments"}
  /\ policy = policyIn(policySource)

\* A search that nothing crossed has no merge request that is selected now.
UnselectedFound ==
  finding.stage = "projects" /\ finding.category = "merge_request" /\ ~finding.crossed
    => finding.results \cap selectedIssuables = {}

FindingFields ==
  {"category", "pending", "results", "stage", "items", "crossed", "selections"}

ItemsInv ==
  /\ DOMAIN finding = FindingFields
  /\ finding # Idle => found = NoResult
  /\ finding.category # "open_tab"
  /\ Policies /\ UnselectedFound /\ ItemsAreThosePermitted

LEMMA NothingFound == NoResult.category = "none" /\ Idle.stage = "none"
                      /\ Idle.category = "none" /\ DOMAIN Idle = FindingFields
BY DEF NoResult, Idle, FindingFields

LEMMA ItemsInitInv == ItemsInit => ItemsInv
<1> SUFFICES ASSUME ItemsInit PROVE ItemsInv
  OBVIOUS
<1>1. Policies
  BY DEF ItemsInit, Policies, NoFile, DefaultPolicy, policyIn, PolicyKinds
<1>2. UnselectedFound /\ ItemsAreThosePermitted
  BY NothingFound DEF ItemsInit, UnselectedFound, ItemsAreThosePermitted
<1> QED BY <1>1, <1>2, NothingFound DEF ItemsInit, ItemsInv

\* What a content means for a path, and what the policy read from it does.
LEMMA PolicyMeansContent ==
  ASSUME NEW source, source.is \in PolicyKinds \ {"comments"}, NEW f
  PROVE  isContextItemAllowed(policyIn(source), f)
           <=> FolderOf[f] # NoFolder /\ permits(source, PathOf[f])
<1>1. CASE source.is = "mapping"
  BY <1>1 DEF isContextItemAllowed, policyIn, permits
<1>2. CASE source.is # "mapping"
  <2>1. policyIn(source) = [type |-> "allow", exclude |-> {}]
    BY <1>2 DEF policyIn, PolicyKinds, DefaultPolicy
  <2> QED BY <1>2, <2>1 DEF isContextItemAllowed, permits
<1> QED BY <1>1, <1>2

\* Nothing that is found changes with what is read or written of policies.
LEMMA PolicyStepKeeps ==
  ASSUME ItemsInv, NEW folder \in Folders,
         PolicyInit(folder) \/ PolicyRead(folder) \/ PolicyWritten(folder)
  PROVE  ItemsInv'
<1>1. CASE PolicyInit(folder)
  BY <1>1 DEF PolicyInit, ItemsInv, Policies, UnselectedFound, ItemsAreThosePermitted
<1>2. CASE PolicyRead(folder)
  <2>1. Policies'
    BY <1>2 DEF PolicyRead, ItemsInv, Policies
  <2> QED BY <1>2, <2>1 DEF PolicyRead, ItemsInv, UnselectedFound, ItemsAreThosePermitted
<1>3. CASE PolicyWritten(folder)
  <2>1. Policies'
    BY <1>3, PolicyContentsKnown DEF PolicyWritten, ItemsInv, Policies, PolicyKinds
  <2>2. ItemsAreThosePermitted'
    BY <1>3, NothingFound DEF PolicyWritten, ItemsAreThosePermitted
  <2> QED BY <1>3, <2>1, <2>2 DEF PolicyWritten, ItemsInv, UnselectedFound
<1> QED BY <1>1, <1>2, <1>3

\* Any answer ends the search.
LEMMA FoundItemsKeep ==
  ASSUME ItemsInv, NEW category, NEW items, NEW crossed, Answered(category, items, crossed),
         category = "open_tab" => items = {tabItem(f) : f \in ContextFiles},
         category = "merge_request" /\ ~crossed
           => {e.of : e \in items} \cap selectedIssuables = {}
  PROVE  ItemsInv'
<1>1. /\ found'.category = category /\ found'.items = items
      /\ found'.crossed = crossed /\ found'.source = policySource
  BY DEF Answered
<1>2. ASSUME category = "open_tab", NEW e \in items
      PROVE  e.enabled <=> /\ contents[e.of] # "binary" /\ FolderOf[e.of] # NoFolder
                           /\ FolderOf[e.of] \notin disabledFolders
                           /\ permits(policySource, PathOf[e.of])
  <2>1. PICK f \in ContextFiles : e = tabItem(f)
    BY <1>2
  <2>2. /\ e.of = f
        /\ e.enabled = (/\ contents[f] # "binary" /\ FolderOf[f] \notin disabledFolders
                        /\ isContextItemAllowed(policy, f))
    BY <2>1, Zenon DEF tabItem, Entry
  <2> QED BY <2>2, PolicyMeansContent DEF ItemsInv, Policies
<1>3. ItemsAreThosePermitted'
  BY <1>1, <1>2 DEF ItemsAreThosePermitted, Answered, known
<1>4. Policies' /\ UnselectedFound'
  BY NothingFound DEF Answered, known, ItemsInv, Policies, UnselectedFound
<1>5. finding' = Idle
  BY DEF Answered
<1>6. DOMAIN finding' = FindingFields /\ finding'.category # "open_tab"
  BY <1>5, NothingFound
<1> QED BY <1>3, <1>4, <1>5, <1>6 DEF ItemsInv

\* A search under way has found nothing yet.
LEMMA SearchKeeps ==
  ASSUME ItemsInv, found' = NoResult, UNCHANGED <<policyFiles, policy, policySource>>,
         DOMAIN finding' = FindingFields, finding'.category # "open_tab", UnselectedFound'
  PROVE  ItemsInv'
BY NothingFound DEF ItemsInv, Policies, ItemsAreThosePermitted

LEMMA ItemsStepKeeps == ItemsInv /\ [ItemsNext]_itemVars => ItemsInv'
<1> SUFFICES ASSUME ItemsInv, [ItemsNext]_itemVars PROVE ItemsInv'
  OBVIOUS
<1>1. CASE UNCHANGED itemVars
  BY <1>1 DEF itemVars, ItemsInv, Policies, UnselectedFound, ItemsAreThosePermitted
<1>2. CASE SearchOpenTabs
  <2> DEFINE items == {tabItem(f) : f \in ContextFiles}
  <2>1. Answered("open_tab", items, FALSE) /\ items = {tabItem(f) : f \in ContextFiles}
    BY <1>2 DEF SearchOpenTabs
  <2> HIDE DEF items
  <2> QED BY <2>1, FoundItemsKeep
<1>3. ASSUME NEW category \in {"file", "merge_request", "issue"}, SearchBegins(category)
      PROVE  ItemsInv'
  <2>1. finding'.stage = "asked" /\ finding'.category = category /\ DOMAIN finding' = FindingFields
    BY <1>3 DEF SearchBegins, Idle, FindingFields
  <2> QED BY <1>3, <2>1, SearchKeeps DEF SearchBegins, known, UnselectedFound
<1>4. ASSUME NEW f, LocalFileRead(f) PROVE ItemsInv'
  <2>1. /\ finding'.category = "file" /\ DOMAIN finding' = FindingFields
        /\ finding.category # Idle.category
    BY <1>4 DEF LocalFileRead, ItemsInv, FindingFields, Idle
  <2>2. found' = NoResult
    BY <1>4, <2>1 DEF LocalFileRead, ItemsInv
  <2> QED BY <1>4, <2>1, <2>2, SearchKeeps DEF LocalFileRead, known, UnselectedFound
<1>5. CASE LocalFilesFound
  BY <1>5, FoundItemsKeep DEF LocalFilesFound
<1>6. CASE IssuablesArrive
  <2>1. PICK results : finding' = [finding EXCEPT
          !.results = notSelected(finding.category, results),
          !.stage = "projects", !.crossed = FALSE]
    BY <1>6 DEF IssuablesArrive
  <2>2. /\ finding'.category = finding.category /\ DOMAIN finding' = FindingFields
        /\ finding'.results = notSelected(finding.category, results)
        /\ finding.category # Idle.category
    BY <1>6, <2>1 DEF IssuablesArrive, ItemsInv, FindingFields, Idle
  <2>3. UnselectedFound'
    BY <1>6, <2>2 DEF IssuablesArrive, known, notSelected, UnselectedFound
  <2> QED BY <1>6, <2>2, <2>3, SearchKeeps DEF IssuablesArrive, known, ItemsInv
<1>7. CASE ProjectStatusesArrive
  <2> DEFINE items == {Entry(x, x \notin disabledIssuables) : x \in finding.results}
  <2>1. \A x, enabled : Entry(x, enabled).of = x
    BY Zenon DEF Entry
  <2>2. {e.of : e \in items} \subseteq finding.results
    BY <2>1
  <2>3. Answered(finding.category, items, finding.crossed)
    BY <1>7 DEF ProjectStatusesArrive
  <2> HIDE DEF items
  <2> QED BY <1>7, <2>2, <2>3, FoundItemsKeep DEF ProjectStatusesArrive, ItemsInv, UnselectedFound
<1>8. CASE IssuablesFail
  <2> DEFINE items == {}
  <2>1. Answered(finding.category, items, finding.crossed) /\ {e.of : e \in items} = {}
    BY <1>8 DEF IssuablesFail
  <2> HIDE DEF items
  <2> QED BY <1>8, <2>1, FoundItemsKeep DEF ItemsInv
<1>9. ASSUME NEW x, SelectIssuable(x) PROVE ItemsInv'
  <2>1. finding'.crossed = TRUE /\ finding'.category = finding.category /\ DOMAIN finding' = FindingFields
    BY <1>9 DEF SelectIssuable, ItemsInv, FindingFields
  <2> QED BY <1>9, <2>1, SearchKeeps DEF SelectIssuable, ItemsInv, UnselectedFound
<1> QED
  BY <1>1, <1>2, <1>3, <1>4, <1>5, <1>6, <1>7, <1>8, <1>9, PolicyStepKeeps DEF ItemsNext

\* Whatever the files, policies and projects are, and whatever is read, written or selected
\* during a search: an open tab is enabled exactly if the policy read last and its project
\* permit it, and no merge request selected before the answer is offered.
THEOREM ItemsAreThosePermittedCorrect == ItemsSpec => []ItemsAreThosePermitted
<1>1. ItemsInv => ItemsAreThosePermitted
  BY DEF ItemsInv
<1> QED BY <1>1, ItemsInitInv, ItemsStepKeeps, PTL DEF ItemsSpec

-----------------------------------------------------------------------------
(* LocalGit.  While no checkout changes, what a read of it found agrees    *)
(* with it, whichever reads were made before.                              *)

\* The main branch of a checkout whose remote knows no more than it does.
mainBranchOf(c) ==
  CASE c.origin = "unreadable" -> Short("main")
    [] c.origin = "ref" -> Short(c.default)
    [] OTHER -> tryGetMainBranchFromLocalBranches(c)

\* How far the reads of a branch are, if the checkout has the right remote.
ReadingAgrees(c, reading) ==
  /\ reading.at \in {"branch", "remotes", "remote", "local", "done"}
  /\ reading.at = "remote" => c.origin \notin {"unreadable", "none", "ref"}
  /\ reading.at = "local" => c.origin \notin {"unreadable", "ref"}
  /\ reading.at = "done" => reading.value = mainBranchOf(c)

InfoAgrees(info, c) ==
  /\ c.origin # "remote" =>
       /\ ReadingAgrees(c, info.mainBranch) /\ info.mainBranch.at # "branch"
       /\ c.head = "detached" => ReadingAgrees(c, info.currentBranch)
       /\ c.head # "detached" =>
            /\ info.currentBranch.at \in {"branch", "done"}
            /\ info.currentBranch.at = "done" => info.currentBranch.value = Short(c.head)
  /\ info.allBranches.at = "done" =>
       info.allBranches.value = {Short(b) : b \in c.branches}

IsReading(x) == x = [at |-> x.at, value |-> x.value]
IsInfo(info) ==
  /\ info = [mainBranch |-> info.mainBranch, currentBranch |-> info.currentBranch,
             allBranches |-> info.allBranches, headRef |-> info.headRef]
  /\ IsReading(info.mainBranch) /\ IsReading(info.currentBranch)
  /\ IsReading(info.allBranches) /\ IsReading(info.headRef)

LocalGitTypes ==
  /\ repositories \in Seq(Repositories)
  /\ checkouts \in [Repositories -> Checkouts]
  /\ search = [order |-> search.order, infos |-> search.infos, crossed |-> search.crossed,
               changes |-> search.changes]
  /\ search.order \in Seq(Repositories)
  /\ searching => /\ search.infos = [r \in ToSet(search.order) |-> search.infos[r]]
                  /\ \A r \in ToSet(search.order) : IsInfo(search.infos[r])

SearchAgrees ==
  searching /\ ~search.crossed =>
    \A r \in ToSet(search.order) : InfoAgrees(search.infos[r], checkouts[r])

\* What is offered for one repository.
offers(r, info) == {x.branch : x \in getStaticOptionsForRepository(r, info)}

\* The branches that EveryBranchIsOffered wants of a checkout.
BranchesAre(c, titles) ==
  c.origin # "remote" =>
    /\ c.head # "detached" =>
         {Short(b) : b \in c.branches \ {c.head}} \cup {HEAD} \subseteq titles
    /\ Short(c.head) \notin titles
    /\ c.head = "detached" =>
         Cardinality({Short(b) : b \in c.branches} \ titles) <= 1

OfferAgrees ==
  /\ offered = [items |-> offered.items, query |-> offered.query, crossed |-> offered.crossed,
                order |-> offered.order, checkouts |-> offered.checkouts,
                diffs |-> offered.diffs]
  /\ EveryBranchIsOffered

GitInv == LocalGitTypes /\ SearchAgrees /\ OfferAgrees

\* The options of a repository whose reads agree with its checkout.
LEMMA OptionsAgree ==
  ASSUME NEW c \in Checkouts, NEW info, InfoAgrees(info, c), NEW r, hasCommit(c),
         \A field \in DOMAIN Unread : info[field].at = "done"
  PROVE  BranchesAre(c, offers(r, info))
<1> DEFINE main == info.mainBranch.value
           current == info.currentBranch.value
           all == info.allBranches.value
           titles == offers(r, info)
<1>1. titles = {HEAD} \cup ({main} \ {current}) \cup (all \ {main, current})
  <2>1. \A b : item(r, b).branch = b
    BY DEF item
  <2>2. titles = {x.branch : x \in {item(r, HEAD)} \cup {item(r, b) : b \in {main} \ {current}}
                                    \cup {item(r, b) : b \in all \ {main, current}}}
    BY DEF offers, getStaticOptionsForRepository
  <2> HIDE DEF titles, main, current, all
  <2> QED
    BY <2>1, <2>2
<1>2. /\ info.mainBranch.at = "done" /\ info.currentBranch.at = "done"
      /\ info.allBranches.at = "done"
  BY DEF Unread
<1>3. all = {Short(b) : b \in c.branches}
  BY <1>2 DEF InfoAgrees
<1>4. /\ c.branches \subseteq Branches /\ c.head \in Branches \cup {"detached"}
      /\ HEAD = Short("HEAD")
  BY DEF Checkouts, HEAD
<1>5. \A a, b : Short(a) = Short(b) => a = b
  BY DEF Short
<1> HIDE DEF main, current, all, titles
<1>6. ASSUME c.origin # "remote", c.head # "detached"
      PROVE  /\ {Short(b) : b \in c.branches \ {c.head}} \cup {HEAD} \subseteq titles
             /\ Short(c.head) \notin titles
  <2>1. current = Short(c.head)
    BY <1>2, <1>6 DEF InfoAgrees, current
  <2>2. \A b \in c.branches \ {c.head} : Short(b) \in all /\ Short(b) # current
    BY <1>3, <1>5, <2>1
  <2>3. HEAD # current
    BY <1>4, <1>5, <1>6, <2>1, BranchesAssumption
  <2> QED
    BY <1>1, <2>1, <2>2, <2>3
<1>7. ASSUME c.origin # "remote", c.head = "detached"
      PROVE  /\ Short("detached") \notin titles
             /\ Cardinality({Short(b) : b \in c.branches} \ titles) <= 1
  <2>1. main = current
    BY <1>2, <1>7 DEF InfoAgrees, ReadingAgrees, main, current
  <2>2. titles = {HEAD} \cup (all \ {main})
    BY <1>1, <2>1
  <2>3. Short("detached") # HEAD
    BY <1>4, <1>5
  <2>4. Short("detached") \notin all
    BY <1>3, <1>4, <1>5, BranchesAssumption
  <2>5. all \ titles \subseteq {main}
    BY <2>2
  <2>6. IsFiniteSet({main}) /\ Cardinality({main}) = 1
    BY FS_Singleton
  <2>7. Cardinality(all \ titles) <= 1
    BY <2>5, <2>6, FS_Subset
  <2> QED
    BY <1>3, <2>2, <2>3, <2>4, <2>7
<1> QED
  BY <1>6, <1>7 DEF BranchesAre, titles

\* One more read of the main branch, and of the current one.
LEMMA MainBranchAgrees ==
  ASSUME NEW c \in Checkouts, c.origin # "remote", NEW old, ReadingAgrees(c, old),
         old.at \notin {"branch", "done"}, NEW new \in getMainBranch(c, old)
  PROVE  ReadingAgrees(c, new) /\ new.at # "branch"
<1>1. c.origin \in {"none", "ref", "unreachable", "unreadable"}
  BY DEF Checkouts
<1>2. CASE old.at = "remotes"
  BY <1>1, <1>2 DEF getMainBranch, ReadingAgrees, mainBranchOf, Done, At
<1>3. CASE old.at = "remote"
  BY <1>1, <1>3 DEF getMainBranch, ReadingAgrees, mainBranchOf, Done, At
<1>4. CASE old.at = "local"
  BY <1>1, <1>4 DEF getMainBranch, ReadingAgrees, mainBranchOf, Done, At
<1> QED
  BY <1>2, <1>3, <1>4 DEF ReadingAgrees

LEMMA ReadingsAreRecords ==
  ASSUME NEW c, NEW old
  PROVE  /\ \A new \in getMainBranch(c, old) : IsReading(new)
         /\ \A new \in getCurrentBranch(c, old) : IsReading(new)
<1>1. \A x : IsReading(Done(x)) /\ IsReading(At(x))
  BY DEF IsReading, Done, At
<1>2. \A new \in getMainBranch(c, old) : IsReading(new)
  BY <1>1 DEF getMainBranch
<1> QED
  BY <1>1, <1>2 DEF getCurrentBranch

\* The reads so far, when one of them is kept.
LEMMA KeepsInfo ==
  ASSUME LocalGitTypes, searching, NEW r \in ToSet(search.order), NEW field \in DOMAIN Unread,
         NEW reading, IsReading(reading), Keep(r, field, reading)
  PROVE  /\ LocalGitTypes' /\ searching'
         /\ search'.order = search.order /\ search'.crossed = search.crossed
         /\ checkouts' = checkouts /\ offered' = offered
         /\ \A q \in ToSet(search.order) \ {r} : search'.infos[q] = search.infos[q]
         /\ \A f \in DOMAIN Unread :
              search'.infos[r][f] = IF f = field THEN reading ELSE search.infos[r][f]
<1>1. /\ search = [order |-> search.order, infos |-> search.infos, crossed |-> search.crossed,
                   changes |-> search.changes]
      /\ search.infos = [q \in ToSet(search.order) |-> search.infos[q]]
      /\ \A q \in ToSet(search.order) : IsInfo(search.infos[q])
  BY DEF LocalGitTypes
<1>2. /\ search' = [search EXCEPT !.infos =
                      [search.infos EXCEPT ![r] = [search.infos[r] EXCEPT ![field] = reading]]]
      /\ UNCHANGED <<repositories, disabled, checkouts, offered>>
  BY <1>1 DEF Keep
<1>3. /\ search'.order = search.order /\ search'.crossed = search.crossed
      /\ search' = [order |-> search'.order, infos |-> search'.infos,
                    crossed |-> search'.crossed, changes |-> search'.changes]
      /\ search'.infos =
           [search.infos EXCEPT ![r] = [search.infos[r] EXCEPT ![field] = reading]]
  BY <1>1, <1>2
<1>4. /\ search'.infos = [q \in ToSet(search.order) |-> search'.infos[q]]
      /\ search'.infos[r] = [search.infos[r] EXCEPT ![field] = reading]
      /\ \A q \in ToSet(search.order) \ {r} : search'.infos[q] = search.infos[q]
  BY <1>1, <1>3
<1>5. /\ DOMAIN Unread = {"mainBranch", "currentBranch", "allBranches", "headRef"}
      /\ IsInfo(search.infos[r])
  BY <1>1 DEF Unread
<1>6. /\ \A f \in DOMAIN Unread :
           search'.infos[r][f] = IF f = field THEN reading ELSE search.infos[r][f]
      /\ search'.infos[r] =
           [mainBranch |-> search'.infos[r].mainBranch,
            currentBranch |-> search'.infos[r].currentBranch,
            allBranches |-> search'.infos[r].allBranches, headRef |-> search'.infos[r].headRef]
  BY <1>4, <1>5 DEF IsInfo
<1>7. IsInfo(search'.infos[r])
  BY <1>5, <1>6 DEF IsInfo
<1>8. LocalGitTypes' /\ searching'
  BY <1>1, <1>2, <1>3, <1>4, <1>7 DEF LocalGitTypes, searching
<1> QED
  BY <1>2, <1>3, <1>4, <1>6, <1>8

\* A read, if it is one that agrees.
LEMMA KeepKeeps ==
  ASSUME GitInv, searching, NEW r \in ToSet(search.order), NEW field \in DOMAIN Unread,
         NEW reading, IsReading(reading), Keep(r, field, reading),
         ~search.crossed /\ InfoAgrees(search.infos[r], checkouts[r]) =>
           InfoAgrees(search'.infos[r], checkouts[r])
  PROVE  GitInv'
<1>1. /\ LocalGitTypes' /\ searching'
      /\ search'.order = search.order /\ search'.crossed = search.crossed
      /\ checkouts' = checkouts /\ offered' = offered
      /\ \A q \in ToSet(search.order) \ {r} : search'.infos[q] = search.infos[q]
  BY KeepsInfo DEF GitInv
<1>2. SearchAgrees'
  BY <1>1 DEF GitInv, SearchAgrees
<1>3. OfferAgrees'
  BY <1>1 DEF GitInv, OfferAgrees, EveryBranchIsOffered
<1> QED
  BY <1>1, <1>2, <1>3 DEF GitInv

LEMMA ReadMainBranchKeeps ==
  ASSUME GitInv, searching, NEW r \in ToSet(search.order), r \in Repositories, ReadMainBranch(r)
  PROVE  GitInv'
<1> DEFINE c == checkouts[r]
           old == search.infos[r].mainBranch
<1>1. c \in Checkouts
  BY DEF GitInv, LocalGitTypes
<1>2. PICK reading \in getMainBranch(c, old) : Keep(r, "mainBranch", reading)
  BY DEF ReadMainBranch
<1>3. old.at # "done"
  BY DEF ReadMainBranch
<1>4. IsReading(reading) /\ "mainBranch" \in DOMAIN Unread
  BY <1>2, ReadingsAreRecords DEF Unread
<1>5. /\ search'.infos[r].mainBranch = reading
      /\ search'.infos[r].currentBranch = search.infos[r].currentBranch
      /\ search'.infos[r].allBranches = search.infos[r].allBranches
  <2>1. \A f \in DOMAIN Unread :
          search'.infos[r][f] = IF f = "mainBranch" THEN reading ELSE search.infos[r][f]
    BY <1>2, <1>4, KeepsInfo DEF GitInv
  <2> QED
    BY <2>1 DEF Unread
<1>6. ASSUME InfoAgrees(search.infos[r], c)
      PROVE  InfoAgrees(search'.infos[r], c)
  <2>1. CASE c.origin # "remote"
    <3>1. ReadingAgrees(c, old) /\ old.at # "branch"
      BY <1>6, <2>1 DEF InfoAgrees
    <3>2. ReadingAgrees(c, reading) /\ reading.at # "branch"
      BY <1>1, <1>2, <1>3, <2>1, <3>1, MainBranchAgrees
    <3> QED
      BY <1>5, <1>6, <3>2 DEF InfoAgrees
  <2>2. CASE c.origin = "remote"
    BY <1>5, <1>6, <2>2 DEF InfoAgrees
  <2> QED
    BY <2>1, <2>2
<1> QED
  BY <1>2, <1>4, <1>6, KeepKeeps

LEMMA ReadCurrentBranchKeeps ==
  ASSUME GitInv, searching, NEW r \in ToSet(search.order), r \in Repositories,
         ReadCurrentBranch(r)
  PROVE  GitInv'
<1> DEFINE c == checkouts[r]
           old == search.infos[r].currentBranch
<1>1. c \in Checkouts
  BY DEF GitInv, LocalGitTypes
<1>2. PICK reading \in getCurrentBranch(c, old) : Keep(r, "currentBranch", reading)
  BY DEF ReadCurrentBranch
<1>3. old.at # "done"
  BY DEF ReadCurrentBranch
<1>4. IsReading(reading) /\ "currentBranch" \in DOMAIN Unread
  BY <1>2, ReadingsAreRecords DEF Unread
<1>5. /\ search'.infos[r].currentBranch = reading
      /\ search'.infos[r].mainBranch = search.infos[r].mainBranch
      /\ search'.infos[r].allBranches = search.infos[r].allBranches
  <2>1. \A f \in DOMAIN Unread :
          search'.infos[r][f] = IF f = "currentBranch" THEN reading ELSE search.infos[r][f]
    BY <1>2, <1>4, KeepsInfo DEF GitInv
  <2> QED
    BY <2>1 DEF Unread
<1>6. ASSUME InfoAgrees(search.infos[r], c)
      PROVE  InfoAgrees(search'.infos[r], c)
  <2>1. CASE c.origin # "remote" /\ c.head = "detached"
    <3>1. ReadingAgrees(c, old)
      BY <1>6, <2>1 DEF InfoAgrees
    <3>2. ReadingAgrees(c, reading)
      <4>1. CASE old.at = "branch"
        BY <1>2, <2>1, <4>1 DEF getCurrentBranch, At, ReadingAgrees
      <4>2. CASE old.at # "branch"
        <5>1. reading \in getMainBranch(c, old)
          BY <1>2, <4>2 DEF getCurrentBranch
        <5> QED
          BY <1>1, <1>3, <2>1, <3>1, <4>2, <5>1, MainBranchAgrees
      <4> QED
        BY <4>1, <4>2
    <3> QED
      BY <1>5, <1>6, <2>1, <3>2 DEF InfoAgrees
  <2>2. CASE c.origin # "remote" /\ c.head # "detached"
    <3>1. old.at = "branch"
      BY <1>3, <1>6, <2>2 DEF InfoAgrees
    <3>2. reading.at = "done" /\ reading.value = Short(c.head)
      BY <1>2, <2>2, <3>1 DEF getCurrentBranch, Done
    <3> QED
      BY <1>5, <1>6, <2>2, <3>2 DEF InfoAgrees
  <2>3. CASE c.origin = "remote"
    BY <1>5, <1>6, <2>3 DEF InfoAgrees
  <2> QED
    BY <2>1, <2>2, <2>3
<1> QED
  BY <1>2, <1>4, <1>6, KeepKeeps

LEMMA ListBranchesKeeps ==
  ASSUME GitInv, searching, NEW r \in ToSet(search.order), ListBranches(r)
  PROVE  GitInv'
<1> DEFINE c == checkouts[r]
           reading == Done({Short(b) : b \in c.branches})
<1>1. /\ Keep(r, "allBranches", reading) /\ IsReading(reading)
      /\ reading.value = {Short(b) : b \in c.branches} /\ "allBranches" \in DOMAIN Unread
  BY DEF ListBranches, IsReading, Done, Unread
<1> HIDE DEF reading
<1>2. /\ search'.infos[r].allBranches = reading
      /\ search'.infos[r].mainBranch = search.infos[r].mainBranch
      /\ search'.infos[r].currentBranch = search.infos[r].currentBranch
  <2>1. \A f \in DOMAIN Unread :
          search'.infos[r][f] = IF f = "allBranches" THEN reading ELSE search.infos[r][f]
    BY <1>1, KeepsInfo DEF GitInv
  <2> QED
    BY <2>1 DEF Unread
<1>3. InfoAgrees(search.infos[r], c) => InfoAgrees(search'.infos[r], c)
  BY <1>1, <1>2 DEF InfoAgrees
<1> QED
  BY <1>1, <1>3, KeepKeeps

\* What a search answers with.
LEMMA GitAnswerKeeps ==
  ASSUME GitInv, NEW items, NEW query, Answer(items, query),
         ~search.crossed /\ query = "" /\ (\A r \in ToSet(search.order) : hasCommit(checkouts[r]))
           => \A r \in ToSet(search.order) :
                BranchesAre(checkouts[r], {x.branch : x \in {y \in items : y.repository = r}})
  PROVE  GitInv'
<1>1. /\ offered' = [items |-> items, query |-> query, crossed |-> search.crossed,
                     order |-> search.order, checkouts |-> checkouts, diffs |-> <<>>]
      /\ search' = [order |-> <<>>, infos |-> <<>>, crossed |-> FALSE, changes |-> 0]
      /\ UNCHANGED <<repositories, disabled, checkouts>>
  BY DEF Answer, NoSearch
<1>2. ~searching' /\ LocalGitTypes'
  <2>1. search'.order = <<>>
    BY <1>1
  <2>2. search' = [order |-> search'.order, infos |-> search'.infos,
                   crossed |-> search'.crossed, changes |-> search'.changes]
    BY <1>1
  <2>3. ~searching'
    BY <2>1 DEF searching
  <2>4. <<>> \in Seq(Repositories)
    BY EmptySeq
  <2>5. search'.order \in Seq(Repositories)
    BY <2>1, <2>4
  <2> QED
    BY <1>1, <2>2, <2>3, <2>5 DEF GitInv, LocalGitTypes
<1>3. SearchAgrees'
  BY <1>2 DEF SearchAgrees
<1>4. EveryBranchIsOffered'
  <2> SUFFICES ASSUME ~search.crossed, query = "",
                      \A r \in ToSet(search.order) : hasCommit(checkouts[r]),
                      NEW r \in ToSet(search.order)
               PROVE  BranchesAre(checkouts[r], {x.branch : x \in {y \in items : y.repository = r}})
    BY <1>1 DEF EveryBranchIsOffered, BranchesAre
  <2> QED
    OBVIOUS
<1>5. OfferAgrees'
  BY <1>1, <1>4 DEF OfferAgrees
<1> QED
  BY <1>2, <1>3, <1>5 DEF GitInv

LEMMA ReadHeadRefKeeps ==
  ASSUME GitInv, searching, NEW r \in ToSet(search.order), ReadHeadRef(r)
  PROVE  GitInv'
<1>1. CASE hasCommit(checkouts[r])
  <2> DEFINE reading == Done(HEAD)
  <2>1. /\ Keep(r, "headRef", reading) /\ IsReading(reading) /\ "headRef" \in DOMAIN Unread
    BY <1>1 DEF ReadHeadRef, IsReading, Done, Unread
  <2> HIDE DEF reading
  <2>2. /\ search'.infos[r].allBranches = search.infos[r].allBranches
        /\ search'.infos[r].mainBranch = search.infos[r].mainBranch
        /\ search'.infos[r].currentBranch = search.infos[r].currentBranch
    <3>1. \A f \in DOMAIN Unread :
            search'.infos[r][f] = IF f = "headRef" THEN reading ELSE search.infos[r][f]
      BY <2>1, KeepsInfo DEF GitInv
    <3> QED
      BY <3>1 DEF Unread
  <2>3. InfoAgrees(search.infos[r], checkouts[r]) => InfoAgrees(search'.infos[r], checkouts[r])
    BY <2>2 DEF InfoAgrees
  <2> QED
    BY <2>1, <2>3, KeepKeeps
<1>2. CASE ~hasCommit(checkouts[r])
  <2>1. Answer({}, "")
    BY <1>2 DEF ReadHeadRef
  <2> QED
    BY <1>2, <2>1, GitAnswerKeeps
<1> QED
  BY <1>1, <1>2

LEMMA SearchEndsKeeps ==
  ASSUME GitInv, NEW query, SearchEnds(query)
  PROVE  GitInv'
<1>1. /\ searching /\ Answer(resultsOf(search, query), query)
      /\ \A r \in ToSet(search.order) : \A field \in DOMAIN Unread :
           search.infos[r][field].at = "done"
  BY DEF SearchEnds
<1>2. ASSUME ~search.crossed, query = "",
             \A q \in ToSet(search.order) : hasCommit(checkouts[q]),
             NEW r \in ToSet(search.order)
      PROVE  BranchesAre(checkouts[r], {x.branch : x \in {y \in resultsOf(search, query) :
                                                             y.repository = r}})
  <2> DEFINE of(q) == getStaticOptionsForRepository(q, search.infos[q])
             items == resultsOf(search, query)
  <2>1. items = UNION {of(q) : q \in ToSet(search.order)}
    BY <1>2 DEF resultsOf
  <2>2. \A q : \A x \in of(q) : x.repository = q
    <3>1. \A q, b : item(q, b).repository = q
      BY DEF item
    <3> QED
      BY <3>1 DEF getStaticOptionsForRepository
  <2> HIDE DEF of, items
  <2>3. {y \in items : y.repository = r} = of(r)
    BY <2>1, <2>2
  <2>4. {x.branch : x \in {y \in items : y.repository = r}} = offers(r, search.infos[r])
    BY <2>3 DEF offers, of
  <2>5. r \in Repositories
    BY DEF GitInv, LocalGitTypes, ToSet
  <2>6. checkouts[r] \in Checkouts
    BY <2>5 DEF GitInv, LocalGitTypes
  <2>7. InfoAgrees(search.infos[r], checkouts[r])
    BY <1>1, <1>2 DEF GitInv, SearchAgrees
  <2>8. BranchesAre(checkouts[r], offers(r, search.infos[r]))
    BY <1>1, <1>2, <2>6, <2>7, OptionsAgree
  <2> QED
    BY <2>4, <2>8 DEF items
<1> QED
  BY <1>1, <1>2, GitAnswerKeeps

\* Nothing is known when a search begins, which agrees with every checkout.
LEMMA SearchBeginsKeeps ==
  ASSUME GitInv, Search
  PROVE  GitInv'
<1>1. /\ repositories # <<>> /\ offered' = NoAnswer
      /\ search' = [order |-> repositories, infos |-> [r \in ToSet(repositories) |-> Unread],
                    crossed |-> FALSE, changes |-> 0]
      /\ UNCHANGED <<repositories, disabled, checkouts>>
  BY DEF Search, NoSearch
<1>2. /\ search'.order = repositories
      /\ search'.infos = [r \in ToSet(repositories) |-> Unread]
      /\ search' = [order |-> search'.order, infos |-> search'.infos,
                    crossed |-> search'.crossed, changes |-> search'.changes]
  BY <1>1
<1>3. IsInfo(Unread)
  BY DEF IsInfo, IsReading, Unread, At
<1>4. \A r \in ToSet(repositories) : search'.infos[r] = Unread
  BY <1>2
<1>5. LocalGitTypes'
  BY <1>1, <1>2, <1>3, <1>4 DEF GitInv, LocalGitTypes
<1>6. \A c : InfoAgrees(Unread, c)
  <2>1. /\ Unread.mainBranch.at = "remotes" /\ Unread.currentBranch.at = "branch"
        /\ Unread.allBranches.at = "list"
    BY DEF Unread, At
  <2> QED
    BY <2>1 DEF InfoAgrees, ReadingAgrees
<1>7. SearchAgrees'
  BY <1>2, <1>4, <1>6 DEF SearchAgrees
<1>8. OfferAgrees'
  BY <1>1 DEF OfferAgrees, EveryBranchIsOffered, NoAnswer
<1> QED
  BY <1>5, <1>7, <1>8 DEF GitInv

\* A diff, which only the answer keeps.
LEMMA DiffsKeep ==
  ASSUME GitInv, NEW diffs, offered' = [offered EXCEPT !.diffs = diffs],
         UNCHANGED <<repositories, disabled, checkouts, search>>
  PROVE  GitInv'
<1>1. LocalGitTypes' /\ SearchAgrees'
  BY DEF GitInv, LocalGitTypes, SearchAgrees, searching
<1>2. offered' = [items |-> offered.items, query |-> offered.query, crossed |-> offered.crossed,
                  order |-> offered.order, checkouts |-> offered.checkouts, diffs |-> diffs]
  BY DEF GitInv, OfferAgrees
<1>3. /\ offered'.items = offered.items /\ offered'.query = offered.query
      /\ offered'.crossed = offered.crossed /\ offered'.order = offered.order
      /\ offered'.checkouts = offered.checkouts /\ offered'.diffs = diffs
  BY <1>2
<1>4. EveryBranchIsOffered'
  BY <1>3 DEF GitInv, OfferAgrees, EveryBranchIsOffered
<1>5. OfferAgrees'
  BY <1>2, <1>3, <1>4 DEF OfferAgrees
<1> QED
  BY <1>1, <1>5 DEF GitInv

LEMMA CheckoutKeeps ==
  ASSUME GitInv, NEW r \in Repositories, NEW c \in Changed(checkouts[r]), Checkout(r, c)
  PROVE  GitInv'
<1>1. /\ checkouts \in [Repositories -> Checkouts]
      /\ search = [order |-> search.order, infos |-> search.infos, crossed |-> search.crossed,
                   changes |-> search.changes]
  BY DEF GitInv, LocalGitTypes
<1>2. c \in Checkouts
  <2>1. checkouts[r] \in Checkouts
    BY <1>1
  <2> QED
    BY <2>1 DEF Changed, Checkouts
<1>3. checkouts' \in [Repositories -> Checkouts]
  BY <1>1, <1>2 DEF Checkout
<1>4. search' = [order |-> search.order, infos |-> search.infos, crossed |-> TRUE,
                 changes |-> search.changes + 1]
  BY <1>1 DEF Checkout
<1>5. search'.crossed /\ search'.order = search.order /\ search'.infos = search.infos
  BY <1>4
<1>6. LocalGitTypes'
  BY <1>3, <1>4, <1>5 DEF GitInv, LocalGitTypes, Checkout, searching
<1>7. SearchAgrees'
  BY <1>5 DEF SearchAgrees
<1>8. OfferAgrees'
  BY DEF Checkout, GitInv, OfferAgrees, EveryBranchIsOffered
<1> QED
  BY <1>6, <1>7, <1>8 DEF GitInv

LEMMA ForgetKeeps ==
  ASSUME GitInv, NEW r, Forget(r)
  PROVE  GitInv'
<1>1. PICK i \in DOMAIN repositories : repositories' = RemoveAt(repositories, i)
  BY DEF Forget
<1>2. repositories \in Seq(Repositories) /\ i \in 1..Len(repositories)
  BY DEF GitInv, LocalGitTypes
<1>3. /\ SubSeq(repositories, 1, i - 1) \in Seq(Repositories)
      /\ SubSeq(repositories, i + 1, Len(repositories)) \in Seq(Repositories)
  BY <1>2, SubSeqProperties
<1>4. repositories' \in Seq(Repositories)
  BY <1>1, <1>3 DEF RemoveAt
<1>5. LocalGitTypes' /\ SearchAgrees'
  BY <1>4 DEF Forget, GitInv, LocalGitTypes, SearchAgrees, searching
<1>6. OfferAgrees'
  BY DEF Forget, GitInv, OfferAgrees, EveryBranchIsOffered
<1> QED
  BY <1>5, <1>6 DEF GitInv

LEMMA GitInitInv == LocalGitInit => GitInv
<1> SUFFICES ASSUME LocalGitInit PROVE GitInv
  OBVIOUS
<1>1. repositories \in Seq(Repositories)
  <2>1. Cardinality(Repositories) \in Nat
    BY RepositoriesFinite, FS_CardinalityType
  <2>2. repositories \in [1..Cardinality(Repositories) -> Repositories]
    BY DEF LocalGitInit, SetToSeqs
  <2> QED
    BY <2>1, <2>2, SeqDef
<1>2. checkouts \in [Repositories -> Checkouts]
  BY CheckoutsKnown DEF LocalGitInit
<1>3. search.order = <<>> /\ search.order \in Seq(Repositories) /\ ~searching
  BY DEF LocalGitInit, NoSearch, searching
<1>4. LocalGitTypes /\ SearchAgrees
  BY <1>1, <1>2, <1>3 DEF LocalGitInit, NoSearch, LocalGitTypes, SearchAgrees
<1>5. OfferAgrees
  BY DEF LocalGitInit, NoAnswer, OfferAgrees, EveryBranchIsOffered
<1> QED
  BY <1>4, <1>5 DEF GitInv

LEMMA GitStepKeeps == GitInv /\ [LocalGitNext]_localGitVars => GitInv'
<1> SUFFICES ASSUME GitInv, [LocalGitNext]_localGitVars PROVE GitInv'
  OBVIOUS
<1>1. CASE Search
  BY <1>1, SearchBeginsKeeps
<1>2. CASE ReadStep
  <2>1. PICK r \in ToSet(search.order) :
          ReadMainBranch(r) \/ ReadCurrentBranch(r) \/ ListBranches(r) \/ ReadHeadRef(r)
    BY <1>2 DEF ReadStep
  <2>2. searching /\ r \in Repositories
    BY <2>1 DEF GitInv, LocalGitTypes, searching, ToSet
  <2> QED
    BY <2>1, <2>2, ReadMainBranchKeeps, ReadCurrentBranchKeeps, ListBranchesKeeps,
       ReadHeadRefKeeps
<1>3. ASSUME NEW query, SearchEnds(query) PROVE GitInv'
  BY <1>3, SearchEndsKeeps
<1>4. ASSUME NEW x, GetItemWithContent(x) PROVE GitInv'
  BY <1>4, DiffsKeep DEF GetItemWithContent
<1>5. ASSUME NEW x, DiffArrives(x) PROVE GitInv'
  <2>1. offered = [items |-> offered.items, query |-> offered.query,
                   crossed |-> offered.crossed, order |-> offered.order,
                   checkouts |-> offered.checkouts, diffs |-> offered.diffs]
    BY DEF GitInv, OfferAgrees
  <2>2. offered' = [offered EXCEPT !.diffs = [offered.diffs EXCEPT ![x] = "diff"]]
    BY <1>5, <2>1 DEF DiffArrives
  <2> QED
    BY <1>5, <2>2, DiffsKeep DEF DiffArrives
<1>6. ASSUME NEW r \in Repositories, NEW c \in Changed(checkouts[r]), Checkout(r, c)
      PROVE  GitInv'
  BY <1>6, CheckoutKeeps
<1>7. ASSUME NEW r, Forget(r) PROVE GitInv'
  BY <1>7, ForgetKeeps
<1>8. CASE UNCHANGED localGitVars
  BY <1>8 DEF localGitVars, GitInv, LocalGitTypes, SearchAgrees, OfferAgrees,
              EveryBranchIsOffered, searching
<1> QED
  BY <1>1, <1>2, <1>3, <1>4, <1>5, <1>6, <1>7, <1>8 DEF LocalGitNext

\* Whatever repositories and branches there are, and in whatever order the reads of a search
\* come and checkouts change: the branches offered of a repository that did not change are
\* HEAD and all but the one that is checked out (getStaticOptionsForRepository).
THEOREM EveryBranchIsOfferedCorrect == LocalGitSpec => []EveryBranchIsOffered
<1>1. GitInv => EveryBranchIsOffered
  BY DEF GitInv, OfferAgrees
<1> QED
  BY <1>1, GitInitInv, GitStepKeeps, PTL DEF LocalGitSpec

-----------------------------------------------------------------------------
(* DependencyScan.  A parser goes through a file with one bit, whether it  *)
(* is in a section; what it keeps are the libraries after the start of a   *)
(* section and before an end of it.  That the bit of a line follows from   *)
(* that of the line before it is shown by the least line that breaks it.   *)

\* Among numbers there is a smallest one: the intervals up to them are finite sets.
LEMMA SmallestOf ==
  ASSUME NEW T, T \subseteq Nat, T # {}
  PROVE  \E x \in T : \A y \in T : ~(y < x)
<1> DEFINE upTo(k) == 1 .. k
           R == StrictSubsetOrdering(Nat)
<1>1. \A k \in T : upTo(k) \in FiniteSubsetsOf(Nat)
  BY FS_Interval DEF FiniteSubsetsOf
<1>2. IsWellFoundedOn(R, FiniteSubsetsOf(Nat))
  BY FS_StrictSubsetOrderingWellFounded
<1>3. {upTo(k) : k \in T} \subseteq FiniteSubsetsOf(Nat) /\ {upTo(k) : k \in T} # {}
  BY <1>1
<1>4. PICK u \in {upTo(k) : k \in T} : \A v \in {upTo(k) : k \in T} : <<v, u>> \notin R
  <2> HIDE DEF upTo, R
  <2> QED
    BY <1>2, <1>3, WFMin
<1>5. PICK x \in T : u = upTo(x)
  BY <1>4
<1>6. ASSUME NEW y \in T, y < x PROVE FALSE
  <2>1. <<upTo(y), upTo(x)>> \in R
    BY <1>6 DEF StrictSubsetOrdering
  <2> QED
    BY <1>4, <1>5, <2>1
<1> QED
  BY <1>6

\* A file, by its type, its lines and whether it can be read.
IsFile(f) ==
  /\ f = [type |-> f.type, lines |-> f.lines, readable |-> f.readable]
  /\ Len(f.lines) \in Nat /\ DOMAIN f.lines = 1 .. Len(f.lines)
  /\ f.readable \in BOOLEAN

\* Whether line n has left the scan in a section, by what the line before it has.
scanned(type, lines, s, n) ==
  n > 0 /\ IF s[n - 1] THEN continues(type, lines[n]) ELSE lines[n].is \in openers(type)
scannedTo(type, lines, s, last) == s = [n \in 0 .. last |-> scanned(type, lines, s, n)]

\* The scan of a file exists: that of one line more goes on from that of the others.
LEMMA ScanExists ==
  ASSUME NEW type, NEW lines, NEW last \in Nat
  PROVE  \E s : scannedTo(type, lines, s, last)
<1> DEFINE T == {k \in Nat : ~ \E s : scannedTo(type, lines, s, k)}
<1> SUFFICES ASSUME T # {} PROVE FALSE
  OBVIOUS
<1>1. PICK k \in T : \A j \in T : ~(j < k)
  <2>1. T \subseteq Nat
    OBVIOUS
  <2> HIDE DEF T
  <2> QED
    BY <2>1, SmallestOf
<1>2. CASE k = 0
  <2> DEFINE t == [n \in 0 .. 0 |-> FALSE]
  <2>a. \A n \in 0 .. 0 : n = 0 /\ scanned(type, lines, t, n) = FALSE
    BY DEF scanned
  <2>1. scannedTo(type, lines, t, 0)
    <3> HIDE DEF t
    <3>1. t = [n \in 0 .. 0 |-> FALSE]
      BY DEF t
    <3> QED
      BY <2>a, <3>1 DEF scannedTo
  <2> QED
    BY <1>1, <1>2, <2>1
<1>3. CASE k # 0
  <2>1. k - 1 \in Nat /\ k - 1 < k
    BY <1>1, <1>3
  <2>2. PICK s : scannedTo(type, lines, s, k - 1)
    BY <1>1, <2>1
  <2> DEFINE t == [n \in 0 .. k |-> IF n = k THEN scanned(type, lines, s, k) ELSE s[n]]
  <2>3. s = [n \in 0 .. (k - 1) |-> scanned(type, lines, s, n)]
    BY <2>2 DEF scannedTo
  <2>4. ASSUME NEW n \in 0 .. k PROVE t[n] = scanned(type, lines, t, n)
    <3>1. CASE n = 0
      BY <1>3, <2>1, <2>3, <3>1 DEF scanned
    <3>2. CASE n # 0
      <4>1. n - 1 \in 0 .. k /\ n - 1 # k /\ n \in Nat
        BY <2>1, <3>2
      <4>2. t[n - 1] = s[n - 1]
        BY <4>1
      <4>3. scanned(type, lines, t, n) = scanned(type, lines, s, n)
        BY <4>2 DEF scanned
      <4>4. t[n] = scanned(type, lines, s, n)
        <5>1. CASE n = k
          BY <5>1
        <5>2. CASE n # k
          <6>1. n \in 0 .. (k - 1)
            BY <2>1, <5>2
          <6> QED
            BY <2>3, <5>2, <6>1
        <5> QED
          BY <5>1, <5>2
      <4> QED
        BY <4>3, <4>4
    <3> QED
      BY <3>1, <3>2
  <2>5. scannedTo(type, lines, t, k)
    <3>1. t = [n \in 0 .. k |-> t[n]]
      OBVIOUS
    <3> HIDE DEF t
    <3> QED
      BY <2>4, <3>1 DEF scannedTo
  <2> QED
    BY <1>1, <2>5
<1> QED
  BY <1>2, <1>3

LEMMA SectionsScan ==
  ASSUME NEW type, NEW lines, Len(lines) \in Nat
  PROVE  \A n \in 0 .. Len(lines) :
           sections(type, lines)[n] = scanned(type, lines, sections(type, lines), n)
<1>1. PICK s : scannedTo(type, lines, s, Len(lines))
  BY ScanExists
<1>2. sections(type, lines) = CHOOSE t : scannedTo(type, lines, t, Len(lines))
  BY DEF sections, scannedTo, scanned
<1>3. scannedTo(type, lines, sections(type, lines), Len(lines))
  BY <1>1, <1>2
<1> HIDE DEF sections
<1> QED
  BY <1>3 DEF scannedTo

\* A line is in a section if a line that opens one is before it and no end since, unless
\* a start also ends one.
opens(type, line) == line.is \in openers(type)
opened(type, lines, n) ==
  \E i \in 1 .. n : opens(type, lines[i]) /\ \A k \in (i + 1) .. n : continues(type, lines[k])
OneStart(type, lines) ==
  "start" \in endCondition[type] => \A i, j \in linesOf(lines, {"start"}) : i = j

LEMMA OpenersEnd ==
  ASSUME NEW type \in DOMAIN endCondition, NEW line, opens(type, line), ~continues(type, line)
  PROVE  /\ line.is = "start" /\ "start" \in endCondition[type]
         /\ \A other : opens(type, other) => other.is = "start"
BY DEF opens, openers, continues, endCondition

LEMMA SectionsAreOpened ==
  ASSUME NEW type \in DOMAIN endCondition,
         NEW lines, Len(lines) \in Nat, DOMAIN lines = 1 .. Len(lines), OneStart(type, lines),
         NEW n \in 0 .. Len(lines)
  PROVE  sections(type, lines)[n] = opened(type, lines, n)
<1> DEFINE s == sections(type, lines)
           T == {k \in 0 .. Len(lines) : s[k] # opened(type, lines, k)}
<1> SUFFICES ASSUME T # {} PROVE FALSE
  OBVIOUS
<1>1. PICK k \in T : \A j \in T : ~(j < k)
  <2>1. T \subseteq Nat
    OBVIOUS
  <2> HIDE DEF T
  <2> QED
    BY <2>1, SmallestOf
<1>2. \A m \in 0 .. Len(lines) : s[m] = scanned(type, lines, s, m)
  BY SectionsScan
<1>3. CASE k = 0
  <2>1. s[0] = FALSE
    <3>1. s[0] = scanned(type, lines, s, 0)
      BY <1>2
    <3>2. scanned(type, lines, s, 0) = FALSE
      BY DEF scanned
    <3> QED
      BY <3>1, <3>2
  <2>2. opened(type, lines, 0) = FALSE
    BY DEF opened
  <2> QED
    BY <1>1, <1>3, <2>1, <2>2
<1>4. CASE k # 0
  <2>1. k \in 1 .. Len(lines) /\ k - 1 \in 0 .. Len(lines) /\ k - 1 < k /\ k \in DOMAIN lines
    BY <1>1, <1>4
  <2>2. s[k - 1] = opened(type, lines, k - 1)
    BY <1>1, <2>1
  <2>3. s[k] = IF opened(type, lines, k - 1) THEN continues(type, lines[k]) ELSE opens(type, lines[k])
    <3>1. s[k] = scanned(type, lines, s, k)
      BY <1>2, <2>1
    <3>3. k > 0
      BY <2>1
    <3> HIDE DEF s
    <3>4. scanned(type, lines, s, k)
            = IF s[k - 1] THEN continues(type, lines[k]) ELSE opens(type, lines[k])
      BY <3>3 DEF scanned, continues, opens
    <3> QED
      BY <2>2, <3>1, <3>4
  <2>4. CASE opened(type, lines, k - 1)
    <3>1. PICK i \in 1 .. (k - 1) : /\ opens(type, lines[i])
                                   /\ \A j \in (i + 1) .. (k - 1) : continues(type, lines[j])
      BY <2>4 DEF opened
    <3>2. CASE continues(type, lines[k])
      <4>1. i \in 1 .. k /\ \A j \in (i + 1) .. k : j = k \/ j \in (i + 1) .. (k - 1)
        BY <2>1, <3>1
      <4>2. opened(type, lines, k)
        BY <3>1, <3>2, <4>1 DEF opened
      <4> QED
        BY <1>1, <2>3, <2>4, <3>2, <4>2 DEF opened
    <3>3. CASE ~continues(type, lines[k])
      <4>1. ASSUME opened(type, lines, k) PROVE FALSE
        <5>1. PICK h \in 1 .. k : /\ opens(type, lines[h])
                                  /\ \A j \in (h + 1) .. k : continues(type, lines[j])
          BY <4>1 DEF opened
        <5>2. h = k
          <6>1. CASE h # k
            <7>1. k \in (h + 1) .. k
              BY <2>1, <5>1, <6>1
            <7> QED
              BY <3>3, <5>1, <7>1
          <6> QED
            BY <6>1
        <5>3. lines[k].is = "start" /\ "start" \in endCondition[type] /\ lines[i].is = "start"
          BY <3>1, <3>3, <5>1, <5>2, OpenersEnd
        <5>4. i \in DOMAIN lines /\ k \in DOMAIN lines /\ i # k
          BY <2>1, <3>1
        <5> QED
          BY <5>3, <5>4 DEF OneStart, linesOf
      <4>2. opened(type, lines, k) = FALSE
        BY <4>1 DEF opened
      <4>3. s[k] = FALSE
        BY <2>3, <2>4, <3>3 DEF continues
      <4> QED
        BY <1>1, <4>2, <4>3
    <3> QED
      BY <3>2, <3>3
  <2>5. CASE ~opened(type, lines, k - 1)
    <3>1. CASE opens(type, lines[k])
      <4>1. k \in 1 .. k /\ \A j \in (k + 1) .. k : FALSE
        BY <2>1
      <4>2. opened(type, lines, k) = TRUE
        BY <3>1, <4>1 DEF opened
      <4> QED
        BY <1>1, <2>3, <2>5, <3>1, <4>2
    <3>2. CASE ~opens(type, lines[k])
      <4>1. ASSUME opened(type, lines, k) PROVE FALSE
        <5>1. PICK h \in 1 .. k : /\ opens(type, lines[h])
                                  /\ \A j \in (h + 1) .. k : continues(type, lines[j])
          BY <4>1 DEF opened
        <5>2. h \in 1 .. (k - 1) /\ \A j \in (h + 1) .. (k - 1) : j \in (h + 1) .. k
          BY <2>1, <3>2, <5>1
        <5> QED
          BY <2>5, <5>1, <5>2 DEF opened
      <4>2. opened(type, lines, k) = FALSE
        BY <4>1 DEF opened
      <4>3. opens(type, lines[k]) = FALSE
        BY <3>2 DEF opens
      <4>4. opened(type, lines, k - 1) = FALSE
        BY <2>5 DEF opened
      <4>5. s[k] = FALSE
        BY <2>3, <4>3, <4>4
      <4> QED
        BY <1>1, <4>2, <4>5
    <3> QED
      BY <3>1, <3>2
  <2> QED
    BY <2>4, <2>5
<1> QED
  BY <1>3, <1>4

\* What a search finds in a file: nothing without a parser.
foundIn(f) == IF isDependencyFile(f) THEN librariesOf(f) ELSE {}

\* The lines that a parser finds are those that name a library, but for those it loses.
LEMMA SectionsAreNamed ==
  ASSUME NEW f, IsFile(f), f.readable, wellFormed(f), f.type \in DOMAIN endCondition
  PROVE  parseDependencyFile(f.type, f.lines) = named(f) \ passedOver(f)
<1> DEFINE lines == f.lines
           type == f.type
<1>1. Len(lines) \in Nat /\ DOMAIN lines = 1 .. Len(lines) /\ OneStart(type, lines)
  BY DEF IsFile, wellFormed, OneStart
<1>2. \A n \in DOMAIN lines : sections(type, lines)[n - 1] = inside(f, n, openers(type))
  <2> SUFFICES ASSUME NEW n \in DOMAIN lines
               PROVE  sections(type, lines)[n - 1] = inside(f, n, openers(type))
    OBVIOUS
  <2>1. n - 1 \in 0 .. Len(lines)
    BY <1>1
  <2>2. sections(type, lines)[n - 1] = opened(type, lines, n - 1)
    <3> HIDE DEF lines, type
    <3>1. type \in DOMAIN endCondition
      BY DEF type
    <3> QED
      BY <1>1, <2>1, <3>1, SectionsAreOpened
  <2>3. opened(type, lines, n - 1) = inside(f, n, openers(type))
    <3>1. ASSUME opened(type, lines, n - 1) PROVE inside(f, n, openers(type))
      <4>1. PICK i \in 1 .. (n - 1) : /\ opens(type, lines[i])
                                     /\ \A k \in (i + 1) .. (n - 1) : continues(type, lines[k])
        BY <3>1 DEF opened
      <4>2. i \in DOMAIN lines /\ i < n
        BY <1>1, <4>1
      <4> QED
        BY <4>1, <4>2 DEF inside, opens, continues
    <3>2. ASSUME inside(f, n, openers(type)) PROVE opened(type, lines, n - 1)
      <4>1. PICK i \in DOMAIN lines :
              /\ i < n /\ lines[i].is \in openers(type)
              /\ \A k \in i + 1 .. n - 1 : lines[k].is \notin endCondition[type]
        BY <3>2 DEF inside
      <4>2. i \in 1 .. (n - 1)
        BY <1>1, <4>1
      <4> QED
        BY <4>1, <4>2 DEF opened, opens, continues
    <3> QED
      BY <3>1, <3>2 DEF inside, opened
  <2> QED
    BY <2>2, <2>3
<1>3. /\ parseLine[type] \cap endCondition[type] = {} /\ "library" \in parseLine[type]
      /\ "single" \in openers(type) => "single" \in parseLine[type]
      /\ "single" \in parseLine[type] => "single" \in openers(type)
      /\ "call" \in parseLine[type] => type = "conanpy"
      /\ "start" \in openers(type) /\ "nested" \notin parseLine[type]
      /\ type # "csharp" /\ type # "conda"
  BY DEF parseLine, endCondition, openers
<1>4. scanBySection(type, lines)
        = {n \in DOMAIN lines : lines[n].is \in parseLine[type] /\ inside(f, n, openers(type))}
  BY <1>2, <1>3 DEF scanBySection, linesOf, continues
<1>5. ASSUME NEW n \in DOMAIN lines, inside(f, n, {"start"}) PROVE inside(f, n, openers(type))
  BY <1>3, <1>5 DEF inside
<1>6. ASSUME NEW n \in DOMAIN lines, lines[n].is \in parseLine[type], inside(f, n, openers(type))
      PROVE  n \in named(f) \ passedOver(f)
  <2>1. n \in named(f)
    BY <1>6 DEF wellFormed
  <2> QED
    BY <1>3, <1>6, <2>1 DEF passedOver
<1>7. ASSUME NEW n \in named(f) \ passedOver(f)
      PROVE  \/ lines[n].is \in parseLine[type] /\ inside(f, n, openers(type))
             \/ lines[n].is = "call" /\ type = "conanpy"
  <2>1. CASE lines[n].is = "library"
    BY <1>3, <1>5, <1>7, <2>1 DEF named
  <2>2. CASE lines[n].is = "single"
    BY <1>3, <1>7, <2>2 DEF named, passedOver
  <2> QED
    BY <1>3, <1>7, <2>1, <2>2 DEF named
<1>8. ASSUME NEW n \in DOMAIN lines, lines[n].is = "call", type = "conanpy"
      PROVE  n \in named(f) \ passedOver(f)
  BY <1>3, <1>8 DEF named, passedOver
<1>9. parseDependencyFile(type, lines)
        = scanBySection(type, lines) \cup IF type = "conanpy" THEN linesOf(lines, {"call"}) ELSE {}
  BY DEF parseDependencyFile
<1>10. named(f) \subseteq DOMAIN lines
  BY DEF named
<1> HIDE DEF lines, type
<1>11. ASSUME NEW n
       PROVE  n \in parseDependencyFile(type, lines) <=>
                n \in DOMAIN lines
                  /\ \/ lines[n].is \in parseLine[type] /\ inside(f, n, openers(type))
                     \/ lines[n].is = "call" /\ type = "conanpy"
  BY <1>4, <1>9 DEF linesOf
<1>12. parseDependencyFile(type, lines) = named(f) \ passedOver(f)
  BY <1>6, <1>7, <1>8, <1>10, <1>11
<1> QED
  BY <1>12 DEF lines, type

\* A reference of a csharp project is in the group that the last start before it begins.
startsOf(f) == linesOf(f.lines, {"start"})

LEMMA ReferencesAreInGroups ==
  ASSUME NEW f, IsFile(f), f.type = "csharp", NEW n \in named(f)
  PROVE  \E i \in startsOf(f) : n \in references(f.lines, i)
<1> DEFINE T == {k \in Nat : n - k \in startsOf(f) /\ n - k < n}
<1>1. n \in DOMAIN f.lines /\ f.lines[n].is = "library" /\ DOMAIN f.lines \subseteq Nat
  <2>1. f.type \notin {"conanpy", "conda", "go", "gradle"}
    OBVIOUS
  <2> QED
    BY <2>1 DEF named, openers, IsFile
<1>2. PICK h \in DOMAIN f.lines : h < n /\ f.lines[h].is = "start"
  <2>1. f.lines[n].is = "library"
    BY <1>1
  <2> QED
    BY <2>1 DEF named
<1>3. n - h \in T
  BY <1>1, <1>2 DEF startsOf, linesOf
<1>4. PICK k \in T : \A j \in T : ~(j < k)
  <2>1. T \subseteq Nat /\ T # {}
    BY <1>3
  <2> HIDE DEF T
  <2> QED
    BY <2>1, SmallestOf
<1>5. n - k \in startsOf(f) /\ n - k < n /\ k \in Nat
  BY <1>4
<1>6. ASSUME NEW j \in n - k + 1 .. n, f.lines[j].is = "start" PROVE FALSE
  <2>1. j # n
    BY <1>1, <1>6
  <2>2. j \in DOMAIN f.lines
    BY <1>1, <1>5, <1>6 DEF IsFile, startsOf, linesOf
  <2>3. n - j \in T /\ n - j < k
    BY <1>1, <1>5, <1>6, <2>1, <2>2 DEF startsOf, linesOf
  <2> QED
    BY <1>4, <2>3
<1> HIDE DEF T
<1> QED
  BY <1>1, <1>5, <1>6 DEF references, linesOf

LEMMA GroupsReferTogether ==
  ASSUME NEW f, IsFile(f), f.type = "csharp",
         NEW i \in startsOf(f), NEW n \in references(f.lines, i)
  PROVE  /\ n \in named(f)
         /\ \A j \in startsOf(f) : \A m \in references(f.lines, j) :
              /\ j < i => m < n /\ ~together(f, m, n)
              /\ j > i => m > n
              /\ j = i => together(f, m, n)
         /\ \A m \in named(f) : together(f, m, n) => m \in references(f.lines, i)
<1>1. /\ DOMAIN f.lines \subseteq Nat /\ Len(f.lines) \in Nat /\ DOMAIN f.lines = 1 .. Len(f.lines)
      /\ i \in DOMAIN f.lines /\ f.lines[i].is = "start"
      /\ n \in DOMAIN f.lines /\ f.lines[n].is = "library" /\ i < n
      /\ \A k \in i + 1 .. n : f.lines[k].is # "start"
  BY DEF IsFile, startsOf, linesOf, references
<1>2. n \in named(f)
  <2>1. f.type \notin DOMAIN endCondition
    BY DEF endCondition
  <2> QED
    BY <1>1, <2>1 DEF named
<1>3. ASSUME NEW j \in startsOf(f), NEW m \in references(f.lines, j)
      PROVE  /\ j < i => m < n /\ ~together(f, m, n)
             /\ j > i => m > n
             /\ j = i => together(f, m, n)
  <2>1. /\ j \in DOMAIN f.lines /\ f.lines[j].is = "start"
        /\ m \in DOMAIN f.lines /\ f.lines[m].is = "library" /\ j < m
        /\ \A k \in j + 1 .. m : f.lines[k].is # "start"
    BY <1>3 DEF startsOf, linesOf, references
  <2>2. ASSUME j < i PROVE m < n /\ ~together(f, m, n)
    <3>1. i > m
      <4>1. ASSUME ~(i > m) PROVE FALSE
        <5>1. i \in j + 1 .. m
          BY <1>1, <2>1, <2>2, <4>1
        <5> QED
          BY <1>1, <2>1, <5>1
      <4> QED
        BY <4>1
    <3>2. i \in m + 1 .. n /\ m < n
      BY <1>1, <2>1, <3>1
    <3> QED
      BY <1>1, <3>2 DEF together
  <2>3. ASSUME j > i PROVE m > n
    <3>1. ASSUME ~(j > n) PROVE FALSE
      <4>1. j \in i + 1 .. n
        BY <1>1, <2>1, <2>3, <3>1
      <4> QED
        BY <1>1, <2>1, <4>1
    <3> QED
      BY <1>1, <2>1, <3>1
  <2>4. ASSUME j = i PROVE together(f, m, n)
    <3>1. ASSUME NEW k \in (m + 1 .. n) \cup (n + 1 .. m) PROVE f.lines[k].is # "start"
      <4>1. k \in i + 1 .. n \/ k \in j + 1 .. m
        BY <1>1, <2>1, <2>4, <3>1
      <4> QED
        BY <1>1, <2>1, <4>1
    <3> QED
      BY <3>1 DEF together
  <2> QED
    BY <2>2, <2>3, <2>4
<1>4. ASSUME NEW m \in named(f), together(f, m, n) PROVE m \in references(f.lines, i)
  <2>1. PICK j \in startsOf(f) : m \in references(f.lines, j)
    BY ReferencesAreInGroups
  <2>2. /\ j \in DOMAIN f.lines /\ f.lines[j].is = "start"
        /\ m \in DOMAIN f.lines /\ j < m /\ \A k \in j + 1 .. m : f.lines[k].is # "start"
    BY <2>1 DEF startsOf, linesOf, references
  <2>3. ~(j < i)
    BY <1>3, <1>4, <2>1
  <2>4. ~(j > i)
    <3>1. ASSUME j > i PROVE FALSE
      <4>1. j > n
        <5>1. ASSUME ~(j > n) PROVE FALSE
          <6>1. j \in i + 1 .. n
            BY <1>1, <2>2, <3>1, <5>1
          <6> QED
            BY <1>1, <2>2, <6>1
        <5> QED
          BY <5>1
      <4>2. j \in n + 1 .. m
        BY <1>1, <2>2, <4>1
      <4> QED
        BY <1>4, <2>2, <4>2 DEF together
    <3> QED
      BY <3>1
  <2>5. j = i
    BY <1>1, <2>2, <2>3, <2>4
  <2> QED
    BY <2>1, <2>5
<1> QED
  BY <1>2, <1>3, <1>4

\* The references that are found are those with none before them in another group.
LEMMA FirstGroupIsFound ==
  ASSUME NEW f, IsFile(f), f.type = "csharp", NEW n
  PROVE  n \in packageReferences(f.lines) <=>
           n \in named(f) /\ \A m \in named(f) : m < n => together(f, m, n)
<1>1. \A m \in named(f) : m \in Nat
  BY DEF named, IsFile
<1>2. ASSUME n \in packageReferences(f.lines)
      PROVE  n \in named(f) /\ \A m \in named(f) : m < n => together(f, m, n)
  <2>1. PICK i \in startsOf(f) :
          /\ n \in references(f.lines, i)
          /\ \A k \in startsOf(f) : k < i => references(f.lines, k) = {}
    BY <1>2 DEF packageReferences, startsOf
  <2>2. ASSUME NEW m \in named(f), m < n PROVE together(f, m, n)
    <3>1. PICK j \in startsOf(f) : m \in references(f.lines, j)
      BY ReferencesAreInGroups
    <3>2. i \in Nat /\ j \in Nat /\ m \in Nat /\ n \in Nat
      BY <1>1, <2>1 DEF startsOf, linesOf, IsFile, references
    <3>3. ~(j < i)
      BY <2>1, <3>1
    <3>4. ~(j > i)
      <4>1. j > i => m > n
        BY <2>1, <3>1, GroupsReferTogether
      <4> QED
        BY <2>2, <3>2, <4>1
    <3>5. j = i
      BY <3>2, <3>3, <3>4
    <3> QED
      BY <2>1, <3>1, <3>5, GroupsReferTogether
  <2> QED
    BY <2>1, <2>2, GroupsReferTogether
<1>3. ASSUME n \in named(f), \A m \in named(f) : m < n => together(f, m, n)
      PROVE  n \in packageReferences(f.lines)
  <2>1. PICK i \in startsOf(f) : n \in references(f.lines, i)
    BY <1>3, ReferencesAreInGroups
  <2>2. ASSUME NEW k \in startsOf(f), k < i, NEW m \in references(f.lines, k) PROVE FALSE
    <3>1. m \in named(f)
      BY <2>2, GroupsReferTogether
    <3>2. m < n /\ ~together(f, m, n)
      BY <2>1, <2>2, GroupsReferTogether
    <3> QED
      BY <1>3, <3>1, <3>2
  <2> QED
    BY <2>1, <2>2 DEF packageReferences, startsOf
<1> QED
  BY <1>2, <1>3

LEMMA GroupsAreNamed ==
  ASSUME NEW f, IsFile(f), f.readable, f.type = "csharp"
  PROVE  (IF parses(f) THEN packageReferences(f.lines) ELSE {}) = named(f) \ passedOver(f)
<1> DEFINE refs == packageReferences(f.lines)
           before(n) == \E m \in named(f) : m < n /\ ~together(f, m, n)
           alone(n) == \A m \in named(f) : together(f, m, n) => m = n
<1>1. \A n : n \in refs <=> n \in named(f) /\ ~before(n)
  BY FirstGroupIsFound
<1>2. \A n \in named(f) : n \in passedOver(f) <=> before(n) \/ alone(n)
  <2>1. \A n \in named(f) : f.lines[n].is \notin {"single", "nested"}
    <3>1. "single" \notin openers(f.type)
      BY DEF openers
    <3> QED
      BY <3>1 DEF named
  <2> QED
    BY <2>1 DEF passedOver
<1>3. named(f) \subseteq Nat /\ named(f) \subseteq DOMAIN f.lines
  BY DEF named, IsFile
<1>4. \A m, n : together(f, m, n) <=> together(f, n, m)
  BY DEF together
<1>5. ASSUME NEW n \in refs PROVE alone(n) <=> refs = {n}
  <2>1. n \in named(f) /\ ~before(n)
    BY <1>1, <1>5
  <2>2. ASSUME alone(n) PROVE refs = {n}
    <3>1. ASSUME NEW m \in refs PROVE m = n
      <4>1. m \in named(f) /\ ~before(m)
        BY <1>1, <3>1
      <4>2. CASE m < n
        BY <2>1, <2>2, <4>1, <4>2
      <4>3. CASE n < m
        BY <1>4, <2>1, <2>2, <4>1, <4>3
      <4> QED
        BY <1>3, <2>1, <4>1, <4>2, <4>3
    <3> QED
      BY <1>5, <3>1
  <2>3. ASSUME refs = {n}, NEW m \in named(f), together(f, m, n) PROVE m = n
    <3>1. PICK i \in startsOf(f) :
            /\ n \in references(f.lines, i)
            /\ \A k \in startsOf(f) : k < i => references(f.lines, k) = {}
      BY <1>5 DEF packageReferences, startsOf
    <3>2. m \in references(f.lines, i)
      BY <2>3, <3>1, GroupsReferTogether
    <3>3. m \in refs
      BY <3>1, <3>2 DEF packageReferences, startsOf
    <3> QED
      BY <2>3, <3>3
  <2> QED
    BY <2>2, <2>3
<1>6. parses(f) <=> \A n \in DOMAIN f.lines : refs # {n}
  BY DEF parses
<1>7. ASSUME NEW n
      PROVE  n \in (IF parses(f) THEN refs ELSE {}) <=> n \in named(f) /\ ~before(n) /\ ~alone(n)
  <2> HIDE DEF refs, before, alone
  <2>1. CASE n \notin refs
    BY <1>1, <2>1
  <2>2. CASE n \in refs
    <3>1. n \in named(f) /\ ~before(n) /\ n \in DOMAIN f.lines
      BY <1>1, <1>3, <2>2
    <3>2. parses(f) <=> refs # {n}
      BY <1>6, <2>2, <3>1
    <3> QED
      BY <1>5, <2>2, <3>1, <3>2
  <2> QED
    BY <2>1, <2>2
<1>8. \A n : n \in named(f) \ passedOver(f) <=> n \in named(f) /\ ~before(n) /\ ~alone(n)
  BY <1>2
<1> HIDE DEF before, alone
<1> QED
  BY <1>7, <1>8

LEMMA ParsedIsNamed ==
  ASSUME NEW f, IsFile(f), wellFormed(f)
  PROVE  foundIn(f) = offeredBy(f)
<1>1. CASE ~(isDependencyFile(f) /\ f.readable)
  BY <1>1 DEF foundIn, librariesOf, offeredBy, parses
<1>2. CASE isDependencyFile(f) /\ f.readable
  <2>1. (IF parses(f) THEN parseDependencyFile(f.type, f.lines) ELSE {}) = named(f) \ passedOver(f)
    <3>1. CASE f.type \in DOMAIN endCondition
      <4>1. f.type # "csharp"
        BY <3>1 DEF endCondition
      <4> QED
        BY <1>2, <3>1, <4>1, SectionsAreNamed DEF parses
    <3>2. CASE f.type = "csharp"
      <4>1. parseDependencyFile(f.type, f.lines) = packageReferences(f.lines)
        BY <3>2 DEF parseDependencyFile, endCondition
      <4> QED
        BY <1>2, <3>2, <4>1, GroupsAreNamed
    <3>3. CASE f.type \notin DOMAIN endCondition /\ f.type # "csharp"
      <4>1. /\ parses(f)
            /\ parseDependencyFile(f.type, f.lines) = linesOf(f.lines, {"library"})
        BY <1>2, <3>3 DEF parses, parseDependencyFile
      <4>2. f.type # "conanpy" /\ "single" \notin openers(f.type)
        BY <3>3 DEF endCondition, openers
      <4>3. \A n : n \in named(f) \ passedOver(f)
                     <=> n \in DOMAIN f.lines /\ f.lines[n].is = "library"
        BY <3>3, <4>2 DEF named, passedOver
      <4> QED
        BY <4>1, <4>3 DEF linesOf
    <3> QED
      BY <3>1, <3>2, <3>3
  <2> QED
    BY <1>2, <2>1 DEF foundIn, librariesOf, offeredBy
<1> QED
  BY <1>1, <1>2

-----------------------------------------------------------------------------
\* A search looks at whole repositories and, unless a file was edited meanwhile, has
\* of the files that were read what is in them.
SourcesAreFiles == DOMAIN sources = SourceFiles /\ \A f \in SourceFiles : IsFile(sources[f])

ScanIsWhole ==
  /\ scan = [files |-> scan.files, query |-> scan.query, libs |-> scan.libs,
             crossed |-> scan.crossed, edits |-> scan.edits]
  /\ scan.files \subseteq SourceFiles
  /\ \A f \in scan.files : filesOf(RepositoryOf[f]) \subseteq scan.files
  /\ DOMAIN scan.libs \subseteq scan.files
  /\ \A f \in scan.files \ DOMAIN scan.libs : isDependencyFile(sources[f])
  /\ scan.crossed \in BOOLEAN

ScanReadsFiles ==
  ~scan.crossed => \A f \in DOMAIN scan.libs :
    RepositoryOf[f] \notin disabledRepositories => scan.libs[f] = foundIn(sources[f])

ItemsAreOfFiles ==
  ~dependencies.crossed => \A r \in DOMAIN dependencies.items \ disabledRepositories :
    /\ \A f \in filesOf(r) : IsFile(dependencies.files[f])
    /\ dependencies.items[r] = UNION {foundIn(dependencies.files[f]) : f \in filesOf(r)}

DependencyInv == SourcesAreFiles /\ ScanIsWhole /\ ScanReadsFiles /\ ItemsAreOfFiles

LEMMA NoScanReads ==
  /\ NoScan.files = {} /\ DOMAIN NoScan.libs = {} /\ NoScan.crossed = FALSE
  /\ NoScan = [files |-> NoScan.files, query |-> NoScan.query, libs |-> NoScan.libs,
               crossed |-> NoScan.crossed, edits |-> NoScan.edits]
  /\ NoItems.crossed = TRUE
<1>1. DOMAIN <<>> = {}
  OBVIOUS
<1> QED
  BY <1>1 DEF NoScan, NoItems

LEMMA DependencyInitInv == DependencyInit => DependencyInv
<1> SUFFICES ASSUME DependencyInit PROVE DependencyInv
  OBVIOUS
<1>1. DOMAIN sources = SourceFiles /\ \A f \in SourceFiles : IsFile(sources[f])
  BY FilesHaveLines DEF DependencyInit, IsFile
<1>2. scan = NoScan /\ dependencies = NoItems
  BY DEF DependencyInit
<1> QED
  BY <1>1, <1>2, NoScanReads DEF DependencyInv, SourcesAreFiles, ScanIsWhole, ScanReadsFiles, ItemsAreOfFiles

LEMMA ScanBeginsKeeps ==
  ASSUME DependencyInv, NEW query \in {""} \cup RepositoriesOf(SourceFiles), ScanBegins(query)
  PROVE  DependencyInv'
<1> DEFINE asked == IF query = "" THEN RepositoriesOf(SourceFiles) ELSE {query}
           files == {f \in SourceFiles : RepositoryOf[f] \in asked}
           outside == {g \in files : ~ (/\ RepositoryOf[g] \notin disabledRepositories
                                        /\ isDependencyFile(sources[g]))}
           libs == [f \in outside |-> {}]
<1>1. /\ scan' = [NoScan EXCEPT !.files = files, !.query = query, !.libs = libs]
      /\ dependencies' = NoItems /\ UNCHANGED <<sources, disabledRepositories>>
  BY DEF ScanBegins
<1>2. scan' = [files |-> files, query |-> query, libs |-> libs, crossed |-> FALSE, edits |-> 0]
  <2> HIDE DEF files, libs
  <2> QED
    BY <1>1 DEF NoScan
<1>3. \A f \in files : filesOf(RepositoryOf[f]) \subseteq files
  BY DEF filesOf
<1>4. \A f \in outside : RepositoryOf[f] \notin disabledRepositories => foundIn(sources[f]) = {}
  BY DEF foundIn
<1>8. \A f \in files \ outside : isDependencyFile(sources[f])
  OBVIOUS
<1> HIDE DEF asked
<1>5. scan'.files = files /\ scan'.libs = libs /\ ~scan'.crossed /\ scan'.crossed \in BOOLEAN
  BY <1>2
<1>6. /\ files \subseteq SourceFiles /\ DOMAIN libs = outside /\ outside \subseteq files
      /\ \A f \in outside : libs[f] = {}
  OBVIOUS
<1>7. scan' = [files |-> scan'.files, query |-> scan'.query, libs |-> scan'.libs,
               crossed |-> scan'.crossed, edits |-> scan'.edits]
  BY <1>2
<1> HIDE DEF files, outside, libs
<1> QED
  BY <1>1, <1>3, <1>4, <1>5, <1>6, <1>7, <1>8 DEF DependencyInv, SourcesAreFiles, ScanIsWhole, ScanReadsFiles, ItemsAreOfFiles, NoItems

LEMMA FileReadKeeps ==
  ASSUME DependencyInv, NEW f \in SourceFiles, FileRead(f)
  PROVE  DependencyInv'
<1> DEFINE librariesFound == librariesOf(sources[f])
           libs == [g \in DOMAIN scan.libs \cup {f} |-> IF g # f THEN scan.libs[g] ELSE librariesFound]
<1>1. /\ f \in scan.files \ DOMAIN scan.libs
      /\ scan' = [scan EXCEPT !.libs = libs]
      /\ UNCHANGED <<sources, disabledRepositories, dependencies>>
  BY DEF FileRead
<1>2. librariesFound = foundIn(sources[f])
  BY <1>1 DEF DependencyInv, SourcesAreFiles, ScanIsWhole, ScanReadsFiles, ItemsAreOfFiles, foundIn
<1>3. /\ DOMAIN libs = DOMAIN scan.libs \cup {f} /\ libs[f] = librariesFound
      /\ \A g \in DOMAIN scan.libs : libs[g] = scan.libs[g]
  BY <1>1
<1> HIDE DEF librariesFound, libs
<1>4. /\ scan'.files = scan.files /\ scan'.libs = libs /\ scan'.crossed = scan.crossed
      /\ scan' = [files |-> scan'.files, query |-> scan'.query, libs |-> scan'.libs,
                  crossed |-> scan'.crossed, edits |-> scan'.edits]
  BY <1>1 DEF DependencyInv, SourcesAreFiles, ScanIsWhole, ScanReadsFiles, ItemsAreOfFiles
<1> QED
  BY <1>1, <1>2, <1>3, <1>4 DEF DependencyInv, SourcesAreFiles, ScanIsWhole, ScanReadsFiles, ItemsAreOfFiles

LEMMA ScanEndsKeeps ==
  ASSUME DependencyInv, ScanEnds
  PROVE  DependencyInv'
<1> DEFINE items == [r \in RepositoriesOf(scan.files) |-> UNION {scan.libs[f] : f \in filesOf(r)}]
<1>1. /\ DOMAIN scan.libs = scan.files
      /\ dependencies' = [items |-> items, crossed |-> scan.crossed, files |-> sources]
      /\ scan' = NoScan /\ UNCHANGED <<sources, disabledRepositories>>
  BY DEF ScanEnds
<1>2. ASSUME ~scan.crossed, NEW r \in RepositoriesOf(scan.files) \ disabledRepositories
      PROVE  /\ \A f \in filesOf(r) : IsFile(sources[f])
             /\ items[r] = UNION {foundIn(sources[f]) : f \in filesOf(r)}
  <2>1. PICK g \in scan.files : r = RepositoryOf[g]
    BY DEF RepositoriesOf
  <2>2. filesOf(r) \subseteq scan.files
    BY <2>1 DEF DependencyInv, SourcesAreFiles, ScanIsWhole, ScanReadsFiles, ItemsAreOfFiles
  <2>3. \A f \in filesOf(r) : f \in SourceFiles /\ RepositoryOf[f] = r
    BY DEF filesOf
  <2>4. \A f \in filesOf(r) : scan.libs[f] = foundIn(sources[f])
    BY <1>1, <1>2, <2>2, <2>3 DEF DependencyInv, SourcesAreFiles, ScanIsWhole, ScanReadsFiles, ItemsAreOfFiles
  <2>5. {scan.libs[f] : f \in filesOf(r)} = {foundIn(sources[f]) : f \in filesOf(r)}
    BY <2>4
  <2> QED
    BY <2>3, <2>5 DEF DependencyInv, SourcesAreFiles, ScanIsWhole, ScanReadsFiles, ItemsAreOfFiles
<1>3. /\ dependencies'.items = items /\ dependencies'.crossed = scan.crossed
      /\ dependencies'.files = sources /\ DOMAIN items = RepositoriesOf(scan.files)
  BY <1>1
<1> HIDE DEF items
<1>4. SourcesAreFiles' /\ ScanIsWhole' /\ ScanReadsFiles'
  BY <1>1, NoScanReads DEF DependencyInv, SourcesAreFiles, ScanIsWhole, ScanReadsFiles, ItemsAreOfFiles
<1>5. ItemsAreOfFiles'
  BY <1>1, <1>2, <1>3 DEF ItemsAreOfFiles
<1> QED
  BY <1>4, <1>5 DEF DependencyInv

LEMMA SourceEditedKeeps ==
  ASSUME DependencyInv, NEW f \in SourceFiles, SourceEdited(f)
  PROVE  DependencyInv'
<1>1. PICK canRead \in BOOLEAN :
        sources' = [sources EXCEPT ![f].lines = <<>>, ![f].readable = canRead]
  BY DEF SourceEdited
<1>2. /\ scan' = [scan EXCEPT !.crossed = TRUE, !.edits = @ + 1]
      /\ UNCHANGED <<disabledRepositories, dependencies>>
  BY DEF SourceEdited
<1>3. /\ DOMAIN sources' = SourceFiles
      /\ \A g \in SourceFiles \ {f} : sources'[g] = sources[g]
      /\ sources'[f] = [type |-> sources[f].type, lines |-> <<>>, readable |-> canRead]
  <2>1. f \in DOMAIN sources /\ DOMAIN sources = SourceFiles /\ IsFile(sources[f])
    BY DEF DependencyInv, SourcesAreFiles, ScanIsWhole, ScanReadsFiles, ItemsAreOfFiles
  <2>2. sources' = [sources EXCEPT ![f] = [[sources[f] EXCEPT !.lines = <<>>] EXCEPT !.readable = canRead]]
    BY <1>1, <2>1
  <2>3. sources[f] = [type |-> sources[f].type, lines |-> sources[f].lines,
                      readable |-> sources[f].readable]
    BY <2>1 DEF IsFile
  <2>4. ASSUME NEW x, NEW u, NEW v, NEW t, NEW ls, NEW b, NEW e, NEW y,
               x = [type |-> t, lines |-> ls, readable |-> b],
               u = [x EXCEPT !.lines = e], v = [u EXCEPT !.readable = y]
        PROVE  v = [type |-> t, lines |-> e, readable |-> y]
    <3>1. u = [type |-> t, lines |-> e, readable |-> b]
      BY <2>4
    <3> QED
      BY <2>4, <3>1
  <2>5. [[sources[f] EXCEPT !.lines = <<>>] EXCEPT !.readable = canRead]
          = [type |-> sources[f].type, lines |-> <<>>, readable |-> canRead]
    <3> DEFINE u == [sources[f] EXCEPT !.lines = <<>>]
               v == [u EXCEPT !.readable = canRead]
    <3>1. u = [sources[f] EXCEPT !.lines = <<>>] /\ v = [u EXCEPT !.readable = canRead]
      OBVIOUS
    <3> HIDE DEF u, v
    <3>2. v = [type |-> sources[f].type, lines |-> <<>>, readable |-> canRead]
      BY <2>3, <2>4, <3>1
    <3> QED
      BY <3>2 DEF u, v
  <2>6. sources'[f] = [[sources[f] EXCEPT !.lines = <<>>] EXCEPT !.readable = canRead]
    BY <2>1, <2>2
  <2>7. DOMAIN sources' = SourceFiles /\ \A g \in SourceFiles \ {f} : sources'[g] = sources[g]
    BY <2>1, <2>2
  <2> QED
    BY <2>5, <2>6, <2>7
<1>4. \A g \in SourceFiles : IsFile(sources'[g]) /\ sources'[g].type = sources[g].type
  <2>1. IsFile(sources'[f]) /\ sources'[f].type = sources[f].type
    BY <1>3 DEF IsFile
  <2> QED
    BY <1>3, <2>1 DEF DependencyInv, SourcesAreFiles, ScanIsWhole, ScanReadsFiles, ItemsAreOfFiles
<1>5. /\ scan'.files = scan.files /\ scan'.libs = scan.libs /\ scan'.crossed = TRUE
      /\ scan' = [files |-> scan'.files, query |-> scan'.query, libs |-> scan'.libs,
                  crossed |-> scan'.crossed, edits |-> scan'.edits]
  BY <1>2 DEF DependencyInv, SourcesAreFiles, ScanIsWhole, ScanReadsFiles, ItemsAreOfFiles
<1>6. \A g \in SourceFiles : isDependencyFile(sources[g]) => isDependencyFile(sources'[g])
  BY <1>4 DEF isDependencyFile
<1> QED
  BY <1>2, <1>3, <1>4, <1>5, <1>6 DEF DependencyInv, SourcesAreFiles, ScanIsWhole, ScanReadsFiles, ItemsAreOfFiles

LEMMA DependencyStep == DependencyInv /\ [DependencyNext]_dependencyVars => DependencyInv'
<1> SUFFICES ASSUME DependencyInv, [DependencyNext]_dependencyVars PROVE DependencyInv'
  OBVIOUS
<1>1. CASE \E query \in {""} \cup RepositoriesOf(SourceFiles) : ScanBegins(query)
  BY <1>1, ScanBeginsKeeps
<1>2. CASE \E f \in SourceFiles : FileRead(f)
  BY <1>2, FileReadKeeps
<1>3. CASE \E f \in SourceFiles : SourceEdited(f)
  BY <1>3, SourceEditedKeeps
<1>4. CASE ScanEnds
  BY <1>4, ScanEndsKeeps
<1>5. CASE UNCHANGED dependencyVars
  BY <1>5 DEF dependencyVars, DependencyInv, SourcesAreFiles, ScanIsWhole, ScanReadsFiles, ItemsAreOfFiles
<1> QED
  BY <1>1, <1>2, <1>3, <1>4, <1>5 DEF DependencyNext

\* A search that nobody's edit crossed has read all of the dependency files of the
\* repositories that it is about (findDependencies, ScanBegins to ScanEnds).
THEOREM ScansReadWholeRepositories == DependencySpec => []DependencyInv
<1> QED
  BY DependencyInitInv, DependencyStep, PTL DEF DependencySpec

\* The libraries that the chat is offered are those that the files name, but for those that
\* a parser is known to lose (scanBySection, scanCSharpProject, scanCppConanPy and the reads
\* of findDependencies), whatever the type of a file, its lines and the order of the reads.
THEOREM DependenciesAreThoseOfTheFilesCorrect ==
  DependencySpec => []DependenciesAreThoseOfTheFiles
<1>1. DependencyInv => DependenciesAreThoseOfTheFiles
  <2> SUFFICES ASSUME DependencyInv, ~dependencies.crossed, NEW r \in DOMAIN dependencies.items,
                      r \notin disabledRepositories,
                      \A f \in filesOf(r) : wellFormed(dependencies.files[f])
               PROVE  dependencies.items[r] = UNION {offeredBy(dependencies.files[f]) : f \in filesOf(r)}
    BY DEF DependenciesAreThoseOfTheFiles
  <2>1. /\ \A f \in filesOf(r) : IsFile(dependencies.files[f])
        /\ dependencies.items[r] = UNION {foundIn(dependencies.files[f]) : f \in filesOf(r)}
    BY DEF DependencyInv, SourcesAreFiles, ScanIsWhole, ScanReadsFiles, ItemsAreOfFiles
  <2>2. \A f \in filesOf(r) : foundIn(dependencies.files[f]) = offeredBy(dependencies.files[f])
    BY <2>1, ParsedIsNamed
  <2>3. {foundIn(dependencies.files[f]) : f \in filesOf(r)}
          = {offeredBy(dependencies.files[f]) : f \in filesOf(r)}
    BY <2>2
  <2> QED
    BY <2>1, <2>3
<1> QED
  BY <1>1, ScansReadWholeRepositories, PTL

-----------------------------------------------------------------------------
(* AdvancedContext.  What a request takes along is cut by running totals   *)
(* over the tabs.  That a total is what the one before it and one tab make *)
(* is shown by the least place that breaks it, as is that the totals of    *)
(* the whole and of the cut agree before the cut.                          *)

\* What a tab adds, and the totals up to a place.
adds(sizes, i) == IF i \in DOMAIN sizes THEN sizes[i] ELSE 0
totalled(start, sizes, total, i) == IF i = 0 THEN start ELSE total[i - 1] + adds(sizes, i)
totalledTo(start, sizes, total, last) ==
  total = [i \in 0..last |-> totalled(start, sizes, total, i)]

LEMMA TotalsExist ==
  ASSUME NEW start, NEW sizes, NEW last \in Nat
  PROVE  \E total : totalledTo(start, sizes, total, last)
<1> DEFINE T == {k \in Nat : ~ \E total : totalledTo(start, sizes, total, k)}
<1> SUFFICES ASSUME T # {} PROVE FALSE
  OBVIOUS
<1>1. PICK k \in T : \A j \in T : ~(j < k)
  <2>1. T \subseteq Nat
    OBVIOUS
  <2> HIDE DEF T
  <2> QED
    BY <2>1, SmallestOf
<1>2. CASE k = 0
  <2> DEFINE t == [i \in 0..0 |-> start]
  <2>1. \A i \in 0..0 : i = 0 /\ totalled(start, sizes, t, i) = start
    BY DEF totalled
  <2>2. t = [i \in 0..0 |-> start]
    OBVIOUS
  <2> HIDE DEF t
  <2>3. totalledTo(start, sizes, t, 0)
    BY <2>1, <2>2 DEF totalledTo
  <2> QED
    BY <1>1, <1>2, <2>3
<1>3. CASE k # 0
  <2>1. k - 1 \in Nat /\ k - 1 < k
    BY <1>1, <1>3
  <2>2. PICK s : totalledTo(start, sizes, s, k - 1)
    BY <1>1, <2>1
  <2> DEFINE t == [i \in 0..k |-> IF i = k THEN totalled(start, sizes, s, k) ELSE s[i]]
  <2>3. s = [i \in 0..(k - 1) |-> totalled(start, sizes, s, i)]
    BY <2>2 DEF totalledTo
  <2>4. ASSUME NEW i \in 0..k PROVE t[i] = totalled(start, sizes, t, i)
    <3>1. CASE i = 0
      BY <1>3, <2>1, <2>3, <3>1 DEF totalled
    <3>2. CASE i # 0
      <4>1. i - 1 \in 0..k /\ i - 1 # k /\ i \in Nat
        BY <2>1, <3>2
      <4>2. t[i - 1] = s[i - 1]
        BY <4>1
      <4>3. totalled(start, sizes, t, i) = totalled(start, sizes, s, i)
        BY <4>2 DEF totalled
      <4>4. t[i] = totalled(start, sizes, s, i)
        <5>1. CASE i = k
          BY <5>1
        <5>2. CASE i # k
          <6>1. i \in 0..(k - 1)
            BY <2>1, <5>2
          <6> QED
            BY <2>3, <5>2, <6>1
        <5> QED
          BY <5>1, <5>2
      <4> QED
        BY <4>3, <4>4
    <3> QED
      BY <3>1, <3>2
  <2>5. totalledTo(start, sizes, t, k)
    <3>1. t = [i \in 0..k |-> t[i]]
      OBVIOUS
    <3> HIDE DEF t
    <3> QED
      BY <2>4, <3>1 DEF totalledTo
  <2> QED
    BY <1>1, <2>5
<1> QED
  BY <1>2, <1>3

LEMMA TotalsTotal ==
  ASSUME NEW start, NEW sizes, Len(tabs) \in Nat
  PROVE  /\ totals(start, sizes)[0] = start
         /\ \A i \in 1..Len(tabs) :
              totals(start, sizes)[i] = totals(start, sizes)[i - 1] + adds(sizes, i)
<1>1. \E s : totalledTo(start, sizes, s, Len(tabs))
  BY TotalsExist
<1>2. totals(start, sizes) = CHOOSE t : totalledTo(start, sizes, t, Len(tabs))
  BY DEF totals, totalledTo, totalled, adds
<1>3. totalledTo(start, sizes, totals(start, sizes), Len(tabs))
  BY <1>1, <1>2
<1> HIDE DEF totals
<1>4. \A i \in 0..Len(tabs) : totals(start, sizes)[i] = totalled(start, sizes, totals(start, sizes), i)
  BY <1>3 DEF totalledTo
<1>5. 0 \in 0..Len(tabs) /\ \A i \in 1..Len(tabs) : i \in 0..Len(tabs) /\ i # 0
  OBVIOUS
<1> QED
  BY <1>4, <1>5 DEF totalled

\* What holds of no tab, and of each place if of the one before it, holds of all.
LEMMA PlacesFollow ==
  ASSUME NEW last \in Nat, NEW S, 0 \in S, \A i \in 1..last : i - 1 \in S => i \in S
  PROVE  0..last \subseteq S
<1> DEFINE T == (0..last) \ S
<1> SUFFICES ASSUME T # {} PROVE FALSE
  OBVIOUS
<1>1. T \subseteq Nat
  OBVIOUS
<1>2. PICK k \in T : \A j \in T : ~(j < k)
  <2> HIDE DEF T
  <2> QED
    BY <1>1, SmallestOf
<1>3. k \in 1..last /\ k - 1 \in 0..last /\ k - 1 < k
  BY <1>2
<1>4. k - 1 \in S
  BY <1>2, <1>3
<1> QED
  BY <1>2, <1>3, <1>4

LEMMA TotalsAreNumbers ==
  ASSUME NEW start \in Nat, NEW sizes, Len(tabs) \in Nat, \A i \in DOMAIN sizes : sizes[i] \in Nat
  PROVE  \A i \in 0..Len(tabs) : totals(start, sizes)[i] \in Nat
<1> DEFINE S == {i \in 0..Len(tabs) : totals(start, sizes)[i] \in Nat}
<1>1. \A i : adds(sizes, i) \in Nat
  BY DEF adds
<1>2. 0 \in S
  BY TotalsTotal
<1>3. ASSUME NEW i \in 1..Len(tabs), i - 1 \in S PROVE i \in S
  <2>1. i \in 0..Len(tabs) /\ totals(start, sizes)[i] = totals(start, sizes)[i - 1] + adds(sizes, i)
    BY TotalsTotal
  <2> QED
    BY <1>1, <1>3, <2>1
<1> HIDE DEF S
<1>4. 0..Len(tabs) \subseteq S
  BY <1>2, <1>3, PlacesFollow
<1> QED
  BY <1>4 DEF S

LEMMA TotalsAgree ==
  ASSUME NEW start, NEW sizes, NEW others, Len(tabs) \in Nat, NEW last \in 0..Len(tabs),
         \A i \in 1..last : adds(sizes, i) = adds(others, i)
  PROVE  \A i \in 0..last : totals(start, sizes)[i] = totals(start, others)[i]
<1> DEFINE S == {i \in 0..last : totals(start, sizes)[i] = totals(start, others)[i]}
<1>1. 0 \in S
  BY TotalsTotal
<1>2. ASSUME NEW i \in 1..last, i - 1 \in S PROVE i \in S
  <2>1. i \in 0..last /\ i \in 1..Len(tabs)
    OBVIOUS
  <2>2. /\ totals(start, sizes)[i] = totals(start, sizes)[i - 1] + adds(sizes, i)
        /\ totals(start, others)[i] = totals(start, others)[i - 1] + adds(others, i)
    BY <2>1, TotalsTotal
  <2> QED
    BY <1>2, <2>1, <2>2
<1> HIDE DEF S
<1>3. last \in Nat
  OBVIOUS
<1>4. 0..last \subseteq S
  BY <1>1, <1>2, <1>3, PlacesFollow
<1> QED
  BY <1>4 DEF S

\* If no total at a file exceeds the limit, then none does from the first file on.
LEMMA TotalsStayWithin ==
  ASSUME NEW start, NEW sizes, Len(tabs) \in Nat, NEW last \in 0..Len(tabs), NEW limit,
         \A i \in 0..Len(tabs) : totals(start, sizes)[i] \in Nat,
         \A i \in 1..last : i \in DOMAIN sizes => totals(start, sizes)[i] <= limit
  PROVE  \A i \in 0..last : (\E j \in 1..i : j \in DOMAIN sizes) => totals(start, sizes)[i] <= limit
<1> DEFINE S == {i \in 0..last : (\E j \in 1..i : j \in DOMAIN sizes) => totals(start, sizes)[i] <= limit}
<1>1. 0 \in S
  OBVIOUS
<1>2. ASSUME NEW i \in 1..last, i - 1 \in S PROVE i \in S
  <2>1. i \in 0..last /\ i \in 1..Len(tabs) /\ i - 1 \in 0..Len(tabs)
    OBVIOUS
  <2>2. CASE i \in DOMAIN sizes
    BY <2>1, <2>2
  <2>3. CASE i \notin DOMAIN sizes
    <3>1. totals(start, sizes)[i] = totals(start, sizes)[i - 1] + 0
      BY <2>1, <2>3, TotalsTotal DEF adds
    <3>2. totals(start, sizes)[i] = totals(start, sizes)[i - 1]
      BY <2>1, <3>1
    <3>3. ASSUME NEW j \in 1..i, j \in DOMAIN sizes PROVE j \in 1..(i - 1)
      BY <2>3, <3>3
    <3> QED
      BY <1>2, <2>1, <3>2, <3>3
  <2> QED
    BY <2>2, <2>3
<1> HIDE DEF S
<1>3. last \in Nat
  OBVIOUS
<1>4. 0..last \subseteq S
  BY <1>1, <1>2, <1>3, PlacesFollow
<1> QED
  BY <1>4 DEF S

\* After the last file the total stays.
LEMMA TotalsStay ==
  ASSUME NEW start, NEW sizes, Len(tabs) \in Nat, NEW last \in 0..Len(tabs),
         \A i \in 0..Len(tabs) : totals(start, sizes)[i] \in Nat,
         \A i \in (last + 1)..Len(tabs) : i \notin DOMAIN sizes
  PROVE  totals(start, sizes)[Len(tabs)] = totals(start, sizes)[last]
<1> DEFINE S == {i \in 0..Len(tabs) : i >= last => totals(start, sizes)[i] = totals(start, sizes)[last]}
<1>1. 0 \in S
  OBVIOUS
<1>2. ASSUME NEW i \in 1..Len(tabs), i - 1 \in S PROVE i \in S
  <2>1. CASE i <= last
    BY <2>1
  <2>2. CASE i > last
    <3>1. i \in (last + 1)..Len(tabs) /\ i - 1 >= last /\ i - 1 \in 0..Len(tabs)
      BY <2>2
    <3>2. totals(start, sizes)[i] = totals(start, sizes)[i - 1] + 0
      BY <3>1, TotalsTotal DEF adds
    <3> QED
      BY <1>2, <3>1, <3>2
  <2> QED
    BY <2>1, <2>2
<1> HIDE DEF S
<1>3. 0..Len(tabs) \subseteq S
  BY <1>1, <1>2, PlacesFollow
<1>4. Len(tabs) \in 0..Len(tabs)
  OBVIOUS
<1> QED
  BY <1>3, <1>4 DEF S

-----------------------------------------------------------------------------
\* A uri has one tab at most; sizes are numbers.
Tab == [uri : Documents, size : Nat, folder : {FolderBelow[d] : d \in Documents} \cup {"none"}]
distinct(ts) == \A i, j \in DOMAIN ts : ts[i].uri = ts[j].uri => i = j
TabsInv ==
  /\ DOMAIN open \subseteq Documents /\ \A u \in DOMAIN open : open[u] \in Nat
  /\ tabs \in Seq(Tab) /\ distinct(tabs)

LEMMA CutFits ==
  ASSUME TabsInv, NEW documentSize \in Nat, NEW files \in SUBSET DOMAIN tabs, NEW torn \in 0..2,
         DOMAIN byteSizeLimitFilter(files, documentSize, torn) # {}
  PROVE  totals(documentSize, byteSizeLimitFilter(files, documentSize, torn))[Len(tabs)]
           <= RequestLimit + 2
<1> DEFINE sizes == sizesOf(files)
           total == totals(documentSize, sizes)
           over == {i \in files : total[i] > RequestLimit}
           first == CHOOSE i \in over : \A j \in over : i <= j
           kept == tabs[first].size - (total[first] - RequestLimit)
           cut == byteSizeLimitFilter(files, documentSize, torn)
<1>1. /\ DOMAIN sizes = files /\ files \subseteq 1..Len(tabs) /\ Len(tabs) \in Nat
      /\ \A i \in files : sizes[i] = tabs[i].size /\ sizes[i] \in Nat
  <2>1. \A i \in DOMAIN tabs : tabs[i] \in Tab
    BY DEF TabsInv
  <2> QED
    BY <2>1 DEF TabsInv, Tab, sizesOf
<1>2. \A i \in 0..Len(tabs) : total[i] \in Nat
  <2> HIDE DEF sizes
  <2> QED
    BY <1>1, TotalsAreNumbers
<1>3. RequestLimit \in Nat
  BY SizesAreNumbers
<1>4. CASE over = {}
  <2>1. cut = sizes
    BY <1>4 DEF byteSizeLimitFilter
  <2>2. \A i \in 1..Len(tabs) : i \in DOMAIN sizes => total[i] <= RequestLimit
    BY <1>1, <1>2, <1>3, <1>4
  <2>3. PICK j \in 1..Len(tabs) : j \in DOMAIN sizes
    BY <1>1, <2>1
  <2> HIDE DEF sizes, cut
  <2>4. Len(tabs) \in 0..Len(tabs)
    BY <1>1
  <2>5. \A i \in 0..Len(tabs) :
          (\E n \in 1..i : n \in DOMAIN sizes) => total[i] <= RequestLimit
    BY <1>1, <1>2, <2>2, <2>4, TotalsStayWithin
  <2>6. total[Len(tabs)] <= RequestLimit
    BY <2>3, <2>4, <2>5
  <2> QED
    BY <1>2, <1>3, <2>1, <2>4, <2>6 DEF cut
<1>5. CASE over # {}
  <2>1. first \in over /\ \A j \in over : first <= j
    <3>1. over \subseteq Nat
      BY <1>1
    <3>2. PICK x \in over : \A y \in over : ~(y < x)
      <4> HIDE DEF over
      <4> QED
        BY <1>5, <3>1, SmallestOf
    <3>3. \A y \in over : x <= y
      BY <3>1, <3>2
    <3> HIDE DEF over
    <3> QED
      BY <3>2, <3>3
  <2>2. cut = [i \in {j \in files : j < first \/ (j = first /\ kept > 0)} |->
                 IF i = first THEN kept + torn ELSE tabs[i].size]
    BY <1>5 DEF byteSizeLimitFilter
  <2>3. first \in files /\ total[first] > RequestLimit /\ first \in 1..Len(tabs)
    BY <1>1, <2>1
  <2>4. total[first] = total[first - 1] + tabs[first].size
    <3> HIDE DEF first, sizes
    <3> QED
      BY <1>1, <2>3, TotalsTotal DEF adds
  <2>5. /\ first - 1 \in 0..Len(tabs) /\ first \in 0..Len(tabs)
        /\ total[first - 1] \in Nat /\ total[first] \in Nat /\ tabs[first].size \in Nat
    BY <1>1, <1>2, <2>3
  <2>6. kept \in Int /\ kept + total[first - 1] = RequestLimit
    <3> HIDE DEF first, total
    <3> QED
      BY <1>3, <2>4, <2>5
  <2>7. /\ DOMAIN cut = {j \in files : j < first \/ (j = first /\ kept > 0)}
        /\ \A i \in DOMAIN cut : cut[i] = IF i = first THEN kept + torn ELSE tabs[i].size
    BY <2>2
  <2> HIDE DEF cut, kept, first, total, sizes
  <2>8. \A i \in 1..(first - 1) : adds(cut, i) = adds(sizes, i)
    BY <1>1, <2>3, <2>7 DEF adds
  <2>9. \A i \in 0..(first - 1) : totals(documentSize, cut)[i] = total[i]
    BY <1>1, <2>5, <2>8, TotalsAgree DEF total
  <2>10. \A i \in DOMAIN cut : cut[i] \in Nat
    BY <1>1, <2>6, <2>7
  <2>11. \A i \in 0..Len(tabs) : totals(documentSize, cut)[i] \in Nat
    BY <1>1, <2>10, TotalsAreNumbers
  <2>12. \A i \in (first + 1)..Len(tabs) : i \notin DOMAIN cut
    BY <2>3, <2>7
  <2>13. totals(documentSize, cut)[Len(tabs)] = totals(documentSize, cut)[first]
    BY <1>1, <2>5, <2>11, <2>12, TotalsStay
  <2>14. totals(documentSize, cut)[first] = total[first - 1] + adds(cut, first)
    BY <1>1, <2>3, <2>5, <2>9, TotalsTotal
  <2>15. CASE kept > 0
    <3>1. adds(cut, first) = kept + torn
      BY <2>3, <2>7, <2>15 DEF adds
    <3> QED
      BY <1>3, <2>5, <2>6, <2>13, <2>14, <3>1 DEF cut
  <2>16. CASE ~(kept > 0)
    <3>1. adds(cut, first) = 0
      BY <2>3, <2>7, <2>16 DEF adds
    <3>2. PICK j \in files : j < first
      BY <2>7, <2>16 DEF cut
    <3>3. \A i \in 1..(first - 1) : i \in DOMAIN sizes => total[i] <= RequestLimit
      BY <1>1, <1>2, <1>3, <2>1, <2>3
    <3>4. \A i \in 0..(first - 1) :
            (\E n \in 1..i : n \in DOMAIN sizes) => total[i] <= RequestLimit
      BY <1>1, <1>2, <2>5, <3>3, TotalsStayWithin DEF total
    <3>5. j \in 1..(first - 1) /\ j \in DOMAIN sizes /\ first - 1 \in 0..(first - 1)
      BY <1>1, <2>3, <3>2
    <3>6. total[first - 1] <= RequestLimit
      BY <3>4, <3>5
    <3> QED
      BY <1>3, <2>5, <2>13, <2>14, <3>1, <3>6 DEF cut
  <2> QED
    BY <2>15, <2>16
<1> QED
  BY <1>4, <1>5

LEMMA RemoveAtRemoves ==
  ASSUME NEW S, NEW s \in Seq(S), NEW k \in DOMAIN s
  PROVE  /\ RemoveAt(s, k) \in Seq(S) /\ DOMAIN RemoveAt(s, k) = 1..(Len(s) - 1)
         /\ \A i \in 1..(Len(s) - 1) : RemoveAt(s, k)[i] = s[IF i < k THEN i ELSE i + 1]
<1> DEFINE u == SubSeq(s, 1, k - 1)
           v == SubSeq(s, k + 1, Len(s))
<1>1. k \in 1..Len(s) /\ Len(s) \in Nat
  OBVIOUS
<1>2. u \in Seq(S) /\ Len(u) = k - 1 /\ \A i \in 1..(k - 1) : u[i] = s[i]
  BY <1>1
<1>3. v \in Seq(S) /\ Len(v) = Len(s) - k /\ \A i \in 1..(Len(s) - k) : v[i] = s[k + i]
  BY <1>1
<1> HIDE DEF u, v
<1>4. RemoveAt(s, k) = u \o v
  BY DEF RemoveAt, u, v
<1>5. u \o v \in Seq(S) /\ Len(u \o v) = Len(s) - 1
  BY <1>1, <1>2, <1>3
<1>6. ASSUME NEW i \in 1..(Len(s) - 1) PROVE (u \o v)[i] = s[IF i < k THEN i ELSE i + 1]
  <2>1. CASE i < k
    BY <1>1, <1>2, <1>3, <2>1
  <2>2. CASE ~(i < k)
    <3>1. (u \o v)[i] = v[i - (k - 1)]
      BY <1>1, <1>2, <1>3, <2>2
    <3>2. i - (k - 1) \in 1..(Len(s) - k) /\ k + (i - (k - 1)) = i + 1
      BY <1>1, <2>2
    <3> QED
      BY <1>3, <2>2, <3>1, <3>2
  <2> QED
    BY <2>1, <2>2
<1> QED
  BY <1>4, <1>5, <1>6

LEMMA DeletedIsGone ==
  ASSUME NEW ts \in Seq(Tab), distinct(ts), NEW uri
  PROVE  /\ deleteFile(ts, uri) \in Seq(Tab) /\ distinct(deleteFile(ts, uri))
         /\ placesOf(deleteFile(ts, uri), uri) = {}
<1>1. CASE placesOf(ts, uri) = {}
  BY <1>1 DEF deleteFile
<1>2. CASE placesOf(ts, uri) # {}
  <2> DEFINE k == placeOf(ts, uri)
             rest == RemoveAt(ts, k)
  <2>1. k \in DOMAIN ts /\ ts[k].uri = uri
    BY <1>2 DEF placeOf, placesOf
  <2>2. deleteFile(ts, uri) = rest
    BY <1>2 DEF deleteFile
  <2> HIDE DEF k
  <2>3. /\ rest \in Seq(Tab) /\ DOMAIN rest = 1..(Len(ts) - 1)
        /\ \A i \in 1..(Len(ts) - 1) : rest[i] = ts[IF i < k THEN i ELSE i + 1]
    BY <2>1, RemoveAtRemoves
  <2> HIDE DEF rest
  <2>4. DOMAIN ts = 1..Len(ts) /\ Len(ts) \in Nat
    OBVIOUS
  <2> DEFINE at(i) == IF i < k THEN i ELSE i + 1
  <2>5. \A i \in DOMAIN rest : at(i) \in DOMAIN ts /\ at(i) # k /\ rest[i] = ts[at(i)]
    BY <2>1, <2>3, <2>4
  <2>6. \A i, j \in DOMAIN rest : at(i) = at(j) => i = j
    BY <2>1, <2>3, <2>4
  <2> HIDE DEF at
  <2>7. distinct(rest)
    BY <2>5, <2>6 DEF distinct
  <2>8. placesOf(rest, uri) = {}
    BY <2>1, <2>5 DEF distinct, placesOf
  <2> QED
    BY <2>2, <2>3, <2>7, <2>8
<1> QED
  BY <1>1, <1>2

LEMMA PrependedIsDistinct ==
  ASSUME NEW ts \in Seq(Tab), distinct(ts), NEW t \in Tab, placesOf(ts, t.uri) = {}, NEW n \in 0..Len(ts)
  PROVE  <<t>> \o SubSeq(ts, 1, n) \in Seq(Tab) /\ distinct(<<t>> \o SubSeq(ts, 1, n))
<1> DEFINE u == SubSeq(ts, 1, n)
           v == <<t>> \o u
<1>1. u \in Seq(Tab) /\ Len(u) = n /\ \A i \in 1..n : u[i] = ts[i]
  OBVIOUS
<1> HIDE DEF u
<1>2. v \in Seq(Tab) /\ DOMAIN v = 1..(n + 1) /\ v[1] = t /\ \A i \in 2..(n + 1) : v[i] = u[i - 1]
  BY <1>1
<1> HIDE DEF v
<1>3. \A i \in 2..(n + 1) : i - 1 \in 1..n /\ i - 1 \in DOMAIN ts /\ v[i] = ts[i - 1]
  BY <1>1, <1>2
<1>4. \A i \in DOMAIN v : i = 1 \/ i \in 2..(n + 1)
  BY <1>2
<1>5. \A i \in 2..(n + 1) : v[i].uri # t.uri
  BY <1>3 DEF placesOf
<1>6. ASSUME NEW i \in DOMAIN v, NEW j \in DOMAIN v, v[i].uri = v[j].uri PROVE i = j
  <2>1. CASE i = 1 \/ j = 1
    BY <1>2, <1>4, <1>5, <1>6, <2>1
  <2>2. CASE i # 1 /\ j # 1
    <3>1. i \in 2..(n + 1) /\ j \in 2..(n + 1)
      BY <1>4, <2>2
    <3>2. i - 1 = j - 1
      BY <1>3, <1>6, <3>1 DEF distinct
    <3> QED
      BY <3>1, <3>2
  <2> QED
    BY <2>1, <2>2
<1> QED
  BY <1>2, <1>6 DEF distinct, v, u

LEMMA UpdatedIsDistinct ==
  ASSUME NEW ts \in Seq(Tab), distinct(ts), NEW t \in Tab
  PROVE  updateFile(ts, t) \in Seq(Tab) /\ distinct(updateFile(ts, t))
<1> DEFINE rest == deleteFile(ts, t.uri)
           fitting == {n \in 0..Len(rest) : sizeOf(<<t>> \o SubSeq(rest, 1, n)) <= LruLimit}
           most == CHOOSE n \in fitting : \A m \in fitting : m <= n
<1>1. rest \in Seq(Tab) /\ distinct(rest) /\ placesOf(rest, t.uri) = {}
  BY DeletedIsGone
<1>2. updateFile(ts, t) = IF fitting = {} THEN rest ELSE <<t>> \o SubSeq(rest, 1, most)
  BY DEF updateFile
<1>3. ASSUME fitting # {} PROVE most \in 0..Len(rest)
  <2>1. Len(rest) \in Nat
    BY <1>1
  <2> DEFINE short(n) == Len(rest) - n
             T == {short(n) : n \in fitting}
  <2>2. \A n \in fitting : n \in 0..Len(rest) /\ short(n) \in Nat
    BY <2>1
  <2> HIDE DEF fitting
  <2>3. T \subseteq Nat /\ T # {}
    BY <1>3, <2>2
  <2>4. PICK x \in T : \A y \in T : ~(y < x)
    <3> HIDE DEF T
    <3> QED
      BY <2>3, SmallestOf
  <2>5. PICK n \in fitting : x = short(n)
    BY <2>4
  <2>6. \A m \in fitting : ~(short(m) < short(n))
    BY <2>4, <2>5
  <2>7. \A m \in fitting : m <= n
    BY <2>1, <2>2, <2>6
  <2>8. most \in fitting
    BY <2>7
  <2> QED
    BY <2>2, <2>8
<1> HIDE DEF rest, fitting, most
<1>4. CASE fitting = {}
  BY <1>1, <1>2, <1>4
<1>5. CASE fitting # {}
  BY <1>1, <1>2, <1>3, <1>5, PrependedIsDistinct
<1> QED
  BY <1>4, <1>5

LEMMA TouchedIsDistinct ==
  ASSUME NEW ts \in Seq(Tab), distinct(ts), NEW uri, placesOf(ts, uri) # {}
  PROVE  touched(ts, uri) \in Seq(Tab) /\ distinct(touched(ts, uri))
<1> DEFINE t == ts[placeOf(ts, uri)]
           rest == deleteFile(ts, uri)
<1>1. t \in Tab /\ t.uri = uri
  BY DEF placeOf, placesOf
<1>2. rest \in Seq(Tab) /\ distinct(rest) /\ placesOf(rest, uri) = {}
  BY DeletedIsGone
<1>3. touched(ts, uri) = <<t>> \o rest
  BY DEF touched
<1> HIDE DEF t, rest
<1>4. SubSeq(rest, 1, Len(rest)) = rest /\ Len(rest) \in 0..Len(rest)
  BY <1>2
<1> QED
  BY <1>1, <1>2, <1>3, <1>4, PrependedIsDistinct

LEMMA ContextIsTab ==
  ASSUME NEW uri \in Documents, NEW size \in Nat
  PROVE  getContext(uri, size) \in Tab /\ getContext(uri, size).size = size
BY DEF getContext, Tab

LEMMA TabsStep == TabsInv /\ [TabsNext]_advancedVars => TabsInv'
<1> SUFFICES ASSUME TabsInv, [TabsNext]_advancedVars PROVE TabsInv'
  OBVIOUS
<1> USE DEF TabsInv
<1>1. CASE AccessNext /\ UNCHANGED tabVars
  BY <1>1 DEF tabVars
<1>2. ASSUME NEW d \in Documents, NEW n \in Sizes, DidOpenOrChange(d, n) PROVE TabsInv'
  <2>1. n \in Nat
    BY SizesAreNumbers
  <2>2. getContext(d, n) \in Tab
    BY <2>1, ContextIsTab
  <2>3. open' = [u \in DOMAIN open \cup {d} |-> IF u = d THEN n ELSE open[u]]
    BY <1>2 DEF DidOpenOrChange
  <2>4. DOMAIN open' \subseteq Documents /\ \A u \in DOMAIN open' : open'[u] \in Nat
    BY <2>1, <2>3
  <2>5. tabs' = updateFile(tabs, getContext(d, n))
    BY <1>2 DEF DidOpenOrChange
  <2> QED
    BY <2>2, <2>4, <2>5, UpdatedIsDistinct
<1>3. ASSUME NEW d \in Documents, DidSaveOrSetActive(d) PROVE TabsInv'
  <2>1. /\ d \in DOMAIN open /\ open' = open
        /\ tabs' = updateFile(tabs, getContext(d, open[d]))
    BY <1>3 DEF DidSaveOrSetActive
  <2>2. getContext(d, open[d]) \in Tab
    BY <2>1, ContextIsTab
  <2> QED
    BY <2>1, <2>2, UpdatedIsDistinct
<1>4. ASSUME NEW d \in Documents, DidClose(d) PROVE TabsInv'
  <2>1. /\ open' = [u \in DOMAIN open \ {d} |-> open[u]]
        /\ tabs' = deleteFile(tabs, d)
    BY <1>4 DEF DidClose
  <2>2. DOMAIN open' \subseteq Documents /\ \A u \in DOMAIN open' : open'[u] \in Nat
    BY <2>1
  <2> QED
    BY <2>1, <2>2, DeletedIsGone
<1>5. ASSUME NEW d \in Documents, ReadOpenTab(d) PROVE TabsInv'
  <2>1. placesOf(tabs, d) # {} /\ tabs' = touched(tabs, d) /\ open' = open
    BY <1>5 DEF ReadOpenTab
  <2> QED
    BY <2>1, TouchedIsDistinct
<1>6. ASSUME NEW allow, NEW deny, UpdateLanguages(allow, deny) PROVE TabsInv'
  BY <1>6 DEF UpdateLanguages
<1>7. CASE UNCHANGED advancedVars
  BY <1>7 DEF advancedVars, tabVars
<1> QED
  BY <1>1, <1>2, <1>3, <1>4, <1>5, <1>6, <1>7 DEF TabsNext

\* A uri has one tab at most, however documents are opened, changed, saved, closed and
\* read and the cache evicts (OpenTabsLruCache, which is a map).
THEOREM TabsAreDistinct == TabsSpec => []TabsInv
<1>1. TabsInit => TabsInv
  BY DEF TabsInit, TabsInv, distinct
<1> QED
  BY <1>1, TabsStep, PTL DEF TabsSpec

\* What a request takes along fits, with the document, into the limit and the two bytes of
\* a character that the cut tears apart (byteSizeLimitFilter), for any documents and sizes.
THEOREM ContextFitsCorrect == TabsSpec => []ContextFits
<1>1. TabsInv => ContextFits
  <2> SUFFICES ASSUME TabsInv, NEW u \in DOMAIN open, NEW torn \in 0..2,
                      DOMAIN getAdvancedContext(u, torn) # {}
               PROVE  totals(open[u], getAdvancedContext(u, torn))[Len(tabs)] <= RequestLimit + 2
    BY DEF ContextFits
  <2> DEFINE current == getContext(u, open[u])
             files == supportedLanguageFilter(
                 duoProjectAccessFilter(emptyContentFilter(buildContext(current)), current.folder))
  <2>1. u \in Documents /\ open[u] \in Nat
    BY DEF TabsInv
  <2>2. current.size = open[u]
    BY <2>1, ContextIsTab
  <2>3. getAdvancedContext(u, torn) = byteSizeLimitFilter(files, open[u], torn)
    BY <2>2 DEF getAdvancedContext
  <2>4. files \in SUBSET DOMAIN tabs
    BY DEF supportedLanguageFilter, duoProjectAccessFilter, emptyContentFilter, buildContext,
           mostRecentFiles
  <2> HIDE DEF files
  <2> QED
    BY <2>1, <2>3, <2>4, CutFits
<1> QED
  BY <1>1, TabsAreDistinct, PTL

-----------------------------------------------------------------------------
(* Repositories.  What a repository lacks, or has too many, of the disk is *)
(* told by an event in the queue or added by a job at work; what a walk    *)
(* missed is too, or it is stale.                                          *)

Events == [type : {"Created", "Changed", "Deleted"}, uri : Files \cup Dirs]
Jobs == [pc : {"lstat", "walk", "refresh"}, uri : Files \cup Dirs,
         root : DOMAIN ConfigOf \cup {"gone"}, files : SUBSET Files]
Walks == [by : {"vfs", "event"}, stage : {"walking", "queued", "building"}, holds : BOOLEAN,
          q : Nat, files : SUBSET Files, missed : SUBSET Files, todo : SUBSET DOMAIN ConfigOf]
RepositoryRecords ==
  [files : SUBSET Files, ignored : SUBSET Files, dirs : SUBSET Dirs,
   rules : SUBSET IgnoreFiles, tracked : SUBSET Files]

DiskTypes ==
  /\ disk \in [files : SUBSET Files, index : SUBSET ((DOMAIN IndexOf) \X Files), changes : Nat]
  /\ "listeners" \in DOMAIN vfs /\ vfs.listeners \in Int
  /\ stale \subseteq Files

QueueTypes ==
  /\ queue \in [events : Seq(Events), paused : BOOLEAN]
  /\ \A m \in DOMAIN queue.events :
       queue.events[m].type = "Changed" => queue.events[m].uri \in Files

SetsTypes ==
  /\ sets \in Seq(Walks)
  /\ setQueue \in [current : Nat, made : Nat]

ReposTypes ==
  /\ jobs \subseteq Jobs
  /\ DOMAIN repos \subseteq DOMAIN ConfigOf
  /\ \A r \in DOMAIN repos : repos[r] \in RepositoryRecords

\* The root that a uri is of: it contains the uri, and no other does that is below it.
owns(roots, r, uri) == r \in matching(roots, uri) /\ matching(roots, uri) \cap Below[r] = {}

\* Events that tell of a file that it is there, or that it is gone.
tellsOf(e, f) ==
  \/ e.uri = f /\ e.type \in {"Created", "Changed"}
  \/ e.type = "Created" /\ e.uri \in Dirs /\ f \in Below[e.uri]
tellsOfEnd(e, f) == e.type = "Deleted" /\ (e.uri = f \/ (e.uri \in Dirs /\ f \in Below[e.uri]))

Told(f, k) == \E m \in DOMAIN queue.events : m > k /\ tellsOf(queue.events[m], f)
ToldOfEnd(f, k) == \E m \in DOMAIN queue.events : m > k /\ tellsOfEnd(queue.events[m], f)

\* All depends on an ignore file: whoever missed one missed all.
Closed(uris) == uris \cap IgnoreFiles # {} => uris = Files

\* The repositories of the set at work that it has not set up; every set that
\* handles an event and has not begun yet replaces all of them.
ToDo == UNION {sets[i].todo : i \in DOMAIN sets}
AllAnew == \E i \in DOMAIN sets : sets[i].by = "event" /\ sets[i].stage # "building"

\* What the queue says of a file ends with what is on disk.
EventsInOrder ==
  \A f \in Files \ stale, k \in DOMAIN queue.events :
    /\ f \in disk.files /\ tellsOfEnd(queue.events[k], f) => Told(f, k)
    /\ f \notin disk.files /\ queue.events[k].uri = f /\ queue.events[k].type = "Changed"
         => ToldOfEnd(f, k)

\* One set is at work on repositories, the last that began; what it missed is stale.
SetIsSound(s) ==
  /\ s.by = "event" => s.holds
  /\ Closed(s.missed)
  /\ s.todo # {} =>
       /\ s.stage = "building" /\ s.missed \subseteq stale /\ s.todo \subseteq DOMAIN repos
       /\ s.by = "event" => \A j \in jobs : j.pc = "lstat" => j.root = "gone"
OneAtWork == \A i, k \in DOMAIN sets : sets[i].todo # {} /\ sets[k].todo # {} => i = k
SetsFollow == OneAtWork /\ Closed(stale) /\ \A i \in DOMAIN sets : SetIsSound(sets[i])

\* What a walk found is what is on disk, but for what it missed or will be told.
WalkKnows(s) ==
  s.stage # "building" \/ s.todo # {} =>
    \A f \in Files \ s.missed :
      /\ f \in disk.files /\ f \notin s.files => Told(f, 0)
      /\ f \notin disk.files /\ f \in s.files => ToldOfEnd(f, 0)
WalksKnow == \A i \in DOMAIN sets : WalkKnows(sets[i])

\* Jobs add files of their repository only; a directory is walked alone.
OfDirectory(j) == j.pc = "walk" \/ (j.pc = "lstat" /\ j.uri \in Dirs)
JobIsSound(j) ==
  /\ j.pc = "lstat" => j.uri \notin Configs \cup IgnoreFiles
  /\ j.pc = "lstat" /\ j.root # "gone" =>
       j.root \in DOMAIN repos /\ owns(DOMAIN repos, j.root, j.uri)
  /\ j.pc = "walk" => j.uri \in Dirs
JobsFollow ==
  /\ \A j \in jobs : JobIsSound(j)
  /\ \A j \in jobs : OfDirectory(j) =>
       /\ \A k \in jobs : k.pc # "refresh" => k = j
       /\ \A i \in DOMAIN sets : ~sets[i].holds

\* A repository has files of its own only, with their directories.
RepositoryIsSound(r) ==
  /\ \A f \in repos[r].files : owns(DOMAIN repos, r, f)
  /\ \A f \in repos[r].files, d \in Dirs \cap Below[r] : f \in Below[d] => d \in repos[r].dirs
  /\ r \in ToDo => repos[r].files \subseteq stale \ IgnoreFiles
  /\ repos[r].rules = repos[r].files \cap IgnoreFiles \/ AllAnew
RepositoriesFollow == \A r \in DOMAIN repos : RepositoryIsSound(r)

\* Whoever will add file f to repository r.
JobAdds(f, r) ==
  \E j \in jobs :
    \/ j.pc = "lstat" /\ j.uri = f /\ j.root = r
    \/ j.pc = "lstat" /\ j.uri \in Dirs /\ f \in Below[j.uri]
    \/ j.pc = "walk" /\ f \in Below[j.uri] /\ f \in j.files

FileIsKnown(f, r) ==
  /\ f \in disk.files /\ f \notin repos[r].files => Told(f, 0) \/ JobAdds(f, r)
  /\ f \notin disk.files /\ f \in repos[r].files => ToldOfEnd(f, 0)

IndexIsTold(r) ==
  \/ \E m \in DOMAIN queue.events :
       queue.events[m].uri = IndexOf[r] /\ queue.events[m].type # "Deleted"
  \/ \E j \in jobs : j.pc = "refresh" /\ j.root = r
TrackedIsKnown(f, r) ==
  /\ f \in repos[r].tracked => <<r, f>> \in disk.index
  /\ <<r, f>> \in disk.index /\ f \notin repos[r].tracked => IndexIsTold(r)
  /\ f \in repos[r].files =>
       /\ f \in repos[r].ignored => ignores(repos[r].rules, f)
       /\ f \notin repos[r].ignored => ~ignores(repos[r].rules, f) \/ <<r, f>> \in disk.index

\* The files that the repositories account for.
accounted(f, r) == f \in Files \ stale /\ owns(DOMAIN repos, r, f) /\ r \notin ToDo
FilesKnown == \A f \in Files, r \in DOMAIN repos : accounted(f, r) => AllAnew \/ FileIsKnown(f, r)
TrackedKnown == \A f \in Files, r \in DOMAIN repos : accounted(f, r) => TrackedIsKnown(f, r)

RepositoriesInv ==
  /\ DiskTypes /\ QueueTypes /\ SetsTypes /\ ReposTypes
  /\ EventsInOrder /\ SetsFollow /\ WalksKnow /\ JobsFollow
  /\ RepositoriesFollow /\ FilesKnown /\ TrackedKnown

\* The roots that a uri is in lie one in the other: one of them is the deepest.
LEMMA OwnerIsOne ==
  ASSUME NEW roots, roots \subseteq Dirs, NEW uri, uri \in Files \cup Dirs,
         NEW r, owns(roots, r, uri), NEW q, owns(roots, q, uri)
  PROVE  r = q
<1>1. r \in Dirs /\ q \in Dirs /\ uri \in Below[r] \cup {r} /\ uri \in Below[q] \cup {q}
  BY DEF owns, matching
<1>2. r \notin Below[q] /\ q \notin Below[r]
  BY DEF owns
<1>3. CASE uri \in Below[r] /\ uri \in Below[q]
  BY <1>1, <1>2, <1>3, UrisAreTree
<1>4. CASE uri = r \/ uri = q
  BY <1>1, <1>2, <1>4
<1> QED
  BY <1>1, <1>3, <1>4

LEMMA OwnerExists ==
  ASSUME NEW roots, roots \subseteq Dirs, NEW uri, matching(roots, uri) # {}
  PROVE  \E r : owns(roots, r, uri)
<1> DEFINE M == matching(roots, uri)
           T == {Cardinality(Below[r]) : r \in M}
<1>1. \A r \in M : r \in Dirs /\ IsFiniteSet(Below[r])
  BY UrisAreTree, FS_Subset DEF matching
<1>2. \A r \in M : Cardinality(Below[r]) \in Nat
  BY <1>1, FS_CardinalityType
<1>3. PICK x \in T : \A y \in T : ~(y < x)
  <2>1. T \subseteq Nat /\ T # {}
    BY <1>2
  <2> HIDE DEF T
  <2> QED
    BY <2>1, SmallestOf
<1>4. PICK r \in M : x = Cardinality(Below[r])
  BY <1>3
<1>5. ASSUME NEW q \in M \cap Below[r] PROVE FALSE
  <2>1. Below[q] \subseteq Below[r] /\ q \in Below[r] /\ q \notin Below[q]
    BY <1>1, <1>4, <1>5, UrisAreTree
  <2>2. Cardinality(Below[q]) < Cardinality(Below[r])
    BY <1>1, <2>1, FS_Subset, FS_CardinalityType, <1>2, <1>4, <1>5
  <2> QED
    BY <1>3, <1>4, <1>5, <2>2
<1> QED
  BY <1>4, <1>5 DEF owns

LEMMA MatchingRepositoryOwns ==
  ASSUME NEW roots, roots \subseteq Dirs, NEW uri, matching(roots, uri) # {}
  PROVE  owns(roots, matchingRepository(roots, uri), uri)
BY OwnerExists DEF owns, matchingRepository

\* The repository of a uri is the one that owns it.
LEMMA RepositoryOfOwns ==
  ASSUME ReposTypes, NEW uri \in Files \cup Dirs
  PROVE  /\ matched(uri) => owns(DOMAIN repos, repositoryOf(uri), uri) /\ repositoryOf(uri) \in DOMAIN repos
         /\ \A r : owns(DOMAIN repos, r, uri) => matched(uri) /\ r = repositoryOf(uri)
<1>1. DOMAIN repos \subseteq Dirs
  BY GitFilesAreFiles DEF ReposTypes
<1>2. matched(uri) => owns(DOMAIN repos, repositoryOf(uri), uri)
  BY <1>1, MatchingRepositoryOwns DEF matched, repositoryOf
<1>3. ASSUME NEW r, owns(DOMAIN repos, r, uri) PROVE matched(uri)
  BY <1>3 DEF owns, matched
<1> QED
  BY <1>1, <1>2, <1>3, OwnerIsOne DEF owns, matching

\* The files of a set are dealt out among the roots that own them.
LEMMA FilesGoToOwners ==
  ASSUME NEW roots, roots \subseteq Dirs, NEW files, files \subseteq Files, NEW r \in roots, NEW f
  PROVE  f \in getFilesByRepositories(files, roots)[r] <=> f \in files /\ owns(roots, r, f)
<1>1. f \in getFilesByRepositories(files, roots)[r]
        <=> f \in files /\ matching(roots, f) # {} /\ matchingRepository(roots, f) = r
  BY DEF getFilesByRepositories
<1>2. f \in files /\ owns(roots, r, f) => matching(roots, f) # {}
  BY DEF owns
<1> QED
  BY <1>1, <1>2, MatchingRepositoryOwns, OwnerIsOne

\* A root that owns a file below a directory is the directory's own, or below it.
LEMMA OwnersAreNested ==
  ASSUME NEW roots, roots \subseteq Dirs, NEW d \in Dirs, NEW f \in Files \cap Below[d],
         NEW r, owns(roots, r, f)
  PROVE  r = d \/ r \in Below[d] \/ (d \in Below[r] /\ owns(roots, r, d))
<1>1. r \in Dirs /\ f \in Below[r] /\ r \in roots
  BY UrisAreTree DEF owns, matching
<1>2. r = d \/ r \in Below[d] \/ d \in Below[r]
  BY <1>1, UrisAreTree
<1>3. ASSUME d \in Below[r] PROVE owns(roots, r, d)
  <2>1. r \in matching(roots, d)
    BY <1>1, <1>3 DEF matching
  <2>2. ASSUME NEW q \in matching(roots, d) \cap Below[r] PROVE FALSE
    <3>1. q \in Dirs /\ (Below[d] \subseteq Below[q])
      BY <2>2, UrisAreTree DEF matching
    <3>2. q \in matching(roots, f)
      BY <2>2, <3>1 DEF matching
    <3> QED
      BY <2>2, <3>2 DEF owns
  <2> QED
    BY <2>1, <2>2 DEF owns
<1> QED
  BY <1>2, <1>3

LEMMA AffectedIs ==
  ASSUME NEW uris
  PROVE  /\ affected(uris) \subseteq Files /\ uris \cap Files \subseteq affected(uris)
         /\ Closed(affected(uris))
         /\ \A d \in uris \cap Dirs : Below[d] \cap Files \subseteq affected(uris)
         /\ uris \cap (IgnoreFiles \cup Range(IndexOf)) # {} => affected(uris) = Files
         /\ \A more : uris \subseteq more => affected(uris) \subseteq affected(more)
<1> DEFINE below(us) == us \cup UNION {Below[d] : d \in us \cap Dirs}
<1>1. \A us : affected(us) = IF below(us) \cap (IgnoreFiles \cup Range(IndexOf)) # {}
                             THEN Files ELSE Files \cap below(us)
  BY DEF affected
<1>2. \A more : uris \subseteq more => below(uris) \subseteq below(more)
  OBVIOUS
<1>3. uris \subseteq below(uris) /\ \A d \in uris \cap Dirs : Below[d] \subseteq below(uris)
  OBVIOUS
<1> HIDE DEF below
<1> QED
  BY <1>1, <1>2, <1>3 DEF Closed

LEMMA ToldIsAffected ==
  ASSUME NEW e, NEW f \in Files, tellsOf(e, f) \/ tellsOfEnd(e, f)
  PROVE  f \in affected({e.uri})
<1>1. e.uri = f \/ (e.uri \in Dirs /\ f \in Below[e.uri])
  BY DEF tellsOf, tellsOfEnd
<1> QED
  BY <1>1, AffectedIs

LEMMA ClosedUnion ==
  ASSUME NEW s, s \subseteq Files, NEW t, t \subseteq Files, Closed(s), Closed(t)
  PROVE  Closed(s \cup t)
BY DEF Closed

isWithFiles(new, repo, root, fs) ==
  /\ new \in RepositoryRecords
  /\ new.files = repo.files \cup fs /\ new.rules = repo.rules /\ new.tracked = repo.tracked
  /\ \A f : f \in new.ignored
       <=> IF f \in fs THEN f \notin repo.tracked /\ ignores(repo.rules, f) ELSE f \in repo.ignored
  /\ \A d : d \in new.dirs
       <=> d \in repo.dirs \/ (d \in Dirs \cap Below[root] /\ fs \cap Below[d] # {})

LEMMA SetFilesIs ==
  ASSUME NEW repo \in RepositoryRecords, NEW root, NEW fs, fs \subseteq Files
  PROVE  isWithFiles(setFiles(repo, root, fs), repo, root, fs)
<1> DEFINE I == {f \in fs : isFileIgnored(repo, f)}
           D == {d \in Dirs \cap Below[root] : fs \cap Below[d] # {}}
<1>1. I \subseteq fs /\ D \subseteq Dirs
  OBVIOUS
<1>2. setFiles(repo, root, fs) = [repo EXCEPT !.files = @ \cup fs, !.ignored = (@ \ fs) \cup I, !.dirs = @ \cup D]
  BY DEF setFiles
<1> HIDE DEF I, D
<1>3. /\ setFiles(repo, root, fs) \in RepositoryRecords
      /\ setFiles(repo, root, fs).files = repo.files \cup fs
      /\ setFiles(repo, root, fs).rules = repo.rules
      /\ setFiles(repo, root, fs).tracked = repo.tracked
      /\ setFiles(repo, root, fs).ignored = (repo.ignored \ fs) \cup I
      /\ setFiles(repo, root, fs).dirs = repo.dirs \cup D
  BY <1>1, <1>2 DEF RepositoryRecords
<1>4. /\ \A f : f \in I <=> f \in fs /\ f \notin repo.tracked /\ ignores(repo.rules, f)
      /\ \A d : d \in D <=> d \in Dirs \cap Below[root] /\ fs \cap Below[d] # {}
  BY DEF I, D, isFileIgnored
<1> QED
  BY <1>1, <1>3, <1>4 DEF isWithFiles

LEMMA RemoveFileIs ==
  ASSUME NEW repo \in RepositoryRecords, NEW uri
  PROVE  LET one == removeFile(repo, uri)
             all == removeFilesUnderDirectory(repo, uri)
             under == Below[uri] \cup SamePrefix[uri] \cup {uri}
         IN  /\ one \in RepositoryRecords /\ all \in RepositoryRecords
             /\ one.files = repo.files \ {uri} /\ one.dirs = repo.dirs
             /\ all.files = repo.files \ under /\ all.dirs = repo.dirs \ under
             /\ one.rules = repo.rules /\ one.tracked = repo.tracked /\ one.ignored = repo.ignored
             /\ all.rules = repo.rules /\ all.tracked = repo.tracked /\ all.ignored = repo.ignored
<1> DEFINE U == Below[uri] \cup SamePrefix[uri] \cup {uri}
<1>1. removeFilesUnderDirectory(repo, uri) = [repo EXCEPT !.files = @ \ U, !.dirs = @ \ U]
  BY DEF removeFilesUnderDirectory
<1> HIDE DEF U
<1>2. /\ removeFilesUnderDirectory(repo, uri) \in RepositoryRecords
      /\ removeFilesUnderDirectory(repo, uri).files = repo.files \ U
      /\ removeFilesUnderDirectory(repo, uri).dirs = repo.dirs \ U
      /\ removeFilesUnderDirectory(repo, uri).rules = repo.rules
      /\ removeFilesUnderDirectory(repo, uri).tracked = repo.tracked
      /\ removeFilesUnderDirectory(repo, uri).ignored = repo.ignored
  BY <1>1 DEF RepositoryRecords
<1>3. /\ removeFile(repo, uri) \in RepositoryRecords
      /\ removeFile(repo, uri).files = repo.files \ {uri} /\ removeFile(repo, uri).dirs = repo.dirs
      /\ removeFile(repo, uri).rules = repo.rules /\ removeFile(repo, uri).tracked = repo.tracked
      /\ removeFile(repo, uri).ignored = repo.ignored
  BY DEF RepositoryRecords, removeFile
<1> QED
  BY <1>2, <1>3 DEF U

isAsSetUp(new, repo, root, list) ==
  /\ new \in RepositoryRecords
  /\ new.files = repo.files \cup list /\ new.rules = list \cap IgnoreFiles
  /\ new.tracked = getTrackedFiles(root)
  /\ \A f \in list :
       f \in new.ignored <=> f \notin getTrackedFiles(root) /\ ignores(list \cap IgnoreFiles, f)
  /\ \A d : d \in new.dirs
       <=> d \in repo.dirs \/ (d \in Dirs \cap Below[root] /\ list \cap Below[d] # {})

LEMMA SetUpIs ==
  ASSUME NEW repo \in RepositoryRecords, NEW root, NEW list, list \subseteq Files, readable(list)
  PROVE  isAsSetUp(setUp(repo, root, list), repo, root, list)
<1> DEFINE T == getTrackedFiles(root)
           R == list \cap IgnoreFiles
           base == [repo EXCEPT !.rules = R, !.tracked = T]
<1>1. T \subseteq Files /\ R \subseteq IgnoreFiles
  BY DEF getTrackedFiles
<1>2. setUp(repo, root, list) = setFiles(base, root, list)
  BY DEF setUp
<1> HIDE DEF T, R
<1>3. /\ base \in RepositoryRecords /\ base.files = repo.files /\ base.dirs = repo.dirs
      /\ base.ignored = repo.ignored /\ base.rules = R /\ base.tracked = T
  BY <1>1 DEF RepositoryRecords
<1> HIDE DEF base
<1> DEFINE new == setFiles(base, root, list)
<1>6. isWithFiles(new, base, root, list)
  BY <1>3, SetFilesIs
<1> HIDE DEF new
<1>7. /\ new \in RepositoryRecords /\ new.files = repo.files \cup list
      /\ new.rules = R /\ new.tracked = T
      /\ \A f \in list : f \in new.ignored <=> f \notin T /\ ignores(R, f)
      /\ \A d : d \in new.dirs <=> d \in repo.dirs \/ (d \in Dirs \cap Below[root] /\ list \cap Below[d] # {})
  BY <1>3, <1>6 DEF isWithFiles
<1> QED
  BY <1>2, <1>7 DEF T, R, new, isAsSetUp

\* The same walks, but for what they missed.
LEMMA MissingIs ==
  ASSUME SetsTypes, NEW lost, lost \subseteq Files \cup Dirs
  PROVE  LET new == missing(sets, lost)
         IN  /\ new \in Seq(Walks) /\ DOMAIN new = DOMAIN sets /\ Len(new) = Len(sets)
             /\ \A i \in DOMAIN sets :
                  /\ new[i].by = sets[i].by /\ new[i].stage = sets[i].stage
                  /\ new[i].holds = sets[i].holds /\ new[i].q = sets[i].q
                  /\ new[i].files = sets[i].files /\ new[i].todo = sets[i].todo
                  /\ new[i].missed = sets[i].missed \cup affected(lost)
<1>1. affected(lost) \subseteq Files
  BY AffectedIs
<1> DEFINE A == affected(lost)
           new == missing(sets, lost)
<1>2. new = [i \in DOMAIN sets |-> [sets[i] EXCEPT !.missed = @ \cup A]]
  BY DEF missing
<1>3. sets \in Seq(Walks) /\ DOMAIN sets = 1..Len(sets) /\ Len(sets) \in Nat
  BY DEF SetsTypes
<1> HIDE DEF A, new
<1>4. ASSUME NEW s \in Walks
      PROVE  LET t == [s EXCEPT !.missed = @ \cup A]
             IN  /\ t \in Walks
                 /\ t.by = s.by /\ t.stage = s.stage /\ t.holds = s.holds /\ t.q = s.q
                 /\ t.files = s.files /\ t.todo = s.todo /\ t.missed = s.missed \cup A
  BY <1>1 DEF Walks, A
<1>5. \A i \in DOMAIN sets : sets[i] \in Walks
  BY <1>3
<1>6. \A i \in DOMAIN sets : new[i] = [sets[i] EXCEPT !.missed = @ \cup A]
  BY <1>2
<1>7. new \in Seq(Walks) /\ DOMAIN new = DOMAIN sets /\ Len(new) = Len(sets)
  <2>1. DOMAIN new = 1..Len(sets) /\ \A i \in 1..Len(sets) : new[i] \in Walks
    BY <1>2, <1>3, <1>4, <1>5, <1>6
  <2>2. new \in [1..Len(sets) -> Walks]
    BY <1>2, <2>1, <1>3
  <2> QED
    BY <1>3, <2>2
<1> QED
  BY <1>4, <1>5, <1>6, <1>7 DEF A, new

LEMMA RepositoriesInitInv == RepositoriesInit => RepositoriesInv
<1> SUFFICES ASSUME RepositoriesInit PROVE RepositoriesInv
  OBVIOUS
<1>1. PICK files \in InitialDisks : disk = [files |-> files, index |-> {}, changes |-> 0]
  BY DEF RepositoriesInit
<1>2. files \subseteq Files
  BY GitFilesAreFiles
<1>3. DiskTypes
  BY <1>1, <1>2 DEF DiskTypes, RepositoriesInit
<1>4. QueueTypes /\ SetsTypes
  BY DEF QueueTypes, SetsTypes, RepositoriesInit
<1>5. DOMAIN repos = {} /\ DOMAIN queue.events = {} /\ DOMAIN sets = {} /\ jobs = {} /\ stale = {}
  BY DEF RepositoriesInit
<1>6. ReposTypes /\ EventsInOrder /\ SetsFollow /\ WalksKnow /\ JobsFollow
  BY <1>5 DEF ReposTypes, EventsInOrder, SetsFollow, OneAtWork, WalksKnow, JobsFollow, Closed
<1>7. RepositoriesFollow /\ FilesKnown /\ TrackedKnown
  BY <1>5 DEF RepositoriesFollow, FilesKnown, TrackedKnown
<1> QED
  BY <1>3, <1>4, <1>6, <1>7 DEF RepositoriesInv

\* At rest nothing is told any more and nothing is to do: what is known is so.
LEMMA InvShowsTheTruth == RepositoriesInv => SingleSourceOfTruth
<1> SUFFICES ASSUME RepositoriesInv, AtRest, NEW f \in Files \ stale, matched(f)
             PROVE LET root == repositoryOf(f)
                       rules == {g \in IgnoreFiles \cap disk.files :
                                   matching(DOMAIN repos, g) # {} /\ repositoryOf(g) = root}
                   IN  /\ \A r \in DOMAIN repos :
                            f \in repos[r].files <=> r = root /\ f \in disk.files
                       /\ f \in getCurrentFilesForWorkspace
                            <=> f \in disk.files /\ (<<root, f>> \in disk.index \/ ~ignores(rules, f))
  BY DEF SingleSourceOfTruth
<1> DEFINE root == repositoryOf(f)
           rules == {g \in IgnoreFiles \cap disk.files :
                       matching(DOMAIN repos, g) # {} /\ repositoryOf(g) = root}
<1>1. /\ DiskTypes /\ ReposTypes /\ SetsFollow
      /\ RepositoriesFollow /\ FilesKnown /\ TrackedKnown
  BY DEF RepositoriesInv
<1>2. DOMAIN queue.events = {} /\ jobs = {} /\ DOMAIN sets = {}
  BY DEF AtRest
<1>3. ToDo = {} /\ ~AllAnew
  BY <1>2 DEF ToDo, AllAnew
<1>4. \A g \in Files : ~Told(g, 0) /\ ~ToldOfEnd(g, 0) /\ \A r : ~JobAdds(g, r) /\ ~IndexIsTold(r)
  BY <1>2 DEF Told, ToldOfEnd, JobAdds, IndexIsTold
<1>5. ASSUME NEW g \in Files \ stale, NEW r \in DOMAIN repos, owns(DOMAIN repos, r, g)
      PROVE  /\ g \in repos[r].files <=> g \in disk.files
             /\ g \in repos[r].tracked <=> <<r, g>> \in disk.index
             /\ g \in repos[r].files =>
                  /\ g \in repos[r].ignored => ignores(repos[r].rules, g)
                  /\ g \notin repos[r].ignored =>
                       ~ignores(repos[r].rules, g) \/ <<r, g>> \in disk.index
  <2>1. accounted(g, r)
    BY <1>3, <1>5 DEF accounted
  <2>2. FileIsKnown(g, r) /\ TrackedIsKnown(g, r)
    BY <1>1, <1>3, <2>1 DEF FilesKnown, TrackedKnown
  <2> QED
    BY <1>4, <2>2 DEF FileIsKnown, TrackedIsKnown
<1>6. root \in DOMAIN repos /\ owns(DOMAIN repos, root, f)
  BY <1>1, RepositoryOfOwns
<1>7. ASSUME NEW r \in DOMAIN repos, NEW g \in repos[r].files
      PROVE  g \in Files /\ owns(DOMAIN repos, r, g) /\ matched(g) /\ r = repositoryOf(g)
  <2>1. g \in Files
    BY <1>1 DEF ReposTypes, RepositoryRecords
  <2>2. owns(DOMAIN repos, r, g)
    BY <1>1, <1>7 DEF RepositoriesFollow, RepositoryIsSound
  <2> QED
    BY <1>1, <2>1, <2>2, RepositoryOfOwns
<1>8. ASSUME NEW r \in DOMAIN repos
      PROVE  f \in repos[r].files <=> r = root /\ f \in disk.files
  BY <1>5, <1>6, <1>7
<1>9. stale \cap IgnoreFiles = {}
  BY <1>1 DEF SetsFollow, Closed, DiskTypes
<1>10. repos[root].rules = rules
  <2>1. repos[root].rules = repos[root].files \cap IgnoreFiles
    BY <1>1, <1>3, <1>6 DEF RepositoriesFollow, RepositoryIsSound
  <2>2. ASSUME NEW g \in rules PROVE g \in repos[root].rules
    <3>1. g \in Files \ stale /\ matched(g) /\ g \in disk.files /\ repositoryOf(g) = root
      BY <1>9, <2>2, GitFilesAreFiles DEF matched
    <3>2. owns(DOMAIN repos, root, g)
      BY <1>1, <3>1, RepositoryOfOwns
    <3> QED
      BY <1>5, <1>6, <2>1, <2>2, <3>1, <3>2
  <2>3. ASSUME NEW g \in repos[root].rules PROVE g \in rules
    <3>1. g \in repos[root].files /\ g \in IgnoreFiles
      BY <2>1, <2>3
    <3>2. g \in Files \ stale /\ owns(DOMAIN repos, root, g) /\ matched(g) /\ root = repositoryOf(g)
      BY <1>6, <1>7, <1>9, <3>1
    <3> QED
      BY <1>5, <1>6, <3>1, <3>2 DEF matched
  <2> QED
    BY <2>2, <2>3
<1> HIDE DEF root, rules
<1>11. f \in getCurrentFilesForWorkspace <=> f \in visible(repos[root])
  <2>1. \A r \in DOMAIN repos : f \in visible(repos[r]) => r = root
    BY <1>8 DEF visible
  <2> QED
    BY <1>6, <2>1 DEF getCurrentFilesForWorkspace
<1>12. f \in visible(repos[root])
         <=> f \in disk.files /\ (<<root, f>> \in disk.index \/ ~ignores(rules, f))
  BY <1>5, <1>6, <1>10 DEF visible
<1> QED
  BY <1>8, <1>11, <1>12 DEF root, rules

-----------------------------------------------------------------------------
\* Events that are appended leave the others in their places.
LEMMA EventsAreAppended ==
  ASSUME QueueTypes, NEW n \in Nat, NEW e \in Events, e.type = "Changed" => e.uri \in Files,
         queue' = [queue EXCEPT !.events = @ \o [i \in 1..n |-> e]]
  PROVE  /\ QueueTypes'
         /\ \A m \in DOMAIN queue.events :
              m \in DOMAIN queue'.events /\ queue'.events[m] = queue.events[m]
         /\ \A m \in DOMAIN queue'.events : m \in DOMAIN queue.events \/ queue'.events[m] = e
         /\ \A k \in DOMAIN queue.events \cup {0} :
              n > 0 => \E m \in DOMAIN queue'.events : m > k /\ queue'.events[m] = e
<1> DEFINE old == queue.events
           new == [i \in 1..n |-> e]
           all == old \o new
<1>1. old \in Seq(Events) /\ Len(old) \in Nat /\ DOMAIN old = 1..Len(old)
  BY DEF QueueTypes
<1>2. new \in Seq(Events) /\ Len(new) = n /\ \A i \in 1..n : new[i] = e
  <2>1. new \in [1..n -> Events]
    OBVIOUS
  <2> QED
    BY <2>1
<1>3. queue'.events = all /\ queue' \in [events : {all}, paused : BOOLEAN]
  BY DEF QueueTypes
<1> HIDE DEF old, new
<1>4. /\ all \in Seq(Events) /\ DOMAIN all = 1..(Len(old) + n)
      /\ \A i \in 1..(Len(old) + n) : all[i] = IF i <= Len(old) THEN old[i] ELSE new[i - Len(old)]
  BY <1>1, <1>2
<1>5. ASSUME NEW m \in DOMAIN all, m \notin DOMAIN old PROVE all[m] = e
  <2>1. ~(m <= Len(old)) /\ m - Len(old) \in 1..n /\ m \in 1..(Len(old) + n)
    BY <1>1, <1>4, <1>5
  <2> QED
    BY <1>2, <1>4, <2>1
<1>6. ASSUME NEW m \in DOMAIN old PROVE m \in DOMAIN all /\ all[m] = old[m]
  BY <1>1, <1>4
<1>7. ASSUME n > 0 PROVE Len(old) + n \in DOMAIN all /\ all[Len(old) + n] = e /\ Len(old) + n \notin DOMAIN old
  <2>1. Len(old) + n \in DOMAIN all /\ Len(old) + n \notin DOMAIN old
    BY <1>1, <1>4, <1>7
  <2> QED
    BY <1>5, <2>1
<1> HIDE DEF all
<1>8. QueueTypes'
  <2>1. \A m \in DOMAIN all : all[m].type = "Changed" => all[m].uri \in Files
    BY <1>5, <1>6 DEF QueueTypes, old
  <2> QED
    BY <1>3, <1>4, <2>1 DEF QueueTypes
<1>9. ASSUME NEW k \in DOMAIN old \cup {0}, n > 0
      PROVE  \E m \in DOMAIN all : m > k /\ all[m] = e
  BY <1>1, <1>7, <1>9
<1> QED
  BY <1>3, <1>5, <1>6, <1>8, <1>9 DEF old

LEMMA WalkIs ==
  ASSUME DiskTypes, NEW by \in {"vfs", "event"}
  PROVE  LET w == walk(by)
         IN  /\ w \in Walks /\ w.by = by /\ w.stage = "walking" /\ w.holds = (by = "event")
             /\ w.files = disk.files /\ w.missed = {} /\ w.todo = {}
BY DEF walk, Walks, DiskTypes

\* Of every walk it is noted what it missed; new ones may follow.
LEMMA WalksFollow ==
  ASSUME SetsTypes, NEW lost, lost \subseteq Files \cup Dirs, NEW w \in Walks, NEW new \in Seq({w}),
         sets' = missing(sets, lost) \o new
  PROVE  /\ sets' \in Seq(Walks)
         /\ \A i \in DOMAIN sets :
              /\ i \in DOMAIN sets'
              /\ sets'[i].by = sets[i].by /\ sets'[i].stage = sets[i].stage
              /\ sets'[i].holds = sets[i].holds
              /\ sets'[i].files = sets[i].files /\ sets'[i].todo = sets[i].todo
              /\ sets'[i].missed = sets[i].missed \cup affected(lost)
         /\ \A i \in DOMAIN sets' : i \in DOMAIN sets \/ (sets'[i] = w /\ new # <<>>)
         /\ new # <<>> => \E i \in DOMAIN sets' : sets'[i] = w
<1> DEFINE old == missing(sets, lost)
           all == old \o new
<1>1. /\ old \in Seq(Walks) /\ DOMAIN old = DOMAIN sets /\ Len(old) \in Nat /\ DOMAIN old = 1..Len(old)
      /\ \A i \in DOMAIN sets :
           /\ old[i].by = sets[i].by /\ old[i].stage = sets[i].stage
           /\ old[i].holds = sets[i].holds
           /\ old[i].files = sets[i].files /\ old[i].todo = sets[i].todo
           /\ old[i].missed = sets[i].missed \cup affected(lost)
  BY MissingIs
<1>2. new \in Seq(Walks) /\ Len(new) \in Nat /\ DOMAIN new = 1..Len(new) /\ \A i \in 1..Len(new) : new[i] = w
  OBVIOUS
<1> HIDE DEF old
<1>3. /\ all \in Seq(Walks) /\ DOMAIN all = 1..(Len(old) + Len(new))
      /\ \A i \in 1..(Len(old) + Len(new)) : all[i] = IF i <= Len(old) THEN old[i] ELSE new[i - Len(old)]
  BY <1>1, <1>2
<1>4. ASSUME NEW i \in DOMAIN all, i \notin DOMAIN old PROVE all[i] = w /\ new # <<>>
  <2>1. ~(i <= Len(old)) /\ i - Len(old) \in 1..Len(new) /\ i \in 1..(Len(old) + Len(new))
    BY <1>1, <1>3, <1>4
  <2> QED
    BY <1>2, <1>3, <2>1
<1>5. ASSUME NEW i \in DOMAIN old PROVE i \in DOMAIN all /\ all[i] = old[i]
  BY <1>1, <1>2, <1>3
<1>6. ASSUME new # <<>> PROVE \E i \in DOMAIN all : all[i] = w
  <2>1. Len(new) > 0
    BY <1>2, <1>6
  <2>2. Len(old) + 1 \in DOMAIN all /\ Len(old) + 1 \notin DOMAIN old
    BY <1>1, <1>2, <1>3, <2>1
  <2> QED
    BY <1>4, <2>2
<1>7. sets' = all
  BY DEF old
<1> HIDE DEF all
<1> QED
  BY <1>1, <1>3, <1>4, <1>5, <1>6, <1>7

\* With them, the sets follow the disk as before.
LEMMA SetsFollowOn ==
  ASSUME RepositoriesInv, NEW lost, lost \subseteq Files \cup Dirs, NEW w \in Walks, NEW new \in Seq({w}),
         w.by = "event", w.stage = "walking", w.holds, w.missed = {}, w.todo = {},
         sets' = missing(sets, lost) \o new, stale' = stale \cup affected(lost),
         DOMAIN repos' = DOMAIN repos,
         \A i \in DOMAIN sets : sets[i].by = "event" /\ sets[i].todo # {} =>
           \A j \in jobs' : j.pc = "lstat" => j.root = "gone"
  PROVE  /\ SetsFollow' /\ ToDo' = ToDo /\ AllAnew' = (AllAnew \/ new # <<>>)
         /\ (\A i \in DOMAIN sets : ~sets[i].holds) /\ new = <<>> =>
              \A i \in DOMAIN sets' : ~sets'[i].holds
<1>1. DiskTypes /\ SetsTypes /\ SetsFollow
  BY DEF RepositoriesInv
<1>2. /\ \A i \in DOMAIN sets :
              /\ i \in DOMAIN sets'
              /\ sets'[i].by = sets[i].by /\ sets'[i].stage = sets[i].stage
              /\ sets'[i].holds = sets[i].holds
              /\ sets'[i].files = sets[i].files /\ sets'[i].todo = sets[i].todo
              /\ sets'[i].missed = sets[i].missed \cup affected(lost)
      /\ \A i \in DOMAIN sets' : i \in DOMAIN sets \/ (sets'[i] = w /\ new # <<>>)
      /\ new # <<>> => \E i \in DOMAIN sets' : sets'[i] = w
  BY <1>1, WalksFollow, SMTT(60)
<1>3. affected(lost) \subseteq Files /\ Closed(affected(lost))
  BY AffectedIs
<1>4. \A i \in DOMAIN sets : sets[i].missed \subseteq Files
  <2>1. \A i \in DOMAIN sets : sets[i] \in Walks
    BY <1>1 DEF SetsTypes
  <2> QED
    BY <2>1 DEF Walks
<1>5. ToDo' = ToDo
  <2>1. ToDo' = UNION {sets'[i].todo : i \in DOMAIN sets'}
    BY DEF ToDo
  <2>2. ToDo' \subseteq ToDo
    BY <1>2, <2>1 DEF ToDo
  <2>3. ToDo \subseteq ToDo'
    BY <1>2, <2>1 DEF ToDo
  <2> QED
    BY <2>2, <2>3
<1>6. AllAnew' = (AllAnew \/ new # <<>>)
  <2>1. AllAnew' <=> \E i \in DOMAIN sets' : sets'[i].by = "event" /\ sets'[i].stage # "building"
    BY DEF AllAnew
  <2>2. AllAnew => AllAnew'
    BY <1>2, <2>1 DEF AllAnew
  <2>3. AllAnew' => AllAnew \/ new # <<>>
    BY <1>2, <2>1 DEF AllAnew
  <2>4. new # <<>> => AllAnew'
    BY <1>2, <2>1
  <2>5. AllAnew \in BOOLEAN /\ AllAnew' \in BOOLEAN
    BY DEF AllAnew
  <2> QED
    BY <2>2, <2>3, <2>4, <2>5
<1>7. OneAtWork'
  <2>1. SUFFICES ASSUME NEW i \in DOMAIN sets', NEW k \in DOMAIN sets', sets'[i].todo # {}, sets'[k].todo # {}
                 PROVE i = k
    BY DEF OneAtWork
  <2> QED
    BY <1>1, <1>2, <2>1 DEF SetsFollow, OneAtWork
<1>8. Closed(stale)' 
  <2>1. Closed(stale \cup affected(lost))
    BY <1>1, <1>3, ClosedUnion DEF SetsFollow, DiskTypes
  <2> QED
    BY <2>1 DEF Closed
<1>9. ASSUME NEW i \in DOMAIN sets' PROVE SetIsSound(sets[i])'
  <2>1. CASE i \in DOMAIN sets
    <3>1. SetIsSound(sets[i])
      BY <1>1, <2>1 DEF SetsFollow
    <3>2. Closed(sets[i].missed \cup affected(lost))
      BY <1>3, <1>4, <2>1, <3>1, ClosedUnion DEF SetIsSound
    <3>3. Closed(sets'[i].missed)
      BY <1>2, <2>1, <3>2
    <3>4. Closed(sets[i].missed)'
      BY <3>3 DEF Closed
    <3>5. sets'[i].by = "event" => sets'[i].holds
      BY <1>2, <2>1, <3>1 DEF SetIsSound
    <3>6. ASSUME sets'[i].todo # {}
          PROVE  /\ sets'[i].stage = "building" /\ sets'[i].missed \subseteq stale'
                 /\ sets'[i].todo \subseteq DOMAIN repos'
                 /\ sets'[i].by = "event" => \A j \in jobs' : j.pc = "lstat" => j.root = "gone"
      BY <1>2, <2>1, <3>1, <3>6 DEF SetIsSound
    <3> QED
      BY <3>4, <3>5, <3>6 DEF SetIsSound
  <2>2. CASE i \notin DOMAIN sets
    <3>1. sets'[i] = w
      BY <1>2, <2>2
    <3>2. Closed(sets[i].missed)'
      BY <3>1 DEF Closed
    <3> QED
      BY <3>1, <3>2 DEF SetIsSound
  <2> QED
    BY <2>1, <2>2
<1>10. ASSUME \A i \in DOMAIN sets : ~sets[i].holds, new = <<>>
       PROVE \A i \in DOMAIN sets' : ~sets'[i].holds
  BY <1>2, <1>10
<1> QED
  BY <1>5, <1>6, <1>7, <1>8, <1>9, <1>10 DEF SetsFollow

\* Nor do the walks forget, if the queue still tells what changed.
LEMMA WalksKnowOn ==
  ASSUME RepositoriesInv, NEW lost, lost \subseteq Files \cup Dirs, NEW w \in Walks, NEW new \in Seq({w}),
         w.stage = "walking", w.files = disk'.files,
         sets' = missing(sets, lost) \o new,
         DOMAIN sets # {} => \A f \in Files \ affected(lost) :
           /\ Told(f, 0) => Told(f, 0)'
           /\ ToldOfEnd(f, 0) => ToldOfEnd(f, 0)'
           /\ f \in disk'.files /\ f \notin disk.files => Told(f, 0)'
           /\ f \notin disk'.files /\ f \in disk.files => ToldOfEnd(f, 0)'
  PROVE  WalksKnow'
<1>1. SetsTypes /\ WalksKnow
  BY DEF RepositoriesInv
<1>2. /\ \A i \in DOMAIN sets :
              /\ i \in DOMAIN sets'
              /\ sets'[i].by = sets[i].by /\ sets'[i].stage = sets[i].stage
              /\ sets'[i].holds = sets[i].holds
              /\ sets'[i].files = sets[i].files /\ sets'[i].todo = sets[i].todo
              /\ sets'[i].missed = sets[i].missed \cup affected(lost)
      /\ \A i \in DOMAIN sets' : i \in DOMAIN sets \/ (sets'[i] = w /\ new # <<>>)
  BY <1>1, WalksFollow
<1>3. SUFFICES ASSUME NEW i \in DOMAIN sets', sets'[i].stage # "building" \/ sets'[i].todo # {},
                      NEW f \in Files \ sets'[i].missed
               PROVE  /\ f \in disk'.files /\ f \notin sets'[i].files => Told(f, 0)'
                      /\ f \notin disk'.files /\ f \in sets'[i].files => ToldOfEnd(f, 0)'
  BY DEF WalksKnow, WalkKnows
<1>4. CASE i \in DOMAIN sets
  <2>1. f \in Files \ sets[i].missed /\ f \in Files \ affected(lost)
    BY <1>2, <1>3, <1>4
  <2>2. /\ f \in disk.files /\ f \notin sets[i].files => Told(f, 0)
        /\ f \notin disk.files /\ f \in sets[i].files => ToldOfEnd(f, 0)
    BY <1>1, <1>2, <1>3, <1>4, <2>1 DEF WalksKnow, WalkKnows
  <2>3. /\ Told(f, 0) => Told(f, 0)'
        /\ ToldOfEnd(f, 0) => ToldOfEnd(f, 0)'
        /\ f \in disk'.files /\ f \notin disk.files => Told(f, 0)'
        /\ f \notin disk'.files /\ f \in disk.files => ToldOfEnd(f, 0)'
    BY <1>4, <2>1
  <2>4. sets'[i].files = sets[i].files
    BY <1>2, <1>4
  <2> QED
    BY <2>2, <2>3, <2>4
<1>5. CASE i \notin DOMAIN sets
  BY <1>2, <1>3, <1>5
<1> QED
  BY <1>4, <1>5

\* An event tells of all that changed, save for what is lost.
tellsOfChange(e, files, index, lost) ==
  /\ \A f \in files : (f \notin disk.files => tellsOf(e, f)) /\ ~tellsOfEnd(e, f)
  /\ \A f \in disk.files : f \notin files => tellsOfEnd(e, f)
  /\ \A f \in Files : f \notin files => ~(e.uri = f /\ e.type = "Changed")
  /\ \A r \in DOMAIN IndexOf, f \in Files :
       /\ <<r, f>> \in index /\ <<r, f>> \notin disk.index => e.uri = IndexOf[r] /\ e.type # "Deleted"
       /\ <<r, f>> \notin index /\ <<r, f>> \in disk.index => f \in lost

\* A change of the disk: the event tells what has changed of it, or is missed.
LEMMA DiskChangeKeeps ==
  ASSUME RepositoriesInv, NEW files, files \subseteq Files, NEW index, index \subseteq (DOMAIN IndexOf) \X Files,
         NEW type \in {"Created", "Changed", "Deleted"}, NEW uri \in Files \cup Dirs,
         type = "Changed" => uri \in Files,
         NEW lost, lost \subseteq Files,
         changes(files, index), event(type, uri, lost),
         tellsOfChange([type |-> type, uri |-> uri], files, index, lost)
  PROVE  RepositoriesInv'
<1>0. PICK e : e = [type |-> type, uri |-> uri]
  OBVIOUS
<1>told. tellsOfChange(e, files, index, lost)
  BY <1>0
<1> DEFINE n == IF heard THEN vfs.listeners ELSE 0
           missed == IF heard THEN lost ELSE lost \cup {uri}
           A == affected(missed)
<1>1. /\ DiskTypes /\ QueueTypes /\ SetsTypes /\ ReposTypes
      /\ EventsInOrder /\ SetsFollow /\ WalksKnow /\ JobsFollow
      /\ RepositoriesFollow /\ FilesKnown /\ TrackedKnown
  BY DEF RepositoriesInv
<1>2. /\ disk'.files = files /\ disk'.index = index
      /\ vfs' = vfs /\ jobs' = jobs /\ setQueue' = setQueue /\ repos' = repos
      /\ disk' = [files |-> files, index |-> index, changes |-> disk.changes + 1]
  BY DEF changes
<1>3. stale' = stale \cup A /\ sets' = missing(sets, missed)
  BY DEF event, miss
<1>4. n \in Nat /\ (heard => n > 0)
  BY <1>1 DEF DiskTypes, heard
<1>5. e \in Events /\ e.uri = uri /\ e.type = type
  BY <1>0 DEF Events
<1>6. queue' = [queue EXCEPT !.events = @ \o [i \in 1..n |-> e]]
  BY <1>0 DEF event
<1>7. missed \subseteq Files \cup Dirs /\ A \subseteq Files
  BY AffectedIs
<1>8. \A f \in Files : f \in lost => f \in A
  BY AffectedIs
<1>9. ASSUME ~heard PROVE affected({uri}) \subseteq A
  BY <1>9, AffectedIs
<1> HIDE DEF n, missed, A
<1>10. /\ QueueTypes'
       /\ \A m \in DOMAIN queue.events :
            m \in DOMAIN queue'.events /\ queue'.events[m] = queue.events[m]
       /\ \A m \in DOMAIN queue'.events : m \in DOMAIN queue.events \/ queue'.events[m] = e
       /\ \A k \in DOMAIN queue.events \cup {0} :
            n > 0 => \E m \in DOMAIN queue'.events : m > k /\ queue'.events[m] = e
  BY <1>1, <1>4, <1>5, <1>6, EventsAreAppended
<1>11. ASSUME NEW f \in Files, NEW k
       PROVE  /\ Told(f, k) => Told(f, k)'
              /\ ToldOfEnd(f, k) => ToldOfEnd(f, k)'
  <2>1. Told(f, k) => Told(f, k)'
    BY <1>10 DEF Told, tellsOf
  <2>2. ToldOfEnd(f, k) => ToldOfEnd(f, k)'
    BY <1>10 DEF ToldOfEnd, tellsOfEnd
  <2> QED
    BY <2>1, <2>2
<1>12. ASSUME NEW f \in Files \ A, NEW k \in DOMAIN queue.events \cup {0}
       PROVE  (tellsOf(e, f) => Told(f, k)') /\ (tellsOfEnd(e, f) => ToldOfEnd(f, k)')
  <2>1. tellsOf(e, f) \/ tellsOfEnd(e, f) => heard
    BY <1>5, <1>9, <1>12, ToldIsAffected
  <2>2. heard => \E m \in DOMAIN queue'.events : m > k /\ queue'.events[m] = e
    BY <1>4, <1>10, <1>12
  <2>3. tellsOf(e, f) => Told(f, k)'
    BY <2>1, <2>2 DEF Told, tellsOf
  <2>4. tellsOfEnd(e, f) => ToldOfEnd(f, k)'
    BY <2>1, <2>2 DEF ToldOfEnd, tellsOfEnd
  <2> QED
    BY <2>3, <2>4
<1>t. /\ \A f \in files : (f \notin disk.files => tellsOf(e, f)) /\ ~tellsOfEnd(e, f)
      /\ \A f \in disk.files : f \notin files => tellsOfEnd(e, f)
      /\ \A f \in Files : f \notin files => ~(uri = f /\ type = "Changed")
      /\ \A r \in DOMAIN IndexOf, f \in Files :
           /\ <<r, f>> \in index /\ <<r, f>> \notin disk.index => uri = IndexOf[r] /\ type # "Deleted"
           /\ <<r, f>> \notin index /\ <<r, f>> \in disk.index => f \in lost
  BY <1>5, <1>told DEF tellsOfChange
<1>13. ASSUME NEW f \in Files \ A
       PROVE  /\ f \in files /\ f \notin disk.files => Told(f, 0)'
              /\ f \notin files /\ f \in disk.files => ToldOfEnd(f, 0)'
              /\ \A k \in DOMAIN queue.events :
                   /\ f \in files /\ f \notin disk.files => Told(f, k)'
                   /\ f \notin files /\ f \in disk.files => ToldOfEnd(f, k)'
  BY <1>t, <1>12, <1>13
<1>14. PICK w : w = walk("event")
  OBVIOUS
<1>15. /\ w \in Walks /\ w.by = "event" /\ w.stage = "walking" /\ w.holds /\ w.missed = {} /\ w.todo = {}
  BY <1>1, <1>14, WalkIs
<1>16. DiskTypes' /\ ReposTypes' /\ SetsTypes'
  <2>1. DiskTypes'
    BY <1>1, <1>2, <1>3, <1>7 DEF DiskTypes
  <2>2. ReposTypes'
    BY <1>1, <1>2 DEF ReposTypes
  <2>3. SetsTypes'
    BY <1>1, <1>2, <1>3, <1>7, MissingIs DEF SetsTypes
  <2> QED
    BY <2>1, <2>2, <2>3
<1>17. sets' = missing(sets, missed) \o <<>> /\ <<>> \in Seq({w})
  <2>1. missing(sets, missed) \in Seq(Walks)
    BY <1>1, <1>7, MissingIs
  <2> QED
    BY <1>3, <2>1, ConcatEmptySeq
<1>18. SetsFollow' /\ ToDo' = ToDo /\ AllAnew' = AllAnew
       /\ ((\A i \in DOMAIN sets : ~sets[i].holds) => \A i \in DOMAIN sets' : ~sets'[i].holds)
  <2>1. ASSUME NEW i \in DOMAIN sets, sets[i].by = "event", sets[i].todo # {}
        PROVE  \A j \in jobs' : j.pc = "lstat" => j.root = "gone"
    BY <1>1, <1>2, <2>1 DEF SetsFollow, SetIsSound
  <2>2. DOMAIN repos' = DOMAIN repos /\ stale' = stale \cup affected(missed)
    BY <1>2, <1>3 DEF A
  <2>3. AllAnew \in BOOLEAN /\ (<<>> # <<>>) = FALSE
    BY DEF AllAnew
  <2> QED
    BY <1>7, <1>15, <1>17, <2>1, <2>2, <2>3, SetsFollowOn
<1>19. EventsInOrder'
  <2>1. SUFFICES ASSUME NEW f \in Files \ stale', NEW k \in DOMAIN queue'.events
                 PROVE  /\ f \in files /\ tellsOfEnd(queue'.events[k], f) => Told(f, k)'
                        /\ f \notin files /\ queue'.events[k].uri = f /\ queue'.events[k].type = "Changed"
                             => ToldOfEnd(f, k)'
    BY <1>2 DEF EventsInOrder, tellsOfEnd
  <2>2. f \in Files \ stale /\ f \in Files \ A
    BY <1>3, <2>1
  <2>3. CASE k \in DOMAIN queue.events
    <3>1. queue'.events[k] = queue.events[k]
      BY <1>10, <2>3
    <3>2. /\ f \in disk.files /\ tellsOfEnd(queue.events[k], f) => Told(f, k)
          /\ f \notin disk.files /\ queue.events[k].uri = f /\ queue.events[k].type = "Changed"
               => ToldOfEnd(f, k)
      BY <1>1, <2>2, <2>3 DEF EventsInOrder
    <3> QED
      BY <1>11, <1>13, <2>2, <2>3, <3>1, <3>2
  <2>4. CASE queue'.events[k] = e
    BY <1>t, <1>5, <2>2, <2>4
  <2> QED
    BY <1>10, <2>1, <2>3, <2>4
<1>20. WalksKnow'
  <2>1. PICK x : x \in Walks /\ x.stage = "walking" /\ x.files = disk'.files
    <3>1. walk("event")' \in Walks /\ walk("event")'.stage = "walking" /\ walk("event")'.files = disk'.files
      BY <1>16 DEF walk, Walks, DiskTypes
    <3> QED
      BY <3>1
  <2>2. <<>> \in Seq({x})
    OBVIOUS
  <2>3. ASSUME NEW f \in Files \ affected(missed)
        PROVE  /\ Told(f, 0) => Told(f, 0)'
               /\ ToldOfEnd(f, 0) => ToldOfEnd(f, 0)'
               /\ f \in disk'.files /\ f \notin disk.files => Told(f, 0)'
               /\ f \notin disk'.files /\ f \in disk.files => ToldOfEnd(f, 0)'
    BY <1>2, <1>11, <1>13, <2>3 DEF A
  <2> QED
    BY <1>7, <1>17, <2>1, <2>2, <2>3, WalksKnowOn
<1>21. JobsFollow'
  BY <1>1, <1>2, <1>18 DEF JobsFollow, JobIsSound, owns, matching, OfDirectory
<1>22. RepositoriesFollow'
  <2>1. ASSUME NEW r \in DOMAIN repos PROVE RepositoryIsSound(r)'
    <3>1. RepositoryIsSound(r)
      BY <1>1, <2>1 DEF RepositoriesFollow
    <3> QED
      BY <1>2, <1>3, <1>18, <3>1 DEF RepositoryIsSound, owns, matching
  <2> QED
    BY <1>2, <2>1 DEF RepositoriesFollow
<1>23. \A f \in Files, r \in DOMAIN repos' : accounted(f, r)' => accounted(f, r) /\ f \in Files \ A /\ r \in DOMAIN repos
  BY <1>2, <1>3, <1>18 DEF accounted, owns, matching
<1>24. FilesKnown'
  <2>1. SUFFICES ASSUME NEW f \in Files, NEW r \in DOMAIN repos', accounted(f, r)', ~AllAnew'
                 PROVE  FileIsKnown(f, r)'
    BY DEF FilesKnown
  <2>2. FileIsKnown(f, r) /\ f \in Files \ A
    BY <1>1, <1>18, <1>23, <2>1 DEF FilesKnown
  <2>3. JobAdds(f, r)' = JobAdds(f, r)
    BY <1>2 DEF JobAdds
  <2>4. (Told(f, 0) => Told(f, 0)') /\ (ToldOfEnd(f, 0) => ToldOfEnd(f, 0)')
    BY <1>11
  <2>5. /\ f \in files /\ f \notin disk.files => Told(f, 0)'
        /\ f \notin files /\ f \in disk.files => ToldOfEnd(f, 0)'
    BY <1>13, <2>2
  <2> QED
    BY <1>2, <2>2, <2>3, <2>4, <2>5 DEF FileIsKnown
<1>25. TrackedKnown'
  <2>1. SUFFICES ASSUME NEW f \in Files, NEW r \in DOMAIN repos', accounted(f, r)'
                 PROVE  TrackedIsKnown(f, r)'
    BY DEF TrackedKnown
  <2>2. TrackedIsKnown(f, r) /\ f \in Files \ A
    BY <1>1, <1>23, <2>1 DEF TrackedKnown
  <2>3. IndexIsTold(r) => IndexIsTold(r)'
    BY <1>2, <1>10 DEF IndexIsTold
  <2>4. <<r, f>> \in index \/ <<r, f>> \in disk.index => r \in DOMAIN IndexOf
    BY <1>1 DEF DiskTypes
  <2>5. <<r, f>> \in disk.index => <<r, f>> \in index
    BY <1>t, <1>8, <2>2, <2>4
  <2>6. ASSUME <<r, f>> \in index, <<r, f>> \notin disk.index PROVE IndexIsTold(r)'
    <3>1. uri = IndexOf[r] /\ type # "Deleted" /\ r \in DOMAIN IndexOf
      BY <1>t, <2>4, <2>6
    <3>2. ~heard => A = Files
      <4>1. uri \in Range(IndexOf)
        BY <3>1 DEF Range
      <4>2. affected({uri}) = Files
        BY <4>1, AffectedIs
      <4> QED
        BY <1>7, <1>9, <4>2
    <3>3. \E m \in DOMAIN queue'.events : queue'.events[m] = e
      BY <1>4, <1>10, <2>2, <3>2
    <3> QED
      BY <1>5, <3>1, <3>3 DEF IndexIsTold
  <2> QED
    BY <1>2, <2>2, <2>3, <2>5, <2>6 DEF TrackedIsKnown
<1> QED
  BY <1>10, <1>16, <1>18, <1>19, <1>20, <1>21, <1>22, <1>24, <1>25 DEF RepositoriesInv

LEMMA FileChangesKeep ==
  ASSUME RepositoriesInv, NEW f \in Files, CreateFile(f) \/ DeleteFile(f) \/ ChangeFile(f)
  PROVE  RepositoriesInv'
<1>1. disk.files \subseteq Files /\ disk.index \subseteq (DOMAIN IndexOf) \X Files
  BY DEF RepositoriesInv, DiskTypes
<1>2. f \notin Dirs /\ {} \subseteq Files
  BY UrisAreTree
<1>3. CASE CreateFile(f)
  <2> DEFINE e == [type |-> "Created", uri |-> f]
             files == disk.files \cup {f}
  <2>1. changes(files, disk.index) /\ event("Created", f, {}) /\ files \subseteq Files
    BY <1>1, <1>3 DEF CreateFile
  <2>2. /\ \A g \in files : (g \notin disk.files => tellsOf(e, g)) /\ ~tellsOfEnd(e, g)
        /\ \A g \in disk.files : g \notin files => tellsOfEnd(e, g)
    BY DEF tellsOf, tellsOfEnd
  <2>3. tellsOfChange(e, files, disk.index, {})
    BY <1>1, <2>1, <2>2 DEF tellsOfChange
  <2> HIDE DEF files
  <2> QED
    BY <1>1, <1>2, <2>1, <2>2, <2>3, DiskChangeKeeps
<1>4. CASE DeleteFile(f)
  <2> DEFINE e == [type |-> "Deleted", uri |-> f]
             files == disk.files \ {f}
  <2>1. changes(files, disk.index) /\ event("Deleted", f, {}) /\ files \subseteq Files
    BY <1>1, <1>4 DEF DeleteFile
  <2>2. /\ \A g \in files : (g \notin disk.files => tellsOf(e, g)) /\ ~tellsOfEnd(e, g)
        /\ \A g \in disk.files : g \notin files => tellsOfEnd(e, g)
    BY <1>2 DEF tellsOf, tellsOfEnd
  <2>3. tellsOfChange(e, files, disk.index, {})
    BY <1>1, <2>1, <2>2 DEF tellsOfChange
  <2> HIDE DEF files
  <2> QED
    BY <1>1, <1>2, <2>1, <2>2, <2>3, DiskChangeKeeps
<1>5. CASE ChangeFile(f)
  <2> DEFINE e == [type |-> "Changed", uri |-> f]
  <2>1. changes(disk.files, disk.index) /\ event("Changed", f, {}) /\ f \in disk.files
    BY <1>5 DEF ChangeFile
  <2>2. \A g \in disk.files : ~tellsOfEnd(e, g)
    BY DEF tellsOfEnd
  <2>3. tellsOfChange(e, disk.files, disk.index, {})
    BY <1>1, <2>1, <2>2 DEF tellsOfChange
  <2> QED
    BY <1>1, <1>2, <2>1, <2>2, <2>3, DiskChangeKeeps
<1> QED
  BY <1>3, <1>4, <1>5

LEMMA DirectoryChangesKeep ==
  ASSUME RepositoriesInv, NEW d \in Dirs,
         NEW fs \in SUBSET (Files \cap Below[d]), DeleteDirectory(d) \/ CreateDirectory(d, fs)
  PROVE  RepositoriesInv'
<1>1. disk.files \subseteq Files /\ disk.index \subseteq (DOMAIN IndexOf) \X Files
  BY DEF RepositoriesInv, DiskTypes
<1>2. d \notin Files /\ {} \subseteq Files
  BY UrisAreTree
<1>3. CASE CreateDirectory(d, fs)
  <2> DEFINE e == [type |-> "Created", uri |-> d]
             files == disk.files \cup fs
  <2>1. changes(files, disk.index) /\ event("Created", d, {}) /\ files \subseteq Files
    BY <1>1, <1>3 DEF CreateDirectory
  <2>2. /\ \A g \in files : (g \notin disk.files => tellsOf(e, g)) /\ ~tellsOfEnd(e, g)
        /\ \A g \in disk.files : g \notin files => tellsOfEnd(e, g)
    BY DEF tellsOf, tellsOfEnd
  <2>3. tellsOfChange(e, files, disk.index, {})
    BY <1>1, <2>1, <2>2 DEF tellsOfChange
  <2> HIDE DEF files
  <2> QED
    BY <1>1, <1>2, <2>1, <2>2, <2>3, DiskChangeKeeps
<1>4. CASE DeleteDirectory(d)
  <2> DEFINE e == [type |-> "Deleted", uri |-> d]
             files == disk.files \ Below[d]
             untracked == {entry \in disk.index : IndexOf[entry[1]] \in Below[d]}
             index == disk.index \ untracked
             lost == {entry[2] : entry \in untracked}
  <2>1. changes(files, index) /\ event("Deleted", d, lost)
    BY <1>4 DEF DeleteDirectory
  <2>2. files \subseteq Files /\ index \subseteq (DOMAIN IndexOf) \X Files /\ lost \subseteq Files
    BY <1>1
  <2>3. /\ \A g \in files : (g \notin disk.files => tellsOf(e, g)) /\ ~tellsOfEnd(e, g)
        /\ \A g \in disk.files : g \notin files => tellsOfEnd(e, g)
    BY <1>1, <1>2 DEF tellsOf, tellsOfEnd
  <2>4. ASSUME NEW r \in DOMAIN IndexOf, NEW f \in Files
        PROVE  /\ <<r, f>> \in index => <<r, f>> \in disk.index
               /\ <<r, f>> \notin index /\ <<r, f>> \in disk.index => f \in lost
    OBVIOUS
  <2>5. tellsOfChange(e, files, index, lost)
    BY <1>1, <2>1, <2>3, <2>4 DEF tellsOfChange
  <2> HIDE DEF files, index, lost
  <2> QED
    BY <1>1, <1>2, <2>1, <2>2, <2>5, DiskChangeKeeps
<1> QED
  BY <1>3, <1>4

LEMMA IndexChangesKeep ==
  ASSUME RepositoriesInv, NEW root \in DOMAIN IndexOf, NEW f \in Files,
         Stage(root, f) \/ Unstage(root, f)
  PROVE  RepositoriesInv'
<1>1. disk.files \subseteq Files /\ disk.index \subseteq (DOMAIN IndexOf) \X Files
  BY DEF RepositoriesInv, DiskTypes
<1>2. IndexOf[root] \in Files /\ IndexOf[root] \notin Dirs
  BY UrisAreTree, GitFilesAreFiles
<1> DEFINE type == IF IndexOf[root] \in disk.files THEN "Changed" ELSE "Created"
           files == disk.files \cup {IndexOf[root]}
           e == [type |-> type, uri |-> IndexOf[root]]
<1>3. /\ type \in {"Created", "Changed", "Deleted"} /\ type # "Deleted"
      /\ files \subseteq Files
  BY <1>1, <1>2
<1>4. /\ \A g \in files : (g \notin disk.files => tellsOf(e, g)) /\ ~tellsOfEnd(e, g)
      /\ \A g \in disk.files : g \notin files => tellsOfEnd(e, g)
  BY DEF tellsOf, tellsOfEnd
<1>5. ASSUME NEW index, index \subseteq (DOMAIN IndexOf) \X Files, NEW lost, lost \subseteq Files,
             writes(root, index, lost),
             \A r \in DOMAIN IndexOf, g \in Files :
               /\ <<r, g>> \in index /\ <<r, g>> \notin disk.index => r = root
               /\ <<r, g>> \notin index /\ <<r, g>> \in disk.index => g \in lost
      PROVE  RepositoriesInv'
  <2>1. changes(files, index) /\ event(type, IndexOf[root], lost)
    BY <1>5 DEF writes
  <2>2. \A g \in Files : g \notin files => ~(IndexOf[root] = g /\ type = "Changed")
    OBVIOUS
  <2>3. tellsOfChange(e, files, index, lost)
    BY <1>3, <1>4, <1>5, <2>2 DEF tellsOfChange
  <2> HIDE DEF type, files
  <2> QED
    BY <1>2, <1>3, <1>5, <2>1, <2>3, DiskChangeKeeps
<1>6. CASE Stage(root, f)
  <2>1. writes(root, disk.index \cup {<<root, f>>}, {})
    BY <1>6 DEF Stage
  <2> QED
    BY <1>1, <1>5, <2>1
<1>7. CASE Unstage(root, f)
  <2>1. writes(root, disk.index \ {<<root, f>>}, {f})
    BY <1>7 DEF Unstage
  <2> QED
    BY <1>1, <1>5, <2>1
<1> QED
  BY <1>6, <1>7

-----------------------------------------------------------------------------
\* A walk that goes on, and one that begins.
sameWalk(s, t) ==
  /\ s.by = t.by /\ s.files = t.files /\ s.missed = t.missed /\ s.todo = t.todo
  /\ s.stage = "building" <=> t.stage = "building"
  /\ t.holds => s.holds
newWalk(s) ==
  /\ s.by = "vfs" /\ s.stage = "walking" /\ ~s.holds
  /\ s.files = disk.files /\ s.missed = {} /\ s.todo = {}

\* old tells where a walk was before the step; those that are not there any more
\* had nothing to do.
goesOn(old) ==
  /\ old \in [DOMAIN sets' -> Nat]
  /\ \A i \in DOMAIN sets' :
       \/ old[i] \in DOMAIN sets /\ sameWalk(sets'[i], sets[old[i]])
       \/ old[i] \notin DOMAIN sets /\ newWalk(sets'[i])
  /\ \A i, k \in DOMAIN sets' : old[i] = old[k] /\ old[i] \in DOMAIN sets => i = k
  /\ \A k \in DOMAIN sets : (\E i \in DOMAIN sets' : old[i] = k)
       \/ (sets[k].todo = {} /\ (sets[k].by = "vfs" \/ sets[k].stage = "building"))

\* Where only the walks go on, all that is known remains so.
LEMMA WalksGoOn ==
  ASSUME RepositoriesInv, DiskTypes', queue'.events = queue.events, queue'.paused \in BOOLEAN,
         queue' = [queue EXCEPT !.paused = queue'.paused], SetsTypes',
         disk' = disk, jobs' = jobs, repos' = repos, stale' = stale,
         NEW old, goesOn(old),
         (\E j \in jobs : OfDirectory(j)) /\ (\A i \in DOMAIN sets : ~sets[i].holds) =>
           \A i \in DOMAIN sets' : ~sets'[i].holds
  PROVE  RepositoriesInv'
<1>1. /\ DiskTypes /\ QueueTypes /\ SetsTypes /\ ReposTypes
      /\ EventsInOrder /\ SetsFollow /\ WalksKnow /\ JobsFollow
      /\ RepositoriesFollow /\ FilesKnown /\ TrackedKnown
  BY DEF RepositoriesInv
<1>2. QueueTypes' /\ ReposTypes'
  BY <1>1 DEF QueueTypes, ReposTypes
<1>3. /\ \A i \in DOMAIN sets' :
           \/ old[i] \in DOMAIN sets /\ sameWalk(sets'[i], sets[old[i]])
           \/ newWalk(sets'[i])
      /\ \A i, k \in DOMAIN sets' : old[i] = old[k] /\ old[i] \in DOMAIN sets => i = k
      /\ \A k \in DOMAIN sets : (\E i \in DOMAIN sets' : old[i] = k /\ sameWalk(sets'[i], sets[k]))
           \/ (sets[k].todo = {} /\ (sets[k].by = "vfs" \/ sets[k].stage = "building"))
  BY DEF goesOn
<1>4. ToDo' = ToDo
  <2>1. ToDo' = UNION {sets'[i].todo : i \in DOMAIN sets'}
    BY DEF ToDo
  <2>2. ASSUME NEW r \in ToDo' PROVE r \in ToDo
    <3>1. PICK i \in DOMAIN sets' : r \in sets'[i].todo
      BY <2>1, <2>2
    <3>2. old[i] \in DOMAIN sets /\ r \in sets[old[i]].todo
      BY <1>3, <3>1 DEF sameWalk, newWalk
    <3> QED
      BY <3>2 DEF ToDo
  <2>3. ASSUME NEW r \in ToDo PROVE r \in ToDo'
    <3>1. PICK k \in DOMAIN sets : r \in sets[k].todo
      BY <2>3 DEF ToDo
    <3>2. PICK i \in DOMAIN sets' : sameWalk(sets'[i], sets[k])
      BY <1>3, <3>1
    <3> QED
      BY <2>1, <3>1, <3>2 DEF sameWalk
  <2> QED
    BY <2>2, <2>3
<1>5. AllAnew' = AllAnew
  <2>1. AllAnew' <=> \E i \in DOMAIN sets' : sets'[i].by = "event" /\ sets'[i].stage # "building"
    BY DEF AllAnew
  <2>2. AllAnew' => AllAnew
    <3>1. SUFFICES ASSUME NEW i \in DOMAIN sets', sets'[i].by = "event", sets'[i].stage # "building"
                   PROVE  AllAnew
      BY <2>1
    <3>2. ~newWalk(sets'[i])
      BY <3>1 DEF newWalk
    <3>3. old[i] \in DOMAIN sets /\ sameWalk(sets'[i], sets[old[i]])
      BY <1>3, <3>2
    <3> QED
      BY <3>1, <3>3 DEF AllAnew, sameWalk
  <2>3. AllAnew => AllAnew'
    <3>1. SUFFICES ASSUME NEW k \in DOMAIN sets, sets[k].by = "event", sets[k].stage # "building"
                   PROVE  AllAnew'
      BY DEF AllAnew
    <3>2. PICK i \in DOMAIN sets' : sameWalk(sets'[i], sets[k])
      BY <1>3, <3>1
    <3> QED
      BY <2>1, <3>1, <3>2 DEF sameWalk
  <2>4. AllAnew \in BOOLEAN /\ AllAnew' \in BOOLEAN
    BY DEF AllAnew
  <2> QED
    BY <2>2, <2>3, <2>4
<1>6. OneAtWork'
  <2>1. SUFFICES ASSUME NEW i \in DOMAIN sets', NEW k \in DOMAIN sets', sets'[i].todo # {}, sets'[k].todo # {}
                 PROVE i = k
    BY DEF OneAtWork
  <2>2. /\ old[i] \in DOMAIN sets /\ sets[old[i]].todo # {}
        /\ old[k] \in DOMAIN sets /\ sets[old[k]].todo # {}
    BY <1>3, <2>1 DEF sameWalk, newWalk
  <2>3. old[i] = old[k]
    BY <1>1, <2>2 DEF SetsFollow, OneAtWork
  <2> QED
    BY <1>3, <2>2, <2>3
<1>7. SetsFollow'
  <2>1. ASSUME NEW i \in DOMAIN sets' PROVE SetIsSound(sets[i])'
    <3>1. CASE old[i] \in DOMAIN sets /\ sameWalk(sets'[i], sets[old[i]])
      <4>1. SetIsSound(sets[old[i]])
        BY <1>1, <3>1 DEF SetsFollow
      <4> QED
        BY <3>1, <4>1 DEF SetIsSound, sameWalk, Closed
    <3>2. CASE newWalk(sets'[i])
      BY <3>2 DEF SetIsSound, newWalk, Closed
    <3> QED
      BY <1>3, <3>1, <3>2
  <2>2. Closed(stale)'
    BY <1>1 DEF SetsFollow, Closed
  <2> QED
    BY <1>6, <2>1, <2>2 DEF SetsFollow
<1>8. \A f, k : Told(f, k)' = Told(f, k) /\ ToldOfEnd(f, k)' = ToldOfEnd(f, k)
  BY DEF Told, ToldOfEnd, tellsOf, tellsOfEnd
<1>9. EventsInOrder'
  BY <1>1 DEF EventsInOrder, Told, ToldOfEnd, tellsOf, tellsOfEnd
<1>10. WalksKnow'
  <2>1. ASSUME NEW i \in DOMAIN sets' PROVE WalkKnows(sets[i])'
    <3>1. CASE old[i] \in DOMAIN sets /\ sameWalk(sets'[i], sets[old[i]])
      <4>1. WalkKnows(sets[old[i]])
        BY <1>1, <3>1 DEF WalksKnow
      <4> QED
        BY <1>8, <3>1, <4>1 DEF WalkKnows, sameWalk, Told, ToldOfEnd, tellsOf, tellsOfEnd
    <3>2. CASE newWalk(sets'[i])
      BY <3>2 DEF WalkKnows, newWalk
    <3> QED
      BY <1>3, <3>1, <3>2
  <2> QED
    BY <2>1 DEF WalksKnow
<1>11. JobsFollow'
  BY <1>1 DEF JobsFollow, JobIsSound, owns, matching, OfDirectory
<1>12. RepositoriesFollow'
  BY <1>1, <1>4, <1>5 DEF RepositoriesFollow, RepositoryIsSound, owns, matching
<1>13. \A f \in Files, r \in DOMAIN repos' : accounted(f, r)' => accounted(f, r)
  BY <1>4 DEF accounted, owns, matching
<1>14. FilesKnown' /\ TrackedKnown'
  <2>1. ASSUME NEW f \in Files, NEW r \in DOMAIN repos', accounted(f, r)', ~AllAnew'
        PROVE  FileIsKnown(f, r)'
    <3>1. FileIsKnown(f, r)
      BY <1>1, <1>5, <1>13, <2>1 DEF FilesKnown
    <3>2. (Told(f, 0) => Told(f, 0)') /\ (ToldOfEnd(f, 0) => ToldOfEnd(f, 0)')
      BY DEF Told, ToldOfEnd, tellsOf, tellsOfEnd
    <3>3. JobAdds(f, r)' = JobAdds(f, r)
      BY DEF JobAdds
    <3> QED
      BY <3>1, <3>2, <3>3 DEF FileIsKnown
  <2>2. ASSUME NEW f \in Files, NEW r \in DOMAIN repos', accounted(f, r)'
        PROVE  TrackedIsKnown(f, r)'
    <3>1. TrackedIsKnown(f, r)
      BY <1>1, <1>13, <2>2 DEF TrackedKnown
    <3>2. IndexIsTold(r)' = IndexIsTold(r)
      BY DEF IndexIsTold
    <3> QED
      BY <3>1, <3>2 DEF TrackedIsKnown
  <2> QED
    BY <2>1, <2>2 DEF FilesKnown, TrackedKnown
<1> QED
  BY <1>1, <1>2, <1>7, <1>9, <1>10, <1>11, <1>12, <1>14 DEF RepositoriesInv

\* Only the virtual file system is concerned.
LEMMA FileSystemStepsKeep ==
  ASSUME RepositoriesInv,
         (\E present \in BOOLEAN : Configure(present)) \/ SetUp \/ Registered \/ RegistrationFails
  PROVE  RepositoriesInv'
<1>1. DiskTypes /\ QueueTypes /\ SetsTypes
  BY DEF RepositoriesInv
<1>2. sets \in Seq(Walks) /\ DOMAIN sets \subseteq Nat /\ DOMAIN sets = 1..Len(sets) /\ Len(sets) \in Nat
  BY <1>1 DEF SetsTypes
<1>3. /\ disk' = disk /\ queue' = queue /\ jobs' = jobs /\ setQueue' = setQueue
      /\ repos' = repos /\ stale' = stale
  BY DEF Configure, SetUp, Registered, RegistrationFails
<1>4. DiskTypes'
  <2>1. CASE \E present \in BOOLEAN : Configure(present)
    BY <1>1, <1>3, <2>1 DEF DiskTypes, Configure
  <2>2. CASE SetUp
    BY <1>1, <1>3, <2>2 DEF DiskTypes, SetUp
  <2>3. CASE Registered
    BY <1>1, <1>3, <2>3 DEF DiskTypes, Registered
  <2>4. CASE RegistrationFails
    BY <1>1, <1>3, <2>4 DEF DiskTypes, RegistrationFails
  <2> QED
    BY <2>1, <2>2, <2>3, <2>4
<1>5. queue'.paused \in BOOLEAN /\ queue' = [queue EXCEPT !.paused = queue'.paused]
  BY <1>1, <1>3 DEF QueueTypes
<1>6. ASSUME sets' = sets PROVE RepositoriesInv'
  <2> DEFINE old == [i \in DOMAIN sets |-> i]
  <2>1. goesOn(old)
    BY <1>2, <1>6 DEF goesOn, sameWalk
  <2>2. SetsTypes'
    BY <1>1, <1>3, <1>6 DEF SetsTypes
  <2> HIDE DEF old
  <2> QED
    BY <1>3, <1>4, <1>5, <1>6, <2>1, <2>2, WalksGoOn
<1>7. ASSUME sets' = Append(sets, walk("vfs")) PROVE RepositoriesInv'
  <2> DEFINE w == walk("vfs")
             old == [i \in 1..(Len(sets) + 1) |-> i]
  <2>1. w \in Walks /\ newWalk(w)
    BY <1>1, WalkIs DEF newWalk
  <2> HIDE DEF w
  <2>2. /\ sets' \in Seq(Walks) /\ DOMAIN sets' = 1..(Len(sets) + 1)
        /\ \A i \in DOMAIN sets : sets'[i] = sets[i]
        /\ sets'[Len(sets) + 1] = w
    BY <1>2, <1>7, <2>1 DEF w
  <2>3. goesOn(old)
    <3>1. ASSUME NEW i \in DOMAIN sets'
          PROVE  \/ old[i] \in DOMAIN sets /\ sameWalk(sets'[i], sets[old[i]])
                 \/ old[i] \notin DOMAIN sets /\ newWalk(sets'[i])
      BY <1>2, <2>1, <2>2, <3>1 DEF sameWalk
    <3>2. old \in [DOMAIN sets' -> Nat] /\ \A i, k \in DOMAIN sets' : old[i] = old[k] => i = k
      BY <1>2, <2>2
    <3>3. \A k \in DOMAIN sets : k \in DOMAIN sets' /\ old[k] = k
      BY <1>2, <2>2
    <3> QED
      BY <3>1, <3>2, <3>3 DEF goesOn
  <2>4. SetsTypes'
    BY <1>1, <1>3, <2>2 DEF SetsTypes
  <2>5. ASSUME \A i \in DOMAIN sets : ~sets[i].holds PROVE \A i \in DOMAIN sets' : ~sets'[i].holds
    BY <1>2, <2>1, <2>2, <2>5 DEF newWalk
  <2> HIDE DEF old
  <2> QED
    BY <1>3, <1>4, <1>5, <2>3, <2>4, <2>5, WalksGoOn
<1> QED
  BY <1>6, <1>7 DEF Configure, SetUp, Registered, RegistrationFails

\* A walk is over, one way or the other, or the set that it began.
LEMMA WalksEndKeeps ==
  ASSUME RepositoriesInv, NEW i \in DOMAIN sets, FolderWalked(i) \/ WalkFails(i) \/ SetEnds(i)
  PROVE  RepositoriesInv'
<1>1. DiskTypes /\ QueueTypes /\ SetsTypes /\ SetsFollow
  BY DEF RepositoriesInv
<1>2. sets \in Seq(Walks) /\ DOMAIN sets = 1..Len(sets) /\ Len(sets) \in Nat /\ sets[i] \in Walks
  BY <1>1 DEF SetsTypes
<1>3. disk' = disk /\ vfs' = vfs /\ jobs' = jobs /\ repos' = repos /\ stale' = stale
  BY DEF FolderWalked, WalkFails, SetEnds
<1>4. DiskTypes'
  BY <1>1, <1>3 DEF DiskTypes
<1> DEFINE rest == RemoveAt(sets, i)
           at(k) == IF k < i THEN k ELSE k + 1
           last == Len(sets) - 1
<1>5. rest \in Seq(Walks) /\ DOMAIN rest = 1..last /\ \A k \in 1..last : rest[k] = sets[at(k)]
  BY <1>2, RemoveAtRemoves
<1>6. last \in Nat /\ i \in 1..(last + 1) /\ DOMAIN sets = 1..(last + 1)
  BY <1>2
<1>7. /\ \A k \in 1..last : at(k) \in DOMAIN sets /\ at(k) # i /\ at(k) \in Nat
      /\ \A k, n \in 1..last : at(k) = at(n) => k = n
  BY <1>6
<1>8. ASSUME NEW n \in DOMAIN sets, n # i PROVE \E k \in 1..last : at(k) = n
  <2>1. CASE n < i
    BY <1>6, <2>1
  <2>2. CASE n > i
    <3>1. n - 1 \in 1..last /\ at(n - 1) = n
      BY <1>6, <2>2
    <3> QED
      BY <3>1
  <2> QED
    BY <1>6, <1>8, <2>1, <2>2
<1> HIDE DEF rest, at, last
<1>9. CASE FolderWalked(i)
  <2>1. newQueue \in Nat
    BY <1>1 DEF newQueue, SetsTypes
  <2>2. PICK s : s = [sets[i] EXCEPT !.stage = "queued", !.q = newQueue]
    OBVIOUS
  <2>3. s \in Walks /\ s.by = sets[i].by /\ s.files = sets[i].files /\ s.missed = sets[i].missed
        /\ s.todo = sets[i].todo /\ s.stage = "queued" /\ s.holds = sets[i].holds
    BY <1>2, <2>1, <2>2 DEF Walks
  <2>4. sets[i].stage = "walking" /\ sets' = Append(rest, s)
    BY <1>9, <2>2 DEF FolderWalked, rest
  <2>5. sameWalk(s, sets[i])
    BY <2>3, <2>4 DEF sameWalk
  <2>6. /\ sets' \in Seq(Walks) /\ DOMAIN sets' = 1..(last + 1)
        /\ \A k \in 1..last : sets'[k] = sets[at(k)]
        /\ sets'[last + 1] = s
    BY <1>5, <1>6, <2>3, <2>4
  <2> DEFINE old == [k \in 1..(last + 1) |-> IF k = last + 1 THEN i ELSE at(k)]
  <2>7. \A k \in 1..(last + 1) : old[k] \in DOMAIN sets /\ old[k] \in Nat /\ sameWalk(sets'[k], sets[old[k]])
    BY <1>6, <1>7, <2>5, <2>6 DEF sameWalk
  <2>8. \A k, n \in DOMAIN sets' : old[k] = old[n] => k = n
    BY <1>6, <1>7, <2>6
  <2>9. ASSUME NEW n \in DOMAIN sets PROVE \E k \in DOMAIN sets' : old[k] = n
    <3>1. CASE n = i
      <4>1. last + 1 \in DOMAIN sets' /\ old[last + 1] = n
        BY <1>6, <2>6, <3>1
      <4> QED
        BY <4>1
    <3>2. CASE n # i
      <4>1. PICK k \in 1..last : at(k) = n
        BY <1>8, <3>2
      <4>2. k \in DOMAIN sets' /\ old[k] = n
        BY <1>6, <2>6, <4>1
      <4> QED
        BY <4>2
    <3> QED
      BY <3>1, <3>2
  <2>10. old \in [DOMAIN sets' -> Nat]
    BY <2>6, <2>7
  <2> HIDE DEF old
  <2>11. goesOn(old)
    BY <2>6, <2>7, <2>8, <2>9, <2>10 DEF goesOn
  <2>12. SetsTypes'
    <3>1. setQueue' \in [current : Nat, made : Nat]
      BY <1>1, <1>9, <2>1 DEF FolderWalked, SetsTypes
    <3> QED
      BY <2>6, <3>1 DEF SetsTypes
  <2>13. ASSUME \A k \in DOMAIN sets : ~sets[k].holds PROVE \A k \in DOMAIN sets' : ~sets'[k].holds
    BY <1>6, <1>7, <2>3, <2>6, <2>13
  <2>14. queue' = queue /\ queue'.paused \in BOOLEAN /\ queue' = [queue EXCEPT !.paused = queue'.paused]
    BY <1>1, <1>9 DEF QueueTypes, FolderWalked
  <2> QED
    BY <1>3, <1>4, <2>11, <2>12, <2>13, <2>14, WalksGoOn
<1>10. CASE WalkFails(i) \/ SetEnds(i)
  <2>1. sets[i].todo = {} /\ (sets[i].by = "vfs" \/ sets[i].stage = "building")
    BY <1>1, <1>10 DEF WalkFails, SetEnds, SetsFollow, SetIsSound
  <2>2. /\ sets' \in Seq(Walks) /\ DOMAIN sets' = 1..last
        /\ \A k \in 1..last : sameWalk(sets'[k], sets[at(k)])
        /\ (\A k \in DOMAIN sets : ~sets[k].holds) => \A k \in DOMAIN sets' : ~sets'[k].holds
    <3>1. CASE WalkFails(i)
      <4>1. sets' = rest
        BY <3>1 DEF WalkFails, rest
      <4> QED
        BY <1>5, <1>7, <4>1 DEF sameWalk
    <3>2. CASE SetEnds(i)
      <4>1. sets' = [j \in DOMAIN rest |-> [rest[j] EXCEPT !.holds = @ \/ (sets[i].holds /\ rest[j].q = sets[i].q)]]
        BY <3>2 DEF SetEnds, rest
      <4>2. ASSUME NEW s \in Walks, NEW u \in Walks
            PROVE  LET t == [s EXCEPT !.holds = @ \/ (u.holds /\ s.q = u.q)]
                   IN  t \in Walks /\ sameWalk(t, s) /\ (~u.holds /\ ~s.holds => ~t.holds)
        BY <4>2 DEF Walks, sameWalk
      <4>3. ASSUME NEW k \in 1..last
            PROVE  /\ sets'[k] \in Walks /\ sameWalk(sets'[k], sets[at(k)])
                   /\ ~sets[i].holds /\ ~sets[at(k)].holds => ~sets'[k].holds
        <5>1. rest[k] \in Walks /\ rest[k] = sets[at(k)]
          <6>1. rest[k] = sets[at(k)] /\ at(k) \in DOMAIN sets
            BY <1>5, <1>7, <4>3
          <6> QED
            BY <1>2, <6>1
        <5>2. sets'[k] = [rest[k] EXCEPT !.holds = @ \/ (sets[i].holds /\ rest[k].q = sets[i].q)]
          BY <1>5, <4>1, <4>3
        <5>3. /\ sets'[k] \in Walks /\ sameWalk(sets'[k], rest[k])
              /\ ~sets[i].holds /\ ~rest[k].holds => ~sets'[k].holds
          BY <1>2, <4>2, <5>1, <5>2
        <5> QED
          BY <5>1, <5>3
      <4>4. DOMAIN sets' = 1..last /\ sets' = [k \in 1..last |-> sets'[k]]
        BY <1>5, <4>1
      <4>5. sets' \in Seq(Walks)
        <5>1. sets' \in [1..last -> Walks]
          BY <4>3, <4>4
        <5> QED
          BY <1>6, <5>1
      <4> QED
        BY <1>7, <4>3, <4>4, <4>5
    <3> QED
      BY <1>10, <3>1, <3>2
  <2> DEFINE old == [k \in 1..last |-> at(k)]
  <2>3. goesOn(old)
    BY <1>7, <1>8, <2>1, <2>2 DEF goesOn
  <2>4. SetsTypes'
    <3>1. setQueue' \in [current : Nat, made : Nat]
      BY <1>1, <1>2, <1>10 DEF WalkFails, SetEnds, SetsTypes, Walks
    <3> QED
      BY <2>2, <3>1 DEF SetsTypes
  <2>5. /\ queue'.paused \in BOOLEAN /\ queue'.events = queue.events
        /\ queue' = [queue EXCEPT !.paused = queue'.paused]
    BY <1>1, <1>10 DEF QueueTypes, WalkFails, SetEnds, started
  <2> HIDE DEF old
  <2> QED
    BY <1>3, <1>4, <2>2, <2>3, <2>4, <2>5, WalksGoOn
<1> QED
  BY <1>9, <1>10

-----------------------------------------------------------------------------
\* A set replaces the repositories: all that is stale is what it missed, and what
\* the queue still tells.
LEMMA SetStartsKeeps ==
  ASSUME RepositoriesInv, NEW i \in DOMAIN sets, SetStarts(i)
  PROVE  RepositoriesInv'
<1> DEFINE roots == detectRepositories(sets[i].files)
           us == {e.uri : e \in Range(queue.events)}
           A == affected(us)
<1>1. /\ DiskTypes /\ QueueTypes /\ SetsTypes /\ ReposTypes
      /\ EventsInOrder /\ SetsFollow /\ WalksKnow /\ JobsFollow
      /\ RepositoriesFollow /\ FilesKnown /\ TrackedKnown
  BY DEF RepositoriesInv
<1>2. sets \in Seq(Walks) /\ DOMAIN sets = 1..Len(sets) /\ Len(sets) \in Nat /\ \A j \in DOMAIN sets : sets[j] \in Walks
  BY <1>1 DEF SetsTypes
<1>3. disk' = disk /\ vfs' = vfs /\ setQueue' = setQueue /\ queue' = [queue EXCEPT !.paused = TRUE]
  BY DEF SetStarts
<1>4. repos' = [r \in roots |-> newRepository] /\ roots \subseteq DOMAIN ConfigOf
  BY DEF SetStarts, addRepositoriesToWorkspace, detectRepositories
<1>5. queue'.events = queue.events /\ QueueTypes'
  BY <1>1, <1>3 DEF QueueTypes
<1>6. stale' = sets[i].missed \cup (stale \cap A)
  BY DEF SetStarts
<1>7. sets[i].missed \subseteq Files
  BY <1>2 DEF Walks
<1>8. /\ DOMAIN sets' = DOMAIN sets
      /\ \A j \in DOMAIN sets :
           sets'[j] = IF j = i THEN [sets[j] EXCEPT !.stage = "building", !.todo = roots]
                      ELSE IF sets[j].stage = "building" THEN [sets[j] EXCEPT !.todo = {}] ELSE sets[j]
      /\ sets' = [j \in DOMAIN sets |-> sets'[j]]
  BY DEF SetStarts
<1>9. jobs' = {IF j.pc = "lstat" THEN [j EXCEPT !.root = "gone"] ELSE j : j \in jobs}
  BY DEF SetStarts, clearRepositoriesForWorkspace
<1>10. sets[i].stage = "queued"
  BY DEF SetStarts
<1> HIDE DEF roots, A
<1>11. ASSUME NEW s \in Walks
       PROVE  LET t == [s EXCEPT !.stage = "building", !.todo = roots]
                  u == [s EXCEPT !.todo = {}]
              IN  /\ t \in Walks /\ t.by = s.by /\ t.holds = s.holds /\ t.files = s.files
                  /\ t.missed = s.missed /\ t.stage = "building" /\ t.todo = roots
                  /\ u \in Walks /\ u.by = s.by /\ u.holds = s.holds /\ u.files = s.files
                  /\ u.missed = s.missed /\ u.stage = s.stage /\ u.todo = {}
  BY <1>4 DEF Walks
<1>12. ASSUME NEW j \in DOMAIN sets
       PROVE  /\ sets'[j] \in Walks
              /\ sets'[j].by = sets[j].by /\ sets'[j].holds = sets[j].holds
              /\ sets'[j].files = sets[j].files /\ sets'[j].missed = sets[j].missed
              /\ j # i => sets'[j].stage = sets[j].stage /\ sets'[j].todo = {}
              /\ j = i => sets'[j].stage = "building" /\ sets'[j].todo = roots
  <2>1. sets[j].todo # {} => sets[j].stage = "building"
    BY <1>1 DEF SetsFollow, SetIsSound
  <2>2. sets[j] \in Walks
    BY <1>2
  <2>3. CASE j = i
    <3>1. sets'[j] = [sets[j] EXCEPT !.stage = "building", !.todo = roots]
      BY <1>8, <2>3
    <3> QED
      BY <1>11, <2>2, <2>3, <3>1
  <2>4. CASE j # i /\ sets[j].stage = "building"
    <3>1. sets'[j] = [sets[j] EXCEPT !.todo = {}]
      BY <1>8, <2>4
    <3> QED
      BY <1>11, <2>2, <2>4, <3>1
  <2>5. CASE j # i /\ sets[j].stage # "building"
    <3>1. sets'[j] = sets[j]
      BY <1>8, <2>5
    <3> QED
      BY <2>1, <2>2, <2>5, <3>1
  <2> QED
    BY <2>3, <2>4, <2>5
<1>13. sets' \in Seq(Walks)
  <2>1. sets' \in [1..Len(sets) -> Walks]
    BY <1>2, <1>8, <1>12
  <2> QED
    BY <1>2, <2>1
<1>14. DiskTypes' /\ SetsTypes'
  BY <1>1, <1>3, <1>6, <1>7, <1>13 DEF DiskTypes, SetsTypes
<1>15. ASSUME NEW k \in jobs'
       PROVE  \E j \in jobs : /\ k \in Jobs /\ k.pc = j.pc /\ k.uri = j.uri /\ k.files = j.files
                              /\ k.pc = "lstat" => k.root = "gone"
                              /\ k.pc # "lstat" => k = j
                              /\ k = IF j.pc = "lstat" THEN [j EXCEPT !.root = "gone"] ELSE j
  <2>1. PICK j \in jobs : k = IF j.pc = "lstat" THEN [j EXCEPT !.root = "gone"] ELSE j
    BY <1>9
  <2>2. j \in Jobs
    BY <1>1 DEF ReposTypes
  <2> QED
    BY <2>1, <2>2 DEF Jobs
<1>16. ReposTypes'
  <2>1. jobs' \subseteq Jobs
    BY <1>15
  <2>2. newRepository \in RepositoryRecords
    BY DEF newRepository, RepositoryRecords
  <2> QED
    BY <1>4, <2>1, <2>2 DEF ReposTypes
<1>17. DOMAIN repos' = roots /\ \A r \in roots : repos'[r] = newRepository
  BY <1>4
<1>18. OneAtWork' /\ roots \subseteq ToDo'
  <2>1. OneAtWork'
    BY <1>8, <1>12 DEF OneAtWork
  <2>2. i \in DOMAIN sets' /\ sets'[i].todo = roots
    BY <1>8, <1>12
  <2>3. ToDo' = UNION {sets'[j].todo : j \in DOMAIN sets'}
    BY DEF ToDo
  <2> QED
    BY <2>1, <2>2, <2>3
<1>19. SetsFollow'
  <2>1. Closed(stale)'
    <3>1. Closed(A) /\ Closed(stale) /\ Closed(sets[i].missed) /\ stale \subseteq Files
      BY <1>1, AffectedIs DEF SetsFollow, SetIsSound, DiskTypes, A
    <3>2. A \subseteq Files
      BY AffectedIs DEF A
    <3>3. Closed(stale \cap A)
      BY <3>1, <3>2 DEF Closed
    <3>4. Closed(sets[i].missed \cup (stale \cap A))
      BY <1>7, <3>1, <3>2, <3>3, ClosedUnion
    <3> QED
      BY <1>6, <3>4 DEF Closed
  <2>2. ASSUME NEW j \in DOMAIN sets' PROVE SetIsSound(sets[j])'
    <3>1. SetIsSound(sets[j])
      BY <1>1, <1>8, <2>2 DEF SetsFollow
    <3>2. j \in DOMAIN sets
      BY <1>8
    <3>3. Closed(sets[j].missed)'
      BY <1>12, <3>1, <3>2 DEF SetIsSound, Closed
    <3>4. sets'[j].by = "event" => sets'[j].holds
      BY <1>12, <3>1, <3>2 DEF SetIsSound
    <3>5. ASSUME sets'[j].todo # {}
          PROVE  /\ sets'[j].stage = "building" /\ sets'[j].missed \subseteq stale'
                 /\ sets'[j].todo \subseteq DOMAIN repos'
      BY <1>6, <1>12, <1>17, <3>2, <3>5
    <3>6. \A k \in jobs' : k.pc = "lstat" => k.root = "gone"
      BY <1>15
    <3> QED
      BY <3>3, <3>4, <3>5, <3>6 DEF SetIsSound
  <2> QED
    BY <1>18, <2>1, <2>2 DEF SetsFollow
<1>20. ASSUME NEW f \in Files, NEW k
       PROVE  Told(f, k)' = Told(f, k) /\ ToldOfEnd(f, k)' = ToldOfEnd(f, k)
  BY <1>5 DEF Told, ToldOfEnd, tellsOf, tellsOfEnd
<1>21. EventsInOrder'
  <2>1. SUFFICES ASSUME NEW f \in Files \ stale', NEW k \in DOMAIN queue'.events
                 PROVE  /\ f \in disk'.files /\ tellsOfEnd(queue'.events[k], f) => Told(f, k)'
                        /\ f \notin disk'.files /\ queue'.events[k].uri = f /\ queue'.events[k].type = "Changed"
                             => ToldOfEnd(f, k)'
    BY DEF EventsInOrder, tellsOfEnd
  <2>2. CASE f \notin stale
    <3>1. /\ f \in disk.files /\ tellsOfEnd(queue.events[k], f) => Told(f, k)
          /\ f \notin disk.files /\ queue.events[k].uri = f /\ queue.events[k].type = "Changed"
               => ToldOfEnd(f, k)
      BY <1>1, <1>5, <2>1, <2>2 DEF EventsInOrder
    <3> QED
      BY <1>3, <1>5, <1>20, <3>1
  <2>3. CASE f \in stale
    <3>1. f \notin A /\ f \in Files
      BY <1>6, <2>1, <2>3
    <3>2. queue.events[k].uri \in us
      BY <1>5, <2>1 DEF Range
    <3>3. affected({queue.events[k].uri}) \subseteq A
      BY <3>2, AffectedIs DEF A
    <3>4. f # queue.events[k].uri /\ ~tellsOfEnd(queue.events[k], f)
      BY <3>1, <3>3, AffectedIs, ToldIsAffected
    <3> QED
      BY <1>5, <3>4
  <2> QED
    BY <2>2, <2>3
<1>22. WalksKnow'
  <2>1. SUFFICES ASSUME NEW j \in DOMAIN sets', sets'[j].stage # "building" \/ sets'[j].todo # {},
                        NEW f \in Files \ sets'[j].missed
                 PROVE  /\ f \in disk'.files /\ f \notin sets'[j].files => Told(f, 0)'
                        /\ f \notin disk'.files /\ f \in sets'[j].files => ToldOfEnd(f, 0)'
    BY DEF WalksKnow, WalkKnows
  <2>2. j \in DOMAIN sets /\ (sets[j].stage # "building" \/ sets[j].todo # {})
    BY <1>8, <1>10, <1>12, <2>1
  <2>3. f \in Files \ sets[j].missed
    BY <1>12, <2>1, <2>2
  <2>4. /\ f \in disk.files /\ f \notin sets[j].files => Told(f, 0)
        /\ f \notin disk.files /\ f \in sets[j].files => ToldOfEnd(f, 0)
    BY <1>1, <2>2, <2>3 DEF WalksKnow, WalkKnows
  <2> QED
    BY <1>3, <1>12, <1>20, <2>2, <2>4
<1>23. JobsFollow'
  <2>1. ASSUME NEW k \in jobs' PROVE JobIsSound(k)'
    <3>1. PICK j \in jobs : /\ k.pc = j.pc /\ k.uri = j.uri
                            /\ k.pc = "lstat" => k.root = "gone"
      BY <1>15
    <3>2. JobIsSound(j)
      BY <1>1 DEF JobsFollow
    <3> QED
      BY <3>1, <3>2 DEF JobIsSound
  <2>2. ASSUME NEW k \in jobs', OfDirectory(k)
        PROVE  /\ \A n \in jobs' : n.pc # "refresh" => n = k
               /\ \A j \in DOMAIN sets' : ~sets'[j].holds
    <3>1. PICK j \in jobs : /\ k.pc = j.pc /\ k.uri = j.uri
                            /\ k = IF j.pc = "lstat" THEN [j EXCEPT !.root = "gone"] ELSE j
      BY <1>15
    <3>2. OfDirectory(j)
      BY <2>2, <3>1 DEF OfDirectory
    <3>3. /\ \A n \in jobs : n.pc # "refresh" => n = j
          /\ \A n \in DOMAIN sets : ~sets[n].holds
      BY <1>1, <3>2 DEF JobsFollow
    <3>4. ASSUME NEW n \in jobs', n.pc # "refresh" PROVE n = k
      <4>1. PICK m \in jobs : /\ n.pc = m.pc
                              /\ n = IF m.pc = "lstat" THEN [m EXCEPT !.root = "gone"] ELSE m
        BY <1>15
      <4>2. m = j
        BY <3>3, <3>4, <4>1
      <4> QED
        BY <3>1, <4>1, <4>2
    <3>5. \A n \in DOMAIN sets' : ~sets'[n].holds
      BY <1>8, <1>12, <3>3
    <3> QED
      BY <3>4, <3>5
  <2> QED
    BY <2>1, <2>2 DEF JobsFollow, OfDirectory
<1>24. RepositoriesFollow'
  <2>1. ASSUME NEW r \in DOMAIN repos' PROVE RepositoryIsSound(r)'
    <3>1. repos'[r].files = {} /\ repos'[r].rules = {}
      BY <1>17 DEF newRepository
    <3> QED
      BY <3>1 DEF RepositoryIsSound
  <2> QED
    BY <2>1 DEF RepositoriesFollow
<1>25. FilesKnown' /\ TrackedKnown'
  <2>1. \A f \in Files, r \in DOMAIN repos' : ~accounted(f, r)'
    BY <1>17, <1>18 DEF accounted
  <2> QED
    BY <2>1 DEF FilesKnown, TrackedKnown
<1> QED
  BY <1>5, <1>14, <1>16, <1>19, <1>21, <1>22, <1>23, <1>24, <1>25 DEF RepositoriesInv

\* One repository is set up: it has the files that the walk found for it.
LEMMA RepositorySetUpKeeps ==
  ASSUME RepositoriesInv, NEW i \in DOMAIN sets, NEW root \in sets[i].todo, RepositoryIsSetUp(i, root)
  PROVE  RepositoriesInv'
<1> DEFINE list == getFilesByRepositories(sets[i].files, DOMAIN repos)[root]
<1>1. /\ DiskTypes /\ QueueTypes /\ SetsTypes /\ ReposTypes
      /\ EventsInOrder /\ SetsFollow /\ WalksKnow /\ JobsFollow
      /\ RepositoriesFollow /\ FilesKnown /\ TrackedKnown
  BY DEF RepositoriesInv
<1>2. sets \in Seq(Walks) /\ DOMAIN sets = 1..Len(sets) /\ Len(sets) \in Nat /\ \A j \in DOMAIN sets : sets[j] \in Walks
  BY <1>1 DEF SetsTypes
<1>3. disk' = disk /\ vfs' = vfs /\ setQueue' = setQueue /\ queue' = queue /\ jobs' = jobs
  BY DEF RepositoryIsSetUp
<1>4. /\ repos' = [repos EXCEPT ![root] = setUp(@, root, list)]
      /\ stale' = IF readable(list) THEN stale ELSE Files
      /\ sets' = [sets EXCEPT ![i].todo = @ \ {root}]
  BY DEF RepositoryIsSetUp
<1>5. sets[i].stage = "building" /\ sets[i].missed \subseteq stale /\ root \in DOMAIN repos
  BY <1>1 DEF SetsFollow, SetIsSound
<1>6. DOMAIN repos \subseteq Dirs /\ sets[i].files \subseteq Files /\ repos[root] \in RepositoryRecords
  BY <1>1, <1>2, <1>5, GitFilesAreFiles DEF ReposTypes, Walks
<1>7. \A f : f \in list <=> f \in sets[i].files /\ owns(DOMAIN repos, root, f)
  BY <1>5, <1>6, FilesGoToOwners
<1>8. list \subseteq Files
  BY <1>6, <1>7
<1> HIDE DEF list
<1>9. DOMAIN repos' = DOMAIN repos /\ repos'[root] = setUp(repos[root], root, list)
      /\ \A r \in DOMAIN repos : r # root => repos'[r] = repos[r]
  BY <1>4, <1>5
<1>10. readable(list) =>
         /\ repos'[root] \in RepositoryRecords
         /\ repos'[root].files = repos[root].files \cup list
         /\ repos'[root].rules = list \cap IgnoreFiles
         /\ repos'[root].tracked = getTrackedFiles(root)
         /\ \A f \in list : f \in repos'[root].ignored
              <=> f \notin getTrackedFiles(root) /\ ignores(list \cap IgnoreFiles, f)
         /\ \A d : d \in repos'[root].dirs
              <=> d \in repos[root].dirs \/ (d \in Dirs \cap Below[root] /\ list \cap Below[d] # {})
  <2>1. readable(list) => isAsSetUp(setUp(repos[root], root, list), repos[root], root, list)
    BY <1>6, <1>8, SetUpIs
  <2> QED
    BY <1>9, <2>1 DEF isAsSetUp
<1>11. ~readable(list) => repos'[root] = repos[root] /\ stale' = Files
  BY <1>4, <1>9 DEF setUp
<1>12. ASSUME NEW s \in Walks
       PROVE  LET t == [s EXCEPT !.todo = @ \ {root}]
              IN  /\ t \in Walks /\ t.by = s.by /\ t.holds = s.holds /\ t.files = s.files
                  /\ t.missed = s.missed /\ t.stage = s.stage /\ t.todo = s.todo \ {root}
  BY DEF Walks
<1>13. /\ DOMAIN sets' = DOMAIN sets /\ sets'[i] = [sets[i] EXCEPT !.todo = @ \ {root}]
       /\ \A j \in DOMAIN sets : j # i => sets'[j] = sets[j]
       /\ sets' = [j \in DOMAIN sets |-> sets'[j]]
  BY <1>4
<1>14. /\ sets'[i] \in Walks /\ sets'[i].by = sets[i].by /\ sets'[i].holds = sets[i].holds
       /\ sets'[i].files = sets[i].files
       /\ sets'[i].missed = sets[i].missed /\ sets'[i].stage = sets[i].stage
       /\ sets'[i].todo = sets[i].todo \ {root}
  BY <1>2, <1>12, <1>13
<1>15. ASSUME NEW j \in DOMAIN sets
       PROVE  /\ sets'[j] \in Walks /\ sets'[j].by = sets[j].by /\ sets'[j].holds = sets[j].holds
              /\ sets'[j].files = sets[j].files
              /\ sets'[j].missed = sets[j].missed /\ sets'[j].stage = sets[j].stage
              /\ sets'[j].todo = sets[j].todo \ {root}
  <2>1. CASE j = i
    BY <1>14, <2>1
  <2>2. CASE j # i
    <3>1. sets[j].todo = {}
      BY <1>1, <2>2 DEF SetsFollow, OneAtWork
    <3> QED
      BY <1>2, <1>13, <2>2, <3>1
  <2> QED
    BY <2>1, <2>2
<1>16. sets' \in Seq(Walks)
  <2>1. sets' \in [1..Len(sets) -> Walks]
    BY <1>2, <1>13, <1>15
  <2> QED
    BY <1>2, <2>1
<1>17. ToDo' = ToDo \ {root}
  <2>1. ToDo' = UNION {sets'[j].todo : j \in DOMAIN sets'}
    BY DEF ToDo
  <2>2. \A r : r \in ToDo' <=> \E j \in DOMAIN sets : r \in sets'[j].todo
    BY <1>13, <2>1
  <2>3. \A r : r \in ToDo <=> \E j \in DOMAIN sets : r \in sets[j].todo
    BY DEF ToDo
  <2>4. \A r : r \in ToDo' <=> r \in ToDo /\ r # root
    BY <1>15, <2>2, <2>3
  <2> QED
    BY <2>4
<1>18. AllAnew' = AllAnew
  <2>1. AllAnew' <=> \E j \in DOMAIN sets' : sets'[j].by = "event" /\ sets'[j].stage # "building"
    BY DEF AllAnew
  <2>2. AllAnew' <=> \E j \in DOMAIN sets : sets[j].by = "event" /\ sets[j].stage # "building"
    BY <1>13, <1>15, <2>1
  <2> QED
    BY <2>2 DEF AllAnew
<1>19. stale \subseteq stale' /\ stale' \subseteq Files
  BY <1>1, <1>4 DEF DiskTypes
<1>20. DiskTypes' /\ QueueTypes' /\ SetsTypes'
  BY <1>1, <1>3, <1>16, <1>19 DEF DiskTypes, QueueTypes, SetsTypes
<1>21. ReposTypes'
  <2>1. repos'[root] \in RepositoryRecords
    BY <1>6, <1>10, <1>11
  <2> QED
    BY <1>1, <1>3, <1>9, <2>1 DEF ReposTypes
<1>22. SetsFollow'
  <2>1. OneAtWork'
    BY <1>1, <1>13, <1>15 DEF SetsFollow, OneAtWork
  <2>2. Closed(stale)'
    BY <1>1, <1>4 DEF SetsFollow, Closed
  <2>3. ASSUME NEW j \in DOMAIN sets' PROVE SetIsSound(sets[j])'
    <3>1. SetIsSound(sets[j])
      BY <1>1, <1>13, <2>3 DEF SetsFollow
    <3> QED
      BY <1>3, <1>9, <1>13, <1>15, <1>19, <3>1 DEF SetIsSound, Closed
  <2> QED
    BY <2>1, <2>2, <2>3 DEF SetsFollow
<1>23. EventsInOrder'
  BY <1>1, <1>3, <1>19 DEF EventsInOrder, Told, ToldOfEnd, tellsOf, tellsOfEnd
<1>24. ASSUME NEW f \in Files
       PROVE  Told(f, 0)' = Told(f, 0) /\ ToldOfEnd(f, 0)' = ToldOfEnd(f, 0)
  BY <1>3 DEF Told, ToldOfEnd, tellsOf, tellsOfEnd
<1>25. WalksKnow'
  <2>1. SUFFICES ASSUME NEW j \in DOMAIN sets', sets'[j].stage # "building" \/ sets'[j].todo # {},
                        NEW f \in Files \ sets'[j].missed
                 PROVE  /\ f \in disk'.files /\ f \notin sets'[j].files => Told(f, 0)'
                        /\ f \notin disk'.files /\ f \in sets'[j].files => ToldOfEnd(f, 0)'
    BY DEF WalksKnow, WalkKnows
  <2>2. j \in DOMAIN sets /\ (sets[j].stage # "building" \/ sets[j].todo # {})
        /\ f \in Files \ sets[j].missed
    BY <1>13, <1>15, <2>1
  <2>3. /\ f \in disk.files /\ f \notin sets[j].files => Told(f, 0)
        /\ f \notin disk.files /\ f \in sets[j].files => ToldOfEnd(f, 0)
    BY <1>1, <2>2 DEF WalksKnow, WalkKnows
  <2> QED
    BY <1>3, <1>15, <1>24, <2>2, <2>3
<1>26. JobsFollow'
  <2>1. ASSUME NEW j \in jobs' PROVE JobIsSound(j)'
    BY <1>1, <1>3, <1>9, <2>1 DEF JobsFollow, JobIsSound, owns, matching
  <2>2. ASSUME NEW j \in jobs', OfDirectory(j)
        PROVE  /\ \A k \in jobs' : k.pc # "refresh" => k = j
               /\ \A k \in DOMAIN sets' : ~sets'[k].holds
    BY <1>1, <1>3, <1>13, <1>15, <2>2 DEF JobsFollow
  <2> QED
    BY <2>1, <2>2 DEF JobsFollow, OfDirectory
<1>27. repos[root].files \subseteq stale \ IgnoreFiles
  <2>1. root \in ToDo
    BY DEF ToDo
  <2> QED
    BY <1>1, <1>5, <2>1 DEF RepositoriesFollow, RepositoryIsSound
<1>28. RepositoriesFollow'
  <2>1. ASSUME NEW r \in DOMAIN repos' PROVE RepositoryIsSound(r)'
    <3>1. RepositoryIsSound(r) /\ r \in DOMAIN repos
      BY <1>1, <1>9, <2>1 DEF RepositoriesFollow
    <3>2. CASE repos'[r] = repos[r]
      BY <1>9, <1>17, <1>18, <1>19, <3>1, <3>2 DEF RepositoryIsSound, owns, matching
    <3>3. CASE r = root /\ readable(list)
      <4>1. \A f \in repos'[r].files : owns(DOMAIN repos', r, f)
        BY <1>7, <1>9, <1>10, <3>1, <3>3 DEF RepositoryIsSound
      <4>2. \A f \in repos'[r].files, d \in Dirs \cap Below[r] : f \in Below[d] => d \in repos'[r].dirs
        BY <1>10, <3>1, <3>3 DEF RepositoryIsSound
      <4>3. repos'[r].rules = repos'[r].files \cap IgnoreFiles /\ r \notin ToDo'
        BY <1>10, <1>17, <1>27, <3>3
      <4> QED
        BY <4>1, <4>2, <4>3 DEF RepositoryIsSound, owns, matching
    <3> QED
      BY <1>9, <1>11, <3>1, <3>2, <3>3
  <2> QED
    BY <2>1 DEF RepositoriesFollow
<1>29. ASSUME NEW f \in Files, NEW r \in DOMAIN repos', accounted(f, r)', r # root
       PROVE  accounted(f, r) /\ r \in DOMAIN repos /\ repos'[r] = repos[r]
  BY <1>9, <1>17, <1>19, <1>29 DEF accounted, owns, matching
<1>30. ASSUME NEW f \in Files, accounted(f, root)'
       PROVE  /\ readable(list) /\ f \notin stale /\ f \notin repos[root].files
              /\ f \in repos'[root].files <=> f \in sets[i].files
              /\ f \in repos'[root].files <=> f \in list
  <2>1. f \notin stale' /\ owns(DOMAIN repos, root, f)
    BY <1>9, <1>30 DEF accounted, owns, matching
  <2>2. readable(list) /\ f \notin stale
    BY <1>4, <2>1
  <2> QED
    BY <1>7, <1>10, <1>27, <2>1, <2>2
<1>31. FilesKnown'
  <2>1. SUFFICES ASSUME NEW f \in Files, NEW r \in DOMAIN repos', accounted(f, r)', ~AllAnew'
                 PROVE  FileIsKnown(f, r)'
    BY DEF FilesKnown
  <2>2. CASE r # root
    <3>1. FileIsKnown(f, r) /\ repos'[r] = repos[r]
      BY <1>1, <1>18, <1>29, <2>1, <2>2 DEF FilesKnown
    <3>2. JobAdds(f, r)' = JobAdds(f, r)
      BY <1>3 DEF JobAdds
    <3> QED
      BY <1>3, <1>24, <3>1, <3>2 DEF FileIsKnown
  <2>3. CASE r = root
    <3>1. f \in Files \ sets[i].missed /\ (f \in repos'[r].files <=> f \in sets[i].files)
      BY <1>5, <1>30, <2>1, <2>3
    <3>2. /\ f \in disk.files /\ f \notin sets[i].files => Told(f, 0)
          /\ f \notin disk.files /\ f \in sets[i].files => ToldOfEnd(f, 0)
      BY <1>1, <3>1 DEF WalksKnow, WalkKnows
    <3> QED
      BY <1>3, <1>24, <3>1, <3>2 DEF FileIsKnown
  <2> QED
    BY <2>2, <2>3
<1>32. TrackedKnown'
  <2>1. SUFFICES ASSUME NEW f \in Files, NEW r \in DOMAIN repos', accounted(f, r)'
                 PROVE  TrackedIsKnown(f, r)'
    BY DEF TrackedKnown
  <2>2. CASE r # root
    <3>1. TrackedIsKnown(f, r) /\ repos'[r] = repos[r]
      BY <1>1, <1>29, <2>1, <2>2 DEF TrackedKnown
    <3>2. IndexIsTold(r)' = IndexIsTold(r)
      BY <1>3 DEF IndexIsTold
    <3> QED
      BY <1>3, <3>1, <3>2 DEF TrackedIsKnown
  <2>3. CASE r = root
    <3>1. /\ readable(list) /\ f \notin repos[root].files
          /\ f \in repos'[root].files <=> f \in list
      BY <1>30, <2>1, <2>3
    <3>2. f \in repos'[r].tracked <=> <<r, f>> \in disk.index
      BY <1>10, <2>3, <3>1 DEF getTrackedFiles
    <3>3. f \in repos'[r].files =>
            (f \in repos'[r].ignored <=> ~(<<r, f>> \in disk.index) /\ ignores(repos'[r].rules, f))
      BY <1>10, <2>3, <3>1 DEF getTrackedFiles
    <3> QED
      BY <1>3, <3>2, <3>3 DEF TrackedIsKnown
  <2> QED
    BY <2>2, <2>3
<1> QED
  BY <1>20, <1>21, <1>22, <1>23, <1>25, <1>26, <1>28, <1>31, <1>32 DEF RepositoriesInv

-----------------------------------------------------------------------------
\* The index is read, and the files that it tracks are those of the repository.
LEMMA RefreshKeeps ==
  ASSUME RepositoriesInv, NEW j \in jobs, RefreshTrackedFiles(j)
  PROVE  RepositoriesInv'
<1>1. /\ DiskTypes /\ QueueTypes /\ SetsTypes /\ ReposTypes
      /\ EventsInOrder /\ SetsFollow /\ WalksKnow /\ JobsFollow
      /\ RepositoriesFollow /\ FilesKnown /\ TrackedKnown
  BY DEF RepositoriesInv
<1>2. /\ disk' = disk /\ vfs' = vfs /\ queue' = queue /\ sets' = sets /\ setQueue' = setQueue
      /\ stale' = stale /\ jobs' = jobs \ {j} /\ j.pc = "refresh"
  BY DEF RefreshTrackedFiles
<1>3. getTrackedFiles(j.root) \subseteq Files
  BY DEF getTrackedFiles
<1>4. ASSUME NEW repo \in RepositoryRecords
      PROVE  LET new == [repo EXCEPT !.tracked = getTrackedFiles(j.root)]
             IN  /\ new \in RepositoryRecords /\ new.files = repo.files /\ new.ignored = repo.ignored
                 /\ new.dirs = repo.dirs /\ new.rules = repo.rules
                 /\ new.tracked = getTrackedFiles(j.root)
  BY <1>3 DEF RepositoryRecords
<1>5. /\ DOMAIN repos' = DOMAIN repos
      /\ \A r \in DOMAIN repos : repos'[r] =
           IF r = j.root THEN [repos[r] EXCEPT !.tracked = getTrackedFiles(j.root)] ELSE repos[r]
  BY DEF RefreshTrackedFiles
<1>6. ASSUME NEW r \in DOMAIN repos
      PROVE  /\ repos'[r] \in RepositoryRecords
             /\ repos'[r].files = repos[r].files /\ repos'[r].ignored = repos[r].ignored
             /\ repos'[r].dirs = repos[r].dirs /\ repos'[r].rules = repos[r].rules
             /\ repos'[r].tracked = IF r = j.root THEN getTrackedFiles(r) ELSE repos[r].tracked
  <2>1. repos[r] \in RepositoryRecords
    BY <1>1 DEF ReposTypes
  <2>2. CASE r = j.root
    BY <1>4, <1>5, <2>1, <2>2
  <2>3. CASE r # j.root
    BY <1>5, <2>1, <2>3
  <2> QED
    BY <2>2, <2>3
<1>7. DiskTypes' /\ QueueTypes' /\ SetsTypes' /\ ReposTypes'
  <2>1. ReposTypes'
    BY <1>1, <1>2, <1>5, <1>6 DEF ReposTypes
  <2> QED
    BY <1>1, <1>2, <2>1 DEF DiskTypes, QueueTypes, SetsTypes
<1>8. ToDo' = ToDo /\ AllAnew' = AllAnew
  BY <1>2 DEF ToDo, AllAnew
<1>9. SetsFollow'
  BY <1>1, <1>2, <1>5 DEF SetsFollow, OneAtWork, SetIsSound, Closed
<1>10. ASSUME NEW f \in Files, NEW k
       PROVE  Told(f, k)' = Told(f, k) /\ ToldOfEnd(f, k)' = ToldOfEnd(f, k)
  BY <1>2 DEF Told, ToldOfEnd, tellsOf, tellsOfEnd
<1>11. EventsInOrder' /\ WalksKnow'
  BY <1>1, <1>2 DEF EventsInOrder, WalksKnow, WalkKnows, Told, ToldOfEnd, tellsOf, tellsOfEnd
<1>12. JobsFollow'
  BY <1>1, <1>2, <1>5 DEF JobsFollow, JobIsSound, owns, matching, OfDirectory
<1>13. RepositoriesFollow'
  <2>1. ASSUME NEW r \in DOMAIN repos PROVE RepositoryIsSound(r)'
    <3>1. RepositoryIsSound(r)
      BY <1>1 DEF RepositoriesFollow
    <3> QED
      BY <1>2, <1>5, <1>6, <1>8, <3>1 DEF RepositoryIsSound, owns, matching
  <2> QED
    BY <1>5, <2>1 DEF RepositoriesFollow
<1>14. ASSUME NEW f \in Files, NEW r \in DOMAIN repos', accounted(f, r)'
       PROVE  accounted(f, r) /\ r \in DOMAIN repos
  BY <1>2, <1>5, <1>8, <1>14 DEF accounted, owns, matching
<1>15. FilesKnown'
  <2>1. SUFFICES ASSUME NEW f \in Files, NEW r \in DOMAIN repos', accounted(f, r)', ~AllAnew'
                 PROVE  FileIsKnown(f, r)'
    BY DEF FilesKnown
  <2>2. FileIsKnown(f, r) /\ repos'[r].files = repos[r].files
    BY <1>1, <1>6, <1>8, <1>14, <2>1 DEF FilesKnown
  <2>3. JobAdds(f, r) => JobAdds(f, r)'
    BY <1>2 DEF JobAdds
  <2> QED
    BY <1>2, <1>10, <2>2, <2>3 DEF FileIsKnown
<1>16. TrackedKnown'
  <2>1. SUFFICES ASSUME NEW f \in Files, NEW r \in DOMAIN repos', accounted(f, r)'
                 PROVE  TrackedIsKnown(f, r)'
    BY DEF TrackedKnown
  <2>2. TrackedIsKnown(f, r) /\ r \in DOMAIN repos
    BY <1>1, <1>14, <2>1 DEF TrackedKnown
  <2>3. CASE r = j.root
    <3>1. f \in repos'[r].tracked <=> <<r, f>> \in disk.index
      BY <1>6, <2>2, <2>3 DEF getTrackedFiles
    <3> QED
      BY <1>2, <1>6, <2>2, <3>1 DEF TrackedIsKnown
  <2>4. CASE r # j.root
    <3>1. IndexIsTold(r) => IndexIsTold(r)'
      BY <1>2, <2>4 DEF IndexIsTold
    <3> QED
      BY <1>2, <1>6, <2>2, <2>4, <3>1 DEF TrackedIsKnown
  <2> QED
    BY <2>3, <2>4
<1> QED
  BY <1>7, <1>9, <1>11, <1>12, <1>13, <1>15, <1>16 DEF RepositoriesInv

\* A directory was created: its walk will find the files that are there.
LEMMA DirectoryCreatedKeeps ==
  ASSUME RepositoriesInv, NEW j \in jobs, DirectoryCreated(j)
  PROVE  RepositoriesInv'
<1>1. /\ DiskTypes /\ QueueTypes /\ SetsTypes /\ ReposTypes
      /\ EventsInOrder /\ SetsFollow /\ WalksKnow /\ JobsFollow
      /\ RepositoriesFollow /\ FilesKnown /\ TrackedKnown
  BY DEF RepositoriesInv
<1>2. /\ disk' = disk /\ vfs' = vfs /\ queue' = queue /\ sets' = sets /\ setQueue' = setQueue
      /\ stale' = stale /\ repos' = repos /\ j.pc = "lstat" /\ j.uri \in Dirs
  BY DEF DirectoryCreated
<1>3. PICK w : w = job("walk", j.uri, j.root)
  OBVIOUS
<1>4. w.pc = "walk" /\ w.uri = j.uri /\ w.files = disk.files /\ w \in Jobs
  BY <1>1, <1>3 DEF job, Jobs, ReposTypes, DiskTypes
<1>5. jobs' = (jobs \ {j}) \cup {w}
  BY <1>3 DEF DirectoryCreated
<1>6. DiskTypes' /\ QueueTypes' /\ SetsTypes' /\ ReposTypes'
  BY <1>1, <1>2, <1>4, <1>5 DEF DiskTypes, QueueTypes, SetsTypes, ReposTypes
<1>7. ToDo' = ToDo /\ AllAnew' = AllAnew
  BY <1>2 DEF ToDo, AllAnew
<1>8. SetsFollow'
  <2>1. \A k \in jobs' : k.pc = "lstat" => k \in jobs
    BY <1>4, <1>5
  <2> QED
    BY <1>1, <1>2, <2>1 DEF SetsFollow, OneAtWork, SetIsSound, Closed
<1>9. EventsInOrder' /\ WalksKnow' /\ RepositoriesFollow'
  <2>1. EventsInOrder' /\ WalksKnow'
    BY <1>1, <1>2 DEF EventsInOrder, WalksKnow, WalkKnows, Told, ToldOfEnd, tellsOf, tellsOfEnd
  <2>2. RepositoriesFollow'
    BY <1>1, <1>2, <1>7 DEF RepositoriesFollow, RepositoryIsSound, owns, matching
  <2> QED
    BY <2>1, <2>2
<1>10. /\ \A k \in jobs : k.pc # "refresh" => k = j
       /\ \A i \in DOMAIN sets : ~sets[i].holds
  BY <1>1, <1>2 DEF JobsFollow, OfDirectory
<1>11. \A k \in jobs' : k = w \/ (k \in jobs /\ k.pc = "refresh")
  BY <1>5, <1>10
<1>12. JobsFollow'
  <2>1. ASSUME NEW k \in jobs' PROVE JobIsSound(k)'
    BY <1>2, <1>4, <1>11, <2>1 DEF JobIsSound
  <2>2. ASSUME NEW k \in jobs', OfDirectory(k)
        PROVE  /\ \A n \in jobs' : n.pc # "refresh" => n = k
               /\ \A i \in DOMAIN sets' : ~sets'[i].holds
    BY <1>2, <1>10, <1>11, <2>2 DEF OfDirectory
  <2> QED
    BY <2>1, <2>2 DEF JobsFollow, OfDirectory
<1>13. ASSUME NEW f \in Files, NEW r \in DOMAIN repos', accounted(f, r)'
       PROVE  accounted(f, r) /\ r \in DOMAIN repos
  BY <1>2, <1>7, <1>13 DEF accounted, owns, matching
<1>14. ASSUME NEW f \in Files
       PROVE  Told(f, 0)' = Told(f, 0) /\ ToldOfEnd(f, 0)' = ToldOfEnd(f, 0)
  BY <1>2 DEF Told, ToldOfEnd, tellsOf, tellsOfEnd
<1>15. FilesKnown'
  <2>1. SUFFICES ASSUME NEW f \in Files, NEW r \in DOMAIN repos', accounted(f, r)', ~AllAnew'
                 PROVE  FileIsKnown(f, r)'
    BY DEF FilesKnown
  <2>2. FileIsKnown(f, r)
    BY <1>1, <1>7, <1>13, <2>1 DEF FilesKnown
  <2>3. ASSUME f \in disk.files, JobAdds(f, r) PROVE JobAdds(f, r)'
    <3>1. PICK k \in jobs : /\ k.pc # "refresh"
                            /\ (k.pc = "lstat" /\ k.uri = f) \/ f \in Below[k.uri]
      BY <2>3 DEF JobAdds
    <3>2. f \in Below[j.uri]
      BY <1>2, <1>10, <3>1, UrisAreTree
    <3>3. w \in jobs' /\ w.pc = "walk" /\ f \in Below[w.uri] /\ f \in w.files
      BY <1>4, <1>5, <2>3, <3>2
    <3> QED
      BY <3>3 DEF JobAdds
  <2> QED
    BY <1>2, <1>14, <2>2, <2>3 DEF FileIsKnown
<1>16. TrackedKnown'
  <2>1. SUFFICES ASSUME NEW f \in Files, NEW r \in DOMAIN repos', accounted(f, r)'
                 PROVE  TrackedIsKnown(f, r)'
    BY DEF TrackedKnown
  <2>2. TrackedIsKnown(f, r)
    BY <1>1, <1>13, <2>1 DEF TrackedKnown
  <2>3. IndexIsTold(r) => IndexIsTold(r)'
    BY <1>2, <1>5 DEF IndexIsTold
  <2> QED
    BY <1>2, <2>2, <2>3 DEF TrackedIsKnown
<1> QED
  BY <1>6, <1>8, <1>9, <1>12, <1>15, <1>16 DEF RepositoriesInv

\* A file was created, and its repository is still there: it has it now.
LEMMA FileCreatedKeeps ==
  ASSUME RepositoriesInv, NEW j \in jobs, FileCreated(j)
  PROVE  RepositoriesInv'
<1> DEFINE lost == IF j.root = "gone" \/ Reading THEN {j.uri} ELSE {}
           u == j.uri
           puts == j.root # "gone" /\ u \in disk.files
<1>1. /\ DiskTypes /\ QueueTypes /\ SetsTypes /\ ReposTypes
      /\ EventsInOrder /\ SetsFollow /\ WalksKnow /\ JobsFollow
      /\ RepositoriesFollow /\ FilesKnown /\ TrackedKnown
  BY DEF RepositoriesInv
<1>2. /\ disk' = disk /\ vfs' = vfs /\ queue' = queue /\ setQueue' = setQueue
      /\ stale' = stale \cup affected(lost) /\ sets' = missing(sets, lost)
      /\ jobs' = jobs \ {j} /\ j.pc = "lstat" /\ u \notin Dirs
      /\ repos' = IF puts THEN [repos EXCEPT ![j.root] = setFiles(@, j.root, {u})] ELSE repos
  BY DEF FileCreated, miss
<1>3. u \in Files /\ lost \subseteq Files \cup Dirs /\ u \notin IgnoreFiles
  BY <1>1, <1>2 DEF ReposTypes, Jobs, JobsFollow, JobIsSound
<1>4. j.root # "gone" => j.root \in DOMAIN repos /\ owns(DOMAIN repos, j.root, u)
  BY <1>1, <1>2 DEF JobsFollow, JobIsSound
<1>5. j.root = "gone" \/ Reading => u \in stale'
  <2>1. ASSUME lost = {u} PROVE u \in affected(lost)
    BY <1>3, <2>1, AffectedIs
  <2> QED
    BY <1>2, <2>1
<1>6. stale' \subseteq Files /\ stale \subseteq stale'
  BY <1>1, <1>2, AffectedIs DEF DiskTypes
<1>7. j.root \in ToDo => u \in stale'
  <2>1. SUFFICES ASSUME j.root \in ToDo, j.root # "gone" PROVE Reading
    BY <1>5
  <2>2. PICK i \in DOMAIN sets : j.root \in sets[i].todo
    BY <2>1 DEF ToDo
  <2>3. sets[i].by # "event"
    BY <1>1, <1>2, <2>1, <2>2 DEF SetsFollow, SetIsSound
  <2>4. sets[i] \in Walks
    BY <1>1 DEF SetsTypes
  <2>5. sets[i].by = "vfs"
    BY <2>3, <2>4 DEF Walks
  <2> QED
    BY <2>5 DEF Reading
<1> HIDE DEF lost, u
<1>8. DOMAIN repos' = DOMAIN repos
  BY <1>2
<1>9. ASSUME NEW r \in DOMAIN repos, r # j.root \/ ~puts
      PROVE  repos'[r] = repos[r]
  BY <1>2, <1>9
<1>10. ASSUME puts PROVE isWithFiles(repos'[j.root], repos[j.root], j.root, {u})
  <2>1. repos[j.root] \in RepositoryRecords
    BY <1>1, <1>4, <1>10 DEF ReposTypes
  <2>2. repos'[j.root] = setFiles(repos[j.root], j.root, {u})
    BY <1>2, <1>4, <1>10
  <2>3. {u} \subseteq Files
    BY <1>3
  <2>4. isWithFiles(setFiles(repos[j.root], j.root, {u}), repos[j.root], j.root, {u})
    BY <2>1, <2>3, SetFilesIs
  <2> QED
    BY <2>2, <2>4
<1>11. ASSUME NEW r \in DOMAIN repos
       PROVE  /\ repos'[r] \in RepositoryRecords
              /\ repos[r].files \subseteq repos'[r].files
              /\ repos'[r].rules = repos[r].rules /\ repos'[r].tracked = repos[r].tracked
              /\ \A f \in repos'[r].files : f \in repos[r].files \/ (f = u /\ r = j.root /\ puts)
              /\ puts /\ r = j.root => u \in repos'[r].files
              /\ \A d \in repos[r].dirs : d \in repos'[r].dirs
              /\ puts /\ r = j.root => \A d \in Dirs \cap Below[r] : u \in Below[d] => d \in repos'[r].dirs
  <2>1. CASE puts /\ r = j.root
    BY <1>10, <2>1 DEF isWithFiles
  <2>2. CASE ~(puts /\ r = j.root)
    BY <1>1, <1>9, <2>2 DEF ReposTypes
  <2> QED
    BY <2>1, <2>2
<1>12. PICK w : w = walk("event")
  OBVIOUS
<1>13. /\ w \in Walks /\ w.by = "event" /\ w.stage = "walking" /\ w.holds /\ w.missed = {} /\ w.todo = {}
       /\ w.files = disk'.files
  BY <1>1, <1>2, <1>12, WalkIs
<1>14. sets' = missing(sets, lost) \o <<>> /\ <<>> \in Seq({w}) /\ sets' \in Seq(Walks)
  <2>1. missing(sets, lost) \in Seq(Walks)
    BY <1>1, <1>3, MissingIs
  <2> QED
    BY <1>2, <2>1, ConcatEmptySeq
<1>15. DiskTypes' /\ QueueTypes' /\ SetsTypes' /\ ReposTypes'
  <2>1. ReposTypes'
    BY <1>1, <1>2, <1>8, <1>11 DEF ReposTypes
  <2> QED
    BY <1>1, <1>2, <1>6, <1>14, <2>1 DEF DiskTypes, QueueTypes, SetsTypes
<1>16. SetsFollow' /\ ToDo' = ToDo /\ AllAnew' = AllAnew
       /\ ((\A i \in DOMAIN sets : ~sets[i].holds) => \A i \in DOMAIN sets' : ~sets'[i].holds)
  <2>1. ASSUME NEW i \in DOMAIN sets, sets[i].by = "event", sets[i].todo # {}
        PROVE  \A k \in jobs' : k.pc = "lstat" => k.root = "gone"
    BY <1>1, <1>2, <2>1 DEF SetsFollow, SetIsSound
  <2>2. AllAnew \in BOOLEAN /\ (<<>> # <<>>) = FALSE
    BY DEF AllAnew
  <2> QED
    BY <1>2, <1>3, <1>8, <1>13, <1>14, <2>1, <2>2, SetsFollowOn
<1>17. ASSUME NEW f \in Files, NEW k
       PROVE  Told(f, k)' = Told(f, k) /\ ToldOfEnd(f, k)' = ToldOfEnd(f, k)
  BY <1>2 DEF Told, ToldOfEnd, tellsOf, tellsOfEnd
<1>18. EventsInOrder'
  BY <1>1, <1>2, <1>6 DEF EventsInOrder, Told, ToldOfEnd, tellsOf, tellsOfEnd
<1>19. WalksKnow'
  <2>1. ASSUME NEW f \in Files \ affected(lost)
        PROVE  /\ Told(f, 0) => Told(f, 0)'
               /\ ToldOfEnd(f, 0) => ToldOfEnd(f, 0)'
               /\ f \in disk'.files /\ f \notin disk.files => Told(f, 0)'
               /\ f \notin disk'.files /\ f \in disk.files => ToldOfEnd(f, 0)'
    BY <1>2, <1>17, <2>1
  <2> QED
    BY <1>3, <1>13, <1>14, <2>1, WalksKnowOn
<1>20. JobsFollow'
  <2>1. ASSUME NEW k \in jobs' PROVE JobIsSound(k)'
    BY <1>1, <1>2, <1>8, <2>1 DEF JobsFollow, JobIsSound, owns, matching
  <2>2. ASSUME NEW k \in jobs', OfDirectory(k)
        PROVE  /\ \A n \in jobs' : n.pc # "refresh" => n = k
               /\ \A i \in DOMAIN sets' : ~sets'[i].holds
    BY <1>1, <1>2, <1>16, <2>2 DEF JobsFollow
  <2> QED
    BY <2>1, <2>2 DEF JobsFollow, OfDirectory
<1>21. RepositoriesFollow'
  <2>1. ASSUME NEW r \in DOMAIN repos PROVE RepositoryIsSound(r)'
    <3>1. RepositoryIsSound(r)
      BY <1>1 DEF RepositoriesFollow
    <3>2. \A f \in repos'[r].files : owns(DOMAIN repos', r, f)
      BY <1>4, <1>8, <1>11, <3>1 DEF RepositoryIsSound
    <3>3. \A f \in repos'[r].files, d \in Dirs \cap Below[r] : f \in Below[d] => d \in repos'[r].dirs
      BY <1>11, <3>1 DEF RepositoryIsSound
    <3>4. r \in ToDo' => repos'[r].files \subseteq stale' \ IgnoreFiles
      BY <1>3, <1>6, <1>7, <1>11, <1>16, <3>1 DEF RepositoryIsSound
    <3>5. repos'[r].rules = repos'[r].files \cap IgnoreFiles \/ AllAnew'
      <4>1. repos'[r].files \cap IgnoreFiles = repos[r].files \cap IgnoreFiles
        BY <1>3, <1>11
      <4> QED
        BY <1>11, <1>16, <3>1, <4>1 DEF RepositoryIsSound
    <3> QED
      BY <3>2, <3>3, <3>4, <3>5 DEF RepositoryIsSound, owns, matching
  <2> QED
    BY <1>8, <2>1 DEF RepositoriesFollow
<1>22. ASSUME NEW f \in Files, NEW r \in DOMAIN repos', accounted(f, r)'
       PROVE  accounted(f, r) /\ r \in DOMAIN repos /\ f \notin stale'
  BY <1>6, <1>8, <1>16, <1>22 DEF accounted, owns, matching
<1>23. FilesKnown'
  <2>1. SUFFICES ASSUME NEW f \in Files, NEW r \in DOMAIN repos', accounted(f, r)', ~AllAnew'
                 PROVE  FileIsKnown(f, r)'
    BY DEF FilesKnown
  <2>2. FileIsKnown(f, r) /\ r \in DOMAIN repos /\ f \notin stale'
    BY <1>1, <1>16, <1>22, <2>1 DEF FilesKnown
  <2>3. ASSUME f \in disk'.files, f \notin repos'[r].files PROVE Told(f, 0)' \/ JobAdds(f, r)'
    <3>1. Told(f, 0) \/ JobAdds(f, r)
      BY <1>2, <1>11, <2>2, <2>3 DEF FileIsKnown
    <3>2. ASSUME JobAdds(f, r) PROVE JobAdds(f, r)'
      <4>1. PICK k \in jobs :
              \/ k.pc = "lstat" /\ k.uri = f /\ k.root = r
              \/ k.pc = "lstat" /\ k.uri \in Dirs /\ f \in Below[k.uri]
              \/ k.pc = "walk" /\ f \in Below[k.uri] /\ f \in k.files
        BY <3>2 DEF JobAdds
      <4>2. CASE k = j
        <5>1. u = f /\ j.root = r
          BY <1>2, <4>1, <4>2 DEF u
        <5>2. puts
          BY <1>2, <1>5, <2>2, <2>3, <5>1
        <5> QED
          BY <1>11, <2>2, <2>3, <5>1, <5>2
      <4>3. CASE k # j
        BY <1>2, <4>1, <4>3 DEF JobAdds
      <4> QED
        BY <4>2, <4>3
    <3> QED
      BY <1>17, <3>1, <3>2
  <2>4. ASSUME f \notin disk'.files, f \in repos'[r].files PROVE ToldOfEnd(f, 0)'
    <3>1. f \in repos[r].files
      BY <1>2, <1>11, <2>2, <2>4
    <3> QED
      BY <1>2, <1>17, <2>2, <2>4, <3>1 DEF FileIsKnown
  <2> QED
    BY <2>3, <2>4 DEF FileIsKnown
<1>24. TrackedKnown'
  <2>1. SUFFICES ASSUME NEW f \in Files, NEW r \in DOMAIN repos', accounted(f, r)'
                 PROVE  TrackedIsKnown(f, r)'
    BY DEF TrackedKnown
  <2>2. TrackedIsKnown(f, r) /\ r \in DOMAIN repos
    BY <1>1, <1>22, <2>1 DEF TrackedKnown
  <2>3. IndexIsTold(r) => IndexIsTold(r)'
    BY <1>2 DEF IndexIsTold
  <2>4. CASE f = u /\ r = j.root /\ puts
    <3>1. f \in repos'[r].ignored <=> f \notin repos[r].tracked /\ ignores(repos[r].rules, f)
      BY <1>10, <2>4 DEF isWithFiles
    <3> QED
      BY <1>2, <1>11, <2>2, <2>3, <3>1 DEF TrackedIsKnown
  <2>5. CASE ~(f = u /\ r = j.root /\ puts)
    <3>1. f \in repos'[r].ignored <=> f \in repos[r].ignored
      BY <1>9, <1>10, <2>2, <2>5 DEF isWithFiles
    <3>2. f \in repos'[r].files <=> f \in repos[r].files
      BY <1>11, <2>2, <2>5
    <3> QED
      BY <1>2, <1>11, <2>2, <2>3, <3>1, <3>2 DEF TrackedIsKnown
  <2> QED
    BY <2>4, <2>5
<1> QED
  BY <1>15, <1>16, <1>18, <1>19, <1>20, <1>21, <1>23, <1>24 DEF RepositoriesInv

\* The jobs that an event begins.
LEMMA BegunIs ==
  ASSUME DiskTypes, ReposTypes, NEW type, NEW uri \in Files \cup Dirs, NEW k \in begun(type, uri)
  PROVE  /\ matched(uri) /\ ~isStateChange(type, uri) /\ uri \notin Configs \cup IgnoreFiles \cup DOMAIN repos
         /\ k \in Jobs /\ k.uri = uri /\ k.pc \in {"lstat", "refresh"}
         /\ k.pc = "lstat" => /\ type = "Created" /\ k.root = repositoryOf(uri)
                              /\ k = job("lstat", uri, repositoryOf(uri))
                              /\ k.root \in DOMAIN repos /\ owns(DOMAIN repos, k.root, uri)
<1>1. matched(uri) /\ ~isStateChange(type, uri)
  BY DEF begun
<1>2. \/ \E r \in DOMAIN IndexOf \cap DOMAIN repos : k = job("refresh", uri, r)
      \/ type = "Created" /\ k = job("lstat", uri, repositoryOf(uri))
  BY DEF begun
<1>3. uri \notin Configs \cup IgnoreFiles \cup DOMAIN repos
  BY <1>1 DEF isStateChange
<1>4. owns(DOMAIN repos, repositoryOf(uri), uri) /\ repositoryOf(uri) \in DOMAIN repos
  BY <1>1, RepositoryOfOwns
<1>5. disk.files \subseteq Files /\ DOMAIN repos \subseteq DOMAIN ConfigOf
  BY DEF DiskTypes, ReposTypes
<1>6. ASSUME NEW r \in DOMAIN repos, NEW pc \in {"lstat", "refresh"}, k = job(pc, uri, r)
      PROVE  k \in Jobs /\ k.uri = uri /\ k.pc = pc /\ k.root = r
  BY <1>5, <1>6 DEF job, Jobs
<1> QED
  BY <1>1, <1>2, <1>3, <1>4, <1>6

LEMMA BegunHas ==
  ASSUME NEW type, NEW uri, matched(uri), ~isStateChange(type, uri)
  PROVE  /\ type = "Created" =>
              \E k \in begun(type, uri) : k.pc = "lstat" /\ k.uri = uri /\ k.root = repositoryOf(uri)
         /\ \A r \in DOMAIN IndexOf \cap DOMAIN repos : uri = IndexOf[r] =>
              \E k \in begun(type, uri) : k.pc = "refresh" /\ k.root = r
<1>1. begun(type, uri) = {job("refresh", uri, r) : r \in {q \in DOMAIN IndexOf \cap DOMAIN repos : uri = IndexOf[q]}}
         \cup (IF type = "Created" THEN {job("lstat", uri, repositoryOf(uri))} ELSE {})
  BY DEF begun
<1>2. \A pc, r : job(pc, uri, r).pc = pc /\ job(pc, uri, r).uri = uri /\ job(pc, uri, r).root = r
  BY DEF job
<1>3. ASSUME type = "Created" PROVE job("lstat", uri, repositoryOf(uri)) \in begun(type, uri)
  BY <1>1, <1>3
<1>4. ASSUME NEW r \in DOMAIN IndexOf \cap DOMAIN repos, uri = IndexOf[r]
      PROVE  job("refresh", uri, r) \in begun(type, uri)
  BY <1>1, <1>4
<1> QED
  BY <1>2, <1>3, <1>4

\* A directory was walked: each of its files begins as if it was created.
LEMMA DirectoryWalkedKeeps ==
  ASSUME RepositoriesInv, NEW j \in jobs, DirectoryWalked(j)
  PROVE  RepositoriesInv'
<1> DEFINE files == j.files \cap Below[j.uri]
           states == {f \in files : isStateChange("Created", f)}
           lost == IF Reading THEN {j.uri} ELSE {}
           w == walk("event")
           new == [i \in 1..Cardinality(states) |-> w]
<1>1. /\ DiskTypes /\ QueueTypes /\ SetsTypes /\ ReposTypes
      /\ EventsInOrder /\ SetsFollow /\ WalksKnow /\ JobsFollow
      /\ RepositoriesFollow /\ FilesKnown /\ TrackedKnown
  BY DEF RepositoriesInv
<1>2. /\ disk' = disk /\ vfs' = vfs /\ queue' = queue /\ setQueue' = setQueue /\ repos' = repos
      /\ stale' = stale \cup affected(lost) /\ sets' = missing(sets, lost) \o new
      /\ jobs' = (jobs \ {j}) \cup UNION {begun("Created", f) : f \in files} /\ j.pc = "walk"
  BY DEF DirectoryWalked, handleWorkspaceFolderStateChange
<1>3. j.uri \in Files \cup Dirs /\ j.files \subseteq Files
  BY <1>1 DEF ReposTypes, Jobs
<1>4. files \subseteq Files /\ lost \subseteq Files \cup Dirs
  BY <1>3
<1>5. /\ w \in Walks /\ w.by = "event" /\ w.stage = "walking" /\ w.holds /\ w.missed = {} /\ w.todo = {}
      /\ w.files = disk.files
  BY <1>1, WalkIs
<1>6. Cardinality(states) \in Nat /\ (Cardinality(states) = 0 <=> states = {})
  <2>1. IsFiniteSet(Files \cup Dirs) /\ states \subseteq Files \cup Dirs
    BY <1>4, UrisAreTree
  <2>2. IsFiniteSet(states)
    BY <2>1, FS_Subset
  <2> QED
    BY <2>2, FS_CardinalityType, FS_EmptySet
<1> HIDE DEF w, lost, files, states
<1>7. new \in Seq({w}) /\ (new = <<>> <=> states = {})
  <2>1. new \in [1..Cardinality(states) -> {w}]
    OBVIOUS
  <2>2. new \in Seq({w}) /\ Len(new) = Cardinality(states)
    BY <1>6, <2>1
  <2> HIDE DEF new
  <2> QED
    BY <1>6, <2>2
<1> HIDE DEF new
<1>8. /\ \A k \in jobs : k.pc # "refresh" => k = j
      /\ \A i \in DOMAIN sets : ~sets[i].holds
  BY <1>1, <1>2 DEF JobsFollow, OfDirectory
<1>9. (\A i \in DOMAIN sets : sets[i].by # "event") /\ ~AllAnew
  BY <1>1, <1>8 DEF SetsFollow, SetIsSound, AllAnew
<1>10. ASSUME NEW k \in jobs'
       PROVE  \/ k \in jobs /\ k.pc = "refresh"
              \/ \E f \in files : k \in begun("Created", f)
  BY <1>2, <1>8, <1>10
<1>11. ASSUME NEW k \in jobs', k.pc # "refresh"
       PROVE  /\ k.pc = "lstat" /\ k.uri \in files /\ k.uri \notin Configs \cup IgnoreFiles
              /\ k.root \in DOMAIN repos /\ owns(DOMAIN repos, k.root, k.uri)
  <2>1. PICK f \in files : k \in begun("Created", f)
    BY <1>10, <1>11
  <2> QED
    BY <1>1, <1>4, <1>11, <2>1, BegunIs
<1>12. jobs' \subseteq Jobs
  <2>1. ASSUME NEW f \in files, NEW k \in begun("Created", f) PROVE k \in Jobs
    BY <1>1, <1>4, <2>1, BegunIs
  <2> QED
    BY <1>1, <1>10, <2>1 DEF ReposTypes
<1>13. sets' \in Seq(Walks)
  BY <1>1, <1>2, <1>4, <1>5, <1>7, WalksFollow
<1>14. stale' \subseteq Files /\ stale \subseteq stale'
  BY <1>1, <1>2, AffectedIs DEF DiskTypes
<1>15. DiskTypes' /\ QueueTypes' /\ SetsTypes' /\ ReposTypes'
  BY <1>1, <1>2, <1>12, <1>13, <1>14 DEF DiskTypes, QueueTypes, SetsTypes, ReposTypes
<1>16. SetsFollow' /\ ToDo' = ToDo /\ AllAnew' = (AllAnew \/ new # <<>>)
  BY <1>2, <1>4, <1>5, <1>7, <1>9, SetsFollowOn
<1>17. ASSUME NEW f \in Files, NEW k
       PROVE  Told(f, k)' = Told(f, k) /\ ToldOfEnd(f, k)' = ToldOfEnd(f, k)
  BY <1>2 DEF Told, ToldOfEnd, tellsOf, tellsOfEnd
<1>18. EventsInOrder'
  BY <1>1, <1>2, <1>14 DEF EventsInOrder, Told, ToldOfEnd, tellsOf, tellsOfEnd
<1>19. WalksKnow'
  <2>1. ASSUME NEW f \in Files \ affected(lost)
        PROVE  /\ Told(f, 0) => Told(f, 0)'
               /\ ToldOfEnd(f, 0) => ToldOfEnd(f, 0)'
               /\ f \in disk'.files /\ f \notin disk.files => Told(f, 0)'
               /\ f \notin disk'.files /\ f \in disk.files => ToldOfEnd(f, 0)'
    BY <1>2, <1>17, <2>1
  <2>2. w.files = disk'.files
    BY <1>2, <1>5
  <2> QED
    BY <1>2, <1>4, <1>5, <1>7, <2>1, <2>2, WalksKnowOn
<1>20. JobsFollow'
  <2>1. ASSUME NEW k \in jobs' PROVE JobIsSound(k)'
    <3>1. CASE k.pc = "refresh"
      BY <3>1 DEF JobIsSound
    <3>2. CASE k.pc # "refresh"
      BY <1>2, <1>11, <3>2 DEF JobIsSound, owns, matching
    <3> QED
      BY <3>1, <3>2
  <2>2. \A k \in jobs' : ~OfDirectory(k)
    BY <1>4, <1>11, UrisAreTree DEF OfDirectory
  <2> QED
    BY <2>1, <2>2 DEF JobsFollow, OfDirectory
<1>21. RepositoriesFollow'
  <2>1. ASSUME NEW r \in DOMAIN repos PROVE RepositoryIsSound(r)'
    <3>1. RepositoryIsSound(r)
      BY <1>1, <2>1 DEF RepositoriesFollow
    <3> QED
      BY <1>2, <1>9, <1>14, <1>16, <3>1 DEF RepositoryIsSound, owns, matching
  <2> QED
    BY <1>2, <2>1 DEF RepositoriesFollow
<1>22. ASSUME NEW f \in Files, NEW r \in DOMAIN repos', accounted(f, r)'
       PROVE  accounted(f, r) /\ r \in DOMAIN repos
  BY <1>2, <1>14, <1>16, <1>22 DEF accounted, owns, matching
<1>23. FilesKnown'
  <2>1. SUFFICES ASSUME NEW f \in Files, NEW r \in DOMAIN repos', accounted(f, r)', ~AllAnew'
                 PROVE  FileIsKnown(f, r)'
    BY DEF FilesKnown
  <2>2. FileIsKnown(f, r) /\ accounted(f, r) /\ states = {}
    BY <1>1, <1>7, <1>9, <1>16, <1>22, <2>1 DEF FilesKnown
  <2>3. ASSUME JobAdds(f, r) PROVE JobAdds(f, r)'
    <3>1. f \in files
      BY <1>2, <1>8, <2>3 DEF JobAdds, files
    <3>2. ~isStateChange("Created", f)
      BY <2>2, <3>1 DEF states
    <3>3. matched(f) /\ r = repositoryOf(f)
      BY <1>1, <2>2, RepositoryOfOwns DEF accounted
    <3>4. PICK k \in begun("Created", f) : k.pc = "lstat" /\ k.uri = f /\ k.root = r
      BY <3>2, <3>3, BegunHas
    <3>5. k \in jobs'
      BY <1>2, <3>1, <3>4
    <3> QED
      BY <3>4, <3>5 DEF JobAdds
  <2> QED
    BY <1>2, <1>17, <2>2, <2>3 DEF FileIsKnown
<1>24. TrackedKnown'
  <2>1. SUFFICES ASSUME NEW f \in Files, NEW r \in DOMAIN repos', accounted(f, r)'
                 PROVE  TrackedIsKnown(f, r)'
    BY DEF TrackedKnown
  <2>2. TrackedIsKnown(f, r)
    BY <1>1, <1>22, <2>1 DEF TrackedKnown
  <2>3. IndexIsTold(r) => IndexIsTold(r)'
    BY <1>2 DEF IndexIsTold
  <2> QED
    BY <1>2, <2>2, <2>3 DEF TrackedIsKnown
<1> QED
  BY <1>15, <1>16, <1>18, <1>19, <1>20, <1>21, <1>23, <1>24 DEF RepositoriesInv

-----------------------------------------------------------------------------
\* An event is taken from the queue: the others move up.
LEMMA EventsMoveUp ==
  ASSUME QueueTypes, queue.events # <<>>, queue' = [queue EXCEPT !.events = Tail(@)]
  PROVE  /\ QueueTypes'
         /\ 1 \in DOMAIN queue.events /\ Head(queue.events) = queue.events[1]
         /\ Head(queue.events) \in Events
         /\ Head(queue.events).type = "Changed" => Head(queue.events).uri \in Files
         /\ DOMAIN queue.events \subseteq Nat \ {0} /\ DOMAIN queue'.events \subseteq Nat \ {0}
         /\ \A m \in DOMAIN queue'.events :
              m + 1 \in DOMAIN queue.events /\ queue'.events[m] = queue.events[m + 1]
         /\ \A m \in DOMAIN queue.events : m > 1 =>
              m - 1 \in DOMAIN queue'.events /\ queue'.events[m - 1] = queue.events[m]
<1> DEFINE old == queue.events
           new == Tail(old)
<1>1. old \in Seq(Events) /\ old # <<>> /\ Len(old) \in Nat \ {0} /\ DOMAIN old = 1..Len(old)
  BY DEF QueueTypes
<1>2. Head(old) = old[1] /\ 1 \in DOMAIN old /\ old[1] \in Events
  BY <1>1
<1>3. new \in Seq(Events) /\ DOMAIN new = 1..(Len(old) - 1) /\ \A m \in 1..(Len(old) - 1) : new[m] = old[m + 1]
  BY <1>1
<1>4. queue'.events = new /\ queue' \in [events : {new}, paused : BOOLEAN]
  BY DEF QueueTypes
<1>5. \A m \in DOMAIN old : old[m].type = "Changed" => old[m].uri \in Files
  BY DEF QueueTypes
<1> HIDE DEF old, new
<1>6. \A m \in DOMAIN new : m + 1 \in DOMAIN old /\ new[m] = old[m + 1]
  BY <1>1, <1>3
<1>7. \A m \in DOMAIN old : m > 1 => m - 1 \in DOMAIN new /\ new[m - 1] = old[m]
  BY <1>1, <1>3
<1>8. \A m \in DOMAIN new : new[m].type = "Changed" => new[m].uri \in Files
  BY <1>5, <1>6
<1>9. QueueTypes'
  BY <1>3, <1>4, <1>8 DEF QueueTypes
<1>10. DOMAIN old \subseteq Nat \ {0} /\ DOMAIN new \subseteq Nat \ {0}
  BY <1>1, <1>3
<1> QED
  BY <1>2, <1>4, <1>5, <1>6, <1>7, <1>9, <1>10 DEF old

\* What an event changes of a repository that is not set anew.
isUpdated(r, type, uri) ==
  /\ matched(uri) /\ r = repositoryOf(uri) /\ uri \notin Configs \cup IgnoreFiles \cup DOMAIN repos
  /\ \/ type = "Changed" /\ isWithFiles(repos'[r], repos[r], r, {uri})
     \/ /\ type = "Deleted" /\ uri \in repos[r].dirs
        /\ repos'[r].files = repos[r].files \ (Below[uri] \cup SamePrefix[uri] \cup {uri})
        /\ repos'[r].dirs = repos[r].dirs \ (Below[uri] \cup SamePrefix[uri] \cup {uri})
        /\ repos'[r].ignored = repos[r].ignored
     \/ /\ type = "Deleted" /\ uri \notin repos[r].dirs
        /\ repos'[r].files = repos[r].files \ {uri} /\ repos'[r].dirs = repos[r].dirs
        /\ repos'[r].ignored = repos[r].ignored

LEMMA UpdatedIs ==
  ASSUME ReposTypes, NEW type \in {"Created", "Changed", "Deleted"}, NEW uri \in Files \cup Dirs,
         type = "Changed" => uri \in Files, repos' = updated(type, uri)
  PROVE  /\ DOMAIN repos' = DOMAIN repos
         /\ \A r \in DOMAIN repos :
              /\ repos'[r] \in RepositoryRecords
              /\ repos'[r].rules = repos[r].rules /\ repos'[r].tracked = repos[r].tracked
              /\ repos'[r] = repos[r] \/ isUpdated(r, type, uri)
         /\ matched(uri) /\ uri \notin Configs \cup IgnoreFiles \cup DOMAIN repos /\ type # "Created" =>
              isUpdated(repositoryOf(uri), type, uri)
<1> DEFINE keeps == ~matched(uri) \/ uri \in Configs \cup IgnoreFiles \cup DOMAIN repos \/ type = "Created"
           R == repositoryOf(uri)
           old == repos[R]
           new == IF type = "Changed" THEN setFiles(old, R, {uri})
                  ELSE IF uri \in old.dirs THEN removeFilesUnderDirectory(old, uri)
                  ELSE removeFile(old, uri)
<1>1. CASE keeps
  BY <1>1 DEF updated, ReposTypes
<1>2. CASE ~keeps
  <2>1. repos' = [repos EXCEPT ![R] = new]
    BY <1>2 DEF updated
  <2>2. R \in DOMAIN repos /\ old \in RepositoryRecords
    BY <1>2, RepositoryOfOwns DEF ReposTypes
  <2> HIDE DEF keeps, R, new
  <2>3. /\ DOMAIN repos' = DOMAIN repos /\ repos'[R] = new
        /\ \A r \in DOMAIN repos : r # R => repos'[r] = repos[r]
    BY <2>1, <2>2
  <2>4. matched(uri) /\ uri \notin Configs \cup IgnoreFiles \cup DOMAIN repos /\ type # "Created"
    BY <1>2 DEF keeps
  <2>5. /\ new \in RepositoryRecords /\ new.rules = old.rules /\ new.tracked = old.tracked
        /\ isUpdated(R, type, uri)
    <3>1. CASE type = "Changed"
      <4>1. {uri} \subseteq Files
        BY <3>1
      <4>2. isWithFiles(new, old, R, {uri})
        BY <2>2, <3>1, <4>1, SetFilesIs DEF new
      <4>3. isUpdated(R, type, uri)
        BY <2>3, <2>4, <3>1, <4>2 DEF isUpdated, R
      <4> QED
        BY <4>2, <4>3 DEF isWithFiles
    <3>2. CASE type = "Deleted" /\ uri \in old.dirs
      <4>1. new = removeFilesUnderDirectory(old, uri)
        BY <3>2 DEF new
      <4>2. /\ new \in RepositoryRecords /\ new.rules = old.rules /\ new.tracked = old.tracked
            /\ new.ignored = old.ignored
            /\ new.files = old.files \ (Below[uri] \cup SamePrefix[uri] \cup {uri})
            /\ new.dirs = old.dirs \ (Below[uri] \cup SamePrefix[uri] \cup {uri})
        BY <2>2, <4>1, RemoveFileIs
      <4> QED
        BY <2>3, <2>4, <3>2, <4>2 DEF isUpdated, R
    <3>3. CASE type = "Deleted" /\ uri \notin old.dirs
      <4>1. new = removeFile(old, uri)
        BY <3>3 DEF new
      <4>2. /\ new \in RepositoryRecords /\ new.rules = old.rules /\ new.tracked = old.tracked
            /\ new.ignored = old.ignored /\ new.files = old.files \ {uri} /\ new.dirs = old.dirs
        BY <2>2, <4>1, RemoveFileIs
      <4> QED
        BY <2>3, <2>4, <3>3, <4>2 DEF isUpdated, R
    <3> QED
      BY <2>4, <3>1, <3>2, <3>3
  <2> QED
    BY <2>3, <2>5 DEF R, ReposTypes
<1> QED
  BY <1>1, <1>2

\* The files that the event of a directory is mistaken about.
LEMMA MistakenIs ==
  ASSUME ReposTypes, NEW type, NEW uri \in Files \cup Dirs
  PROVE  /\ mistaken(type, uri) \subseteq Files \cup Dirs
         /\ uri \in Dirs /\ ~matched(uri) /\ DOMAIN repos \cap Below[uri] # {} => uri \in mistaken(type, uri)
         /\ uri \in Dirs /\ matched(uri) /\ type = "Deleted" =>
              /\ \A r \in DOMAIN repos \cap Below[uri] : repos[r].files \subseteq mistaken(type, uri)
              /\ knownDirectory(uri) =>
                   repos[repositoryOf(uri)].files \cap SamePrefix[uri] \subseteq mistaken(type, uri)
<1>1. \A r \in DOMAIN repos : repos[r].files \subseteq Files
  BY DEF ReposTypes, RepositoryRecords
<1>2. matched(uri) => repositoryOf(uri) \in DOMAIN repos
  BY RepositoryOfOwns
<1> QED
  BY <1>1, <1>2 DEF mistaken, swept


\* An event is taken: it says what is missed, and which walk begins.
takes(e, w, lost, new) ==
  /\ e = Head(queue.events) /\ w = walk("event")
  /\ lost = mistaken(e.type, e.uri) \cup (IF Reading THEN {e.uri} ELSE {})
  /\ new = IF isStateChange(e.type, e.uri) THEN <<w>> ELSE <<>>

\* No set is at work for another event then, and a set for the folder is told of it.
LEMMA EventIsTaken ==
  ASSUME RepositoriesInv, TakeEvent, NEW e, NEW w, NEW lost, NEW new, takes(e, w, lost, new)
  PROVE  /\ disk' = disk /\ vfs' = vfs /\ setQueue' = setQueue
         /\ repos' = updated(e.type, e.uri) /\ jobs' = jobs \cup begun(e.type, e.uri)
         /\ stale' = stale \cup affected(lost) /\ sets' = missing(sets, lost) \o new
         /\ queue.events # <<>> /\ queue' = [queue EXCEPT !.events = Tail(@)]
         /\ e \in Events /\ (e.type = "Changed" => e.uri \in Files) /\ e = queue.events[1]
         /\ 1 \in DOMAIN queue.events
         /\ lost \subseteq Files \cup Dirs /\ mistaken(e.type, e.uri) \subseteq lost
         /\ new \in Seq({w}) /\ (new = <<>> <=> ~isStateChange(e.type, e.uri))
         /\ (\A k \in jobs : k.pc = "refresh") /\ (\A i \in DOMAIN sets : ~sets[i].holds)
         /\ (\A i \in DOMAIN sets : sets[i].by # "event") /\ ~AllAnew
         /\ DOMAIN sets # {} => e.uri \in lost
         /\ stale' \subseteq Files /\ stale \subseteq stale' /\ affected(lost) \subseteq stale'
         /\ lost \cap Files \subseteq stale'
         /\ \A r \in ToDo : e.uri \in lost
<1>1. DiskTypes /\ QueueTypes /\ SetsTypes /\ ReposTypes /\ SetsFollow
  BY DEF RepositoriesInv
<1>2. /\ ~AtWork /\ queue.events # <<>> /\ queue' = [queue EXCEPT !.events = Tail(@)]
      /\ disk' = disk /\ vfs' = vfs /\ setQueue' = setQueue
      /\ repos' = updated(e.type, e.uri) /\ jobs' = jobs \cup begun(e.type, e.uri)
      /\ stale' = stale \cup affected(lost) /\ sets' = missing(sets, lost) \o new
  BY DEF TakeEvent, handleWorkspaceFolderStateChange, takes
<1>3. /\ e \in Events /\ (e.type = "Changed" => e.uri \in Files) /\ e = queue.events[1]
      /\ 1 \in DOMAIN queue.events
  BY <1>1, <1>2, EventsMoveUp DEF takes
<1>4. e.uri \in Files \cup Dirs /\ mistaken(e.type, e.uri) \subseteq Files \cup Dirs
  BY <1>1, <1>3, MistakenIs DEF Events
<1>5. lost \subseteq Files \cup Dirs /\ mistaken(e.type, e.uri) \subseteq lost /\ (Reading => e.uri \in lost)
  BY <1>4 DEF takes
<1>6. new \in Seq({w}) /\ (new = <<>> <=> ~isStateChange(e.type, e.uri))
  <2>1. <<w>> \in Seq({w}) /\ <<>> \in Seq({w}) /\ <<w>> # <<>>
    OBVIOUS
  <2> QED
    BY <2>1 DEF takes
<1>7. (\A k \in jobs : k.pc = "refresh") /\ (\A i \in DOMAIN sets : ~sets[i].holds)
  BY <1>2 DEF AtWork
<1>8. \A i \in DOMAIN sets : sets[i].by # "event"
  BY <1>1, <1>7 DEF SetsFollow, SetIsSound
<1>9. ~AllAnew
  BY <1>8 DEF AllAnew
<1>10. DOMAIN sets # {} => Reading
  <2>1. SUFFICES ASSUME NEW i \in DOMAIN sets PROVE Reading
    OBVIOUS
  <2>2. sets[i] \in Walks
    BY <1>1 DEF SetsTypes
  <2>3. sets[i].by = "vfs"
    BY <1>8, <2>2 DEF Walks
  <2> QED
    BY <2>3 DEF Reading
<1>11. \A r \in ToDo : DOMAIN sets # {}
  BY DEF ToDo
<1>12. /\ affected(lost) \subseteq Files /\ lost \cap Files \subseteq affected(lost)
       /\ stale \subseteq Files
  BY <1>1, AffectedIs DEF DiskTypes
<1> QED
  BY <1>2, <1>3, <1>5, <1>6, <1>7, <1>8, <1>9, <1>10, <1>11, <1>12

\* The events that are left tell what they told, and the one that was taken what
\* it told first.
LEMMA TellingMovesUp ==
  ASSUME QueueTypes, queue.events # <<>>, queue' = [queue EXCEPT !.events = Tail(@)],
         NEW e, e = Head(queue.events), NEW f
  PROVE  /\ \A k \in Nat : Told(f, k + 1) => Told(f, k)'
         /\ \A k \in Nat : ToldOfEnd(f, k + 1) => ToldOfEnd(f, k)'
         /\ Told(f, 0) => tellsOf(e, f) \/ Told(f, 0)'
         /\ ToldOfEnd(f, 0) => tellsOfEnd(e, f) \/ ToldOfEnd(f, 0)'
         /\ (Told(f, 1) => Told(f, 0)') /\ (ToldOfEnd(f, 1) => ToldOfEnd(f, 0)')
<1> DEFINE told(k) == \E m \in DOMAIN queue'.events : m > k /\ tellsOf(queue'.events[m], f)
           toldOfEnd(k) == \E m \in DOMAIN queue'.events : m > k /\ tellsOfEnd(queue'.events[m], f)
<1>1. /\ queue.events[1] = e /\ DOMAIN queue.events \subseteq Nat \ {0}
      /\ \A m \in DOMAIN queue.events : m > 1 =>
           m - 1 \in DOMAIN queue'.events /\ queue'.events[m - 1] = queue.events[m]
  BY EventsMoveUp
<1>2. ASSUME NEW k \in Nat PROVE (told(k) <=> Told(f, k)') /\ (toldOfEnd(k) <=> ToldOfEnd(f, k)')
  BY DEF Told, ToldOfEnd, tellsOf, tellsOfEnd
<1>3. told(0) <=> Told(f, 0)'
  BY DEF Told, tellsOf
<1>4. toldOfEnd(0) <=> ToldOfEnd(f, 0)'
  BY DEF ToldOfEnd, tellsOfEnd
<1>5. ASSUME NEW k \in Nat, Told(f, k + 1) PROVE told(k)
  <2>1. PICK m \in DOMAIN queue.events : m > k + 1 /\ tellsOf(queue.events[m], f)
    BY <1>5 DEF Told
  <2>2. m \in Nat /\ m > 1 /\ m - 1 > k
    BY <1>1, <2>1
  <2> QED
    BY <1>1, <2>1, <2>2
<1>6. ASSUME NEW k \in Nat, ToldOfEnd(f, k + 1) PROVE toldOfEnd(k)
  <2>1. PICK m \in DOMAIN queue.events : m > k + 1 /\ tellsOfEnd(queue.events[m], f)
    BY <1>6 DEF ToldOfEnd
  <2>2. m \in Nat /\ m > 1 /\ m - 1 > k
    BY <1>1, <2>1
  <2> QED
    BY <1>1, <2>1, <2>2
<1>7. ASSUME Told(f, 0), ~tellsOf(e, f) PROVE told(0)
  <2>1. PICK m \in DOMAIN queue.events : m > 0 /\ tellsOf(queue.events[m], f)
    BY <1>7 DEF Told
  <2>2. m \in Nat /\ m # 1 /\ m > 1 /\ m - 1 > 0
    BY <1>1, <1>7, <2>1
  <2> QED
    BY <1>1, <2>1, <2>2
<1>8. ASSUME ToldOfEnd(f, 0), ~tellsOfEnd(e, f) PROVE toldOfEnd(0)
  <2>1. PICK m \in DOMAIN queue.events : m > 0 /\ tellsOfEnd(queue.events[m], f)
    BY <1>8 DEF ToldOfEnd
  <2>2. m \in Nat /\ m # 1 /\ m > 1 /\ m - 1 > 0
    BY <1>1, <1>8, <2>1
  <2> QED
    BY <1>1, <2>1, <2>2
<1>9. (Told(f, 1) => told(0)) /\ (ToldOfEnd(f, 1) => toldOfEnd(0))
  <2>1. 0 + 1 = 1 /\ 0 \in Nat
    OBVIOUS
  <2> QED
    BY <1>5, <1>6, <2>1
<1> HIDE DEF told, toldOfEnd
<1> QED
  BY <1>2, <1>3, <1>4, <1>5, <1>6, <1>7, <1>8, <1>9

\* A repository still has files of its own, with their directories.
LEMMA TakenEventKeepsRepositories ==
  ASSUME RepositoriesInv, TakeEvent, NEW e, NEW w, NEW lost, NEW new, takes(e, w, lost, new),
         ToDo' = ToDo, AllAnew' = (AllAnew \/ new # <<>>)
  PROVE  RepositoriesFollow'
<1>1. ReposTypes /\ RepositoriesFollow
  BY DEF RepositoriesInv
<1>2. /\ repos' = updated(e.type, e.uri) /\ e \in Events /\ (e.type = "Changed" => e.uri \in Files)
      /\ (new = <<>> <=> ~isStateChange(e.type, e.uri))
      /\ ~AllAnew /\ stale \subseteq stale' /\ lost \cap Files \subseteq stale'
      /\ \A r \in ToDo : e.uri \in lost
  BY EventIsTaken
<1>3. e.type \in {"Created", "Changed", "Deleted"} /\ e.uri \in Files \cup Dirs
  BY <1>2 DEF Events
<1>4. /\ DOMAIN repos' = DOMAIN repos
      /\ \A r \in DOMAIN repos :
           /\ repos'[r] \in RepositoryRecords
           /\ repos'[r].rules = repos[r].rules
           /\ repos'[r] = repos[r] \/ isUpdated(r, e.type, e.uri)
  BY <1>1, <1>2, <1>3, UpdatedIs
<1>5. ASSUME NEW r \in DOMAIN repos PROVE RepositoryIsSound(r)'
  <2> DEFINE under == Below[e.uri] \cup SamePrefix[e.uri] \cup {e.uri}
  <2>1. /\ \A f \in repos[r].files : owns(DOMAIN repos, r, f)
        /\ \A f \in repos[r].files, d \in Dirs \cap Below[r] : f \in Below[d] => d \in repos[r].dirs
        /\ r \in ToDo => repos[r].files \subseteq stale \ IgnoreFiles
        /\ repos[r].rules = repos[r].files \cap IgnoreFiles
    BY <1>1, <1>2 DEF RepositoriesFollow, RepositoryIsSound
  <2>2. repos[r].files \subseteq Files /\ repos[r].dirs \subseteq Dirs
    BY <1>1 DEF ReposTypes, RepositoryRecords
  <2>3. SUFFICES /\ \A f \in repos'[r].files : owns(DOMAIN repos, r, f)
                 /\ \A f \in repos'[r].files, d \in Dirs \cap Below[r] :
                      f \in Below[d] => d \in repos'[r].dirs
                 /\ r \in ToDo => repos'[r].files \subseteq stale' \ IgnoreFiles
                 /\ repos'[r].files \cap IgnoreFiles = repos[r].files \cap IgnoreFiles \/ AllAnew'
    BY <1>4, <2>1 DEF RepositoryIsSound, owns, matching
  <2>4. CASE repos'[r] = repos[r]
    BY <1>2, <2>1, <2>4
  <2>5. ASSUME isUpdated(r, e.type, e.uri)
        PROVE  r = repositoryOf(e.uri) /\ matched(e.uri)
               /\ e.uri \notin Configs \cup IgnoreFiles \cup DOMAIN repos
    BY <2>5 DEF isUpdated
  <2>6. CASE isUpdated(r, e.type, e.uri) /\ e.type = "Changed"
    <3>1. isWithFiles(repos'[r], repos[r], r, {e.uri}) /\ e.uri \in Files
      BY <1>2, <2>6 DEF isUpdated
    <3>2. /\ repos'[r].files = repos[r].files \cup {e.uri}
          /\ \A d \in repos[r].dirs : d \in repos'[r].dirs
          /\ \A d \in Dirs \cap Below[r] : e.uri \in Below[d] => d \in repos'[r].dirs
      BY <3>1 DEF isWithFiles
    <3>3. owns(DOMAIN repos, r, e.uri)
      BY <1>1, <1>3, <2>5, <2>6, RepositoryOfOwns
    <3>4. r \in ToDo => e.uri \in stale'
      BY <1>2, <3>1
    <3> QED
      BY <1>2, <2>1, <2>5, <2>6, <3>2, <3>3, <3>4
  <2>7. CASE isUpdated(r, e.type, e.uri) /\ e.type = "Deleted" /\ e.uri \in repos[r].dirs
    <3>1. repos'[r].files = repos[r].files \ under /\ repos'[r].dirs = repos[r].dirs \ under
      BY <2>7 DEF isUpdated
    <3>2. e.uri \in Dirs
      BY <2>2, <2>7
    <3>3. ASSUME NEW f \in repos'[r].files, NEW d \in Dirs \cap Below[r], f \in Below[d]
          PROVE  d \in repos'[r].dirs
      <4>1. d \in repos[r].dirs /\ f \notin under
        BY <2>1, <3>1, <3>3
      <4>2. d \notin under
        <5>1. d \in Below[e.uri] => Below[d] \subseteq Below[e.uri]
          BY <3>2, UrisAreTree
        <5>2. d \in SamePrefix[e.uri] => Below[d] \subseteq SamePrefix[e.uri]
          BY <3>2, UrisAreTree
        <5> QED
          BY <3>3, <4>1, <5>1, <5>2
      <4> QED
        BY <3>1, <4>1, <4>2
    <3>4. repos'[r].files \cap IgnoreFiles # repos[r].files \cap IgnoreFiles => AllAnew'
      <4>1. SUFFICES ASSUME NEW g \in repos[r].files \cap IgnoreFiles, g \in under
                     PROVE  isStateChange(e.type, e.uri)
        BY <1>2, <3>1
      <4>2. g # e.uri
        BY <2>5, <2>7, <4>1
      <4>3. g \in swept(e.uri) /\ knownDirectory(e.uri)
        BY <2>5, <2>7, <4>1, <4>2 DEF swept, knownDirectory
      <4> QED
        BY <2>5, <2>7, <4>1, <4>3 DEF isStateChange
    <3> QED
      BY <1>2, <2>1, <3>1, <3>3, <3>4
  <2>8. CASE isUpdated(r, e.type, e.uri) /\ e.type = "Deleted" /\ e.uri \notin repos[r].dirs
    <3>1. repos'[r].files = repos[r].files \ {e.uri} /\ repos'[r].dirs = repos[r].dirs
      BY <2>8 DEF isUpdated
    <3> QED
      BY <1>2, <2>1, <2>5, <2>8, <3>1
  <2>9. isUpdated(r, e.type, e.uri) => e.type \in {"Changed", "Deleted"}
    BY DEF isUpdated
  <2> QED
    BY <1>4, <2>4, <2>6, <2>7, <2>8, <2>9
<1> QED
  BY <1>4, <1>5 DEF RepositoriesFollow

\* Whatever a repository lacks, the event that was taken added or began to add;
\* whatever it has too many, the event removed.
LEMMA TakenEventIsKnown ==
  ASSUME RepositoriesInv, TakeEvent, NEW e, NEW w, NEW lost, NEW new, takes(e, w, lost, new),
         ~isStateChange(e.type, e.uri), NEW f \in Files \ stale', NEW r \in DOMAIN repos,
         owns(DOMAIN repos, r, f)
  PROVE  /\ tellsOf(e, f) => f \in repos'[r].files \/ JobAdds(f, r)'
         /\ tellsOfEnd(e, f) => f \notin repos'[r].files
         /\ f \in repos[r].files /\ f \notin repos'[r].files => tellsOfEnd(e, f)
         /\ f \notin repos[r].files /\ f \in repos'[r].files => e.uri = f /\ e.type = "Changed"
<1> DEFINE R == repositoryOf(e.uri)
<1>1. ReposTypes /\ RepositoriesFollow
  BY DEF RepositoriesInv
<1>2. /\ repos' = updated(e.type, e.uri) /\ jobs' = jobs \cup begun(e.type, e.uri)
      /\ e \in Events /\ (e.type = "Changed" => e.uri \in Files)
      /\ ~AllAnew /\ stale \subseteq stale' /\ lost \cap Files \subseteq stale'
      /\ affected(lost) \subseteq stale' /\ mistaken(e.type, e.uri) \subseteq lost
  BY EventIsTaken
<1>3. e.type \in {"Created", "Changed", "Deleted"} /\ e.uri \in Files \cup Dirs
  BY <1>2 DEF Events
<1> HIDE DEF R
<1>4. /\ \A q \in DOMAIN repos : repos'[q] = repos[q] \/ isUpdated(q, e.type, e.uri)
      /\ matched(e.uri) /\ e.uri \notin Configs \cup IgnoreFiles \cup DOMAIN repos /\ e.type # "Created" =>
              isUpdated(R, e.type, e.uri)
  BY <1>1, <1>2, <1>3, UpdatedIs DEF R
<1>5. matched(e.uri) => e.uri \notin Configs \cup IgnoreFiles \cup DOMAIN repos
  BY DEF isStateChange
<1>6. /\ matched(e.uri) => owns(DOMAIN repos, R, e.uri) /\ R \in DOMAIN repos
      /\ \A q : owns(DOMAIN repos, q, e.uri) => matched(e.uri) /\ q = R
  BY <1>1, <1>3, RepositoryOfOwns DEF R
<1>7. /\ repos[r].files \subseteq Files /\ repos[r].dirs \subseteq Dirs
      /\ \A g \in repos[r].files, d \in Dirs \cap Below[r] : g \in Below[d] => d \in repos[r].dirs
  BY <1>1 DEF ReposTypes, RepositoryRecords, RepositoriesFollow, RepositoryIsSound
<1>8. Files \cap Dirs = {} /\ DOMAIN repos \subseteq Dirs
  BY <1>1, UrisAreTree, GitFilesAreFiles DEF ReposTypes
\* A directory outside every repository has none in it that is above the file.
<1>9. ASSUME e.uri \in Dirs, f \in Below[e.uri]
      PROVE  /\ matched(e.uri) /\ e.uri \notin DOMAIN repos
             /\ e.type = "Deleted" /\ f \in repos[r].files => r = R /\ e.uri \in repos[r].dirs
  <2>1. r = e.uri \/ r \in Below[e.uri] \/ (e.uri \in Below[r] /\ owns(DOMAIN repos, r, e.uri))
    BY <1>8, <1>9, OwnersAreNested
  <2>2. /\ ~matched(e.uri) /\ DOMAIN repos \cap Below[e.uri] # {} => e.uri \in mistaken(e.type, e.uri)
        /\ matched(e.uri) /\ e.type = "Deleted" =>
             \A q \in DOMAIN repos \cap Below[e.uri] : repos[q].files \subseteq mistaken(e.type, e.uri)
    BY <1>1, <1>3, <1>9, MistakenIs
  <2>3. matched(e.uri)
    <3>1. ASSUME ~matched(e.uri) PROVE FALSE
      <4>1. r # e.uri
        BY <3>1 DEF matched, matching
      <4>2. r \in Below[e.uri]
        BY <1>6, <2>1, <3>1, <4>1
      <4>3. e.uri \in lost
        BY <1>2, <2>2, <3>1, <4>2
      <4>4. f \in affected(lost)
        BY <1>9, <4>3, AffectedIs
      <4> QED
        BY <1>2, <4>4
    <3> QED
      BY <3>1
  <2>4. ASSUME e.type = "Deleted", f \in repos[r].files PROVE r = R /\ e.uri \in repos[r].dirs
    <3>1. r \notin Below[e.uri]
      BY <1>2, <2>2, <2>3, <2>4
    <3>2. e.uri \in Below[r] /\ owns(DOMAIN repos, r, e.uri)
      BY <1>5, <2>1, <2>3, <3>1
    <3> QED
      BY <1>6, <1>7, <1>9, <2>4, <3>2
  <2> QED
    BY <1>5, <2>3, <2>4
<1>10. ASSUME e.uri = f PROVE matched(e.uri) /\ r = R
  BY <1>6, <1>10
<1>11. ASSUME tellsOf(e, f) PROVE f \in repos'[r].files \/ JobAdds(f, r)'
  <2>1. CASE e.uri = f /\ e.type = "Changed"
    <3>1. isUpdated(r, e.type, e.uri)
      BY <1>4, <1>5, <1>10, <2>1
    <3>2. isWithFiles(repos'[r], repos[r], r, {e.uri})
      BY <2>1, <3>1 DEF isUpdated
    <3> QED
      BY <2>1, <3>2 DEF isWithFiles
  <2>2. CASE e.type = "Created"
    <3>1. matched(e.uri)
      BY <1>9, <1>10, <1>11, <2>2 DEF tellsOf
    <3>2. PICK k \in begun(e.type, e.uri) : k.pc = "lstat" /\ k.uri = e.uri /\ k.root = R
      BY <2>2, <3>1, BegunHas DEF R
    <3>3. k \in jobs'
      BY <1>2, <3>2
    <3>4. (e.uri = f /\ R = r) \/ (e.uri \in Dirs /\ f \in Below[e.uri])
      BY <1>10, <1>11, <2>2 DEF tellsOf
    <3> QED
      BY <3>2, <3>3, <3>4 DEF JobAdds
  <2> QED
    BY <1>11, <2>1, <2>2 DEF tellsOf
<1>12. ASSUME tellsOfEnd(e, f), f \in repos[r].files PROVE f \notin repos'[r].files
  <2>1. e.type = "Deleted" /\ (e.uri = f \/ (e.uri \in Dirs /\ f \in Below[e.uri]))
    BY <1>12 DEF tellsOfEnd
  <2>2. matched(e.uri) /\ r = R
    BY <1>9, <1>10, <1>12, <2>1
  <2>3. isUpdated(r, e.type, e.uri)
    BY <1>4, <1>5, <2>1, <2>2
  <2>4. e.uri = f \/ (e.uri \in repos[r].dirs /\ f \in Below[e.uri])
    BY <1>9, <1>12, <2>1
  <2> QED
    BY <2>1, <2>3, <2>4 DEF isUpdated
<1>13. ASSUME f \in repos[r].files, f \notin repos'[r].files PROVE tellsOfEnd(e, f)
  <2>1. isUpdated(r, e.type, e.uri)
    BY <1>4, <1>13
  <2>2. e.type = "Deleted"
    BY <1>13, <2>1 DEF isUpdated, isWithFiles
  <2>3. e.uri = f \/ (e.uri \in repos[r].dirs /\ f \in Below[e.uri] \cup SamePrefix[e.uri])
    BY <1>13, <2>1, <2>2 DEF isUpdated
  <2>4. ASSUME e.uri \in repos[r].dirs, f \in SamePrefix[e.uri] PROVE FALSE
    <3>1. e.uri \in Dirs /\ matched(e.uri) /\ r = R
      BY <1>7, <2>1, <2>4 DEF isUpdated, R
    <3>2. f \in mistaken(e.type, e.uri)
      BY <1>1, <1>3, <1>13, <2>2, <2>4, <3>1, MistakenIs DEF knownDirectory, R
    <3> QED
      BY <1>2, <3>2
  <2> QED
    BY <1>7, <2>2, <2>3, <2>4 DEF tellsOfEnd
<1>14. ASSUME f \notin repos[r].files, f \in repos'[r].files PROVE e.uri = f /\ e.type = "Changed"
  <2>1. isUpdated(r, e.type, e.uri)
    BY <1>4, <1>14
  <2> QED
    BY <1>14, <2>1 DEF isUpdated, isWithFiles
<1>15. ASSUME tellsOfEnd(e, f) PROVE f \notin repos'[r].files
  BY <1>12, <1>14, <1>15 DEF tellsOfEnd
<1> QED
  BY <1>11, <1>13, <1>14, <1>15

\* An event is taken, and handled up to its first await.
LEMMA TakeEventKeeps ==
  ASSUME RepositoriesInv, TakeEvent
  PROVE  RepositoriesInv'
<1>1. /\ DiskTypes /\ QueueTypes /\ SetsTypes /\ ReposTypes
      /\ EventsInOrder /\ SetsFollow /\ WalksKnow /\ JobsFollow
      /\ RepositoriesFollow /\ FilesKnown /\ TrackedKnown
  BY DEF RepositoriesInv
<1>2. PICK e, w, lost, new : takes(e, w, lost, new)
  BY DEF takes
<1>3. /\ disk' = disk /\ vfs' = vfs /\ setQueue' = setQueue
      /\ repos' = updated(e.type, e.uri) /\ jobs' = jobs \cup begun(e.type, e.uri)
      /\ stale' = stale \cup affected(lost) /\ sets' = missing(sets, lost) \o new
      /\ queue.events # <<>> /\ queue' = [queue EXCEPT !.events = Tail(@)]
      /\ e \in Events /\ (e.type = "Changed" => e.uri \in Files) /\ e = queue.events[1]
      /\ 1 \in DOMAIN queue.events
      /\ lost \subseteq Files \cup Dirs
      /\ new \in Seq({w}) /\ (new = <<>> <=> ~isStateChange(e.type, e.uri))
  BY <1>2, EventIsTaken
<1>4. /\ (\A k \in jobs : k.pc = "refresh") /\ (\A i \in DOMAIN sets : ~sets[i].holds)
      /\ (\A i \in DOMAIN sets : sets[i].by # "event") /\ ~AllAnew
      /\ DOMAIN sets # {} => e.uri \in lost
      /\ stale' \subseteq Files /\ stale \subseteq stale'
  BY <1>2, EventIsTaken
<1>5. e.type \in {"Created", "Changed", "Deleted"} /\ e.uri \in Files \cup Dirs
  BY <1>3 DEF Events
<1>6. /\ w \in Walks /\ w.by = "event" /\ w.stage = "walking" /\ w.holds /\ w.missed = {} /\ w.todo = {}
      /\ w.files = disk'.files
  BY <1>1, <1>2, <1>3, WalkIs DEF takes
<1>7. /\ QueueTypes' /\ DOMAIN queue.events \subseteq Nat \ {0} /\ DOMAIN queue'.events \subseteq Nat \ {0}
      /\ \A m \in DOMAIN queue'.events :
           m + 1 \in DOMAIN queue.events /\ queue'.events[m] = queue.events[m + 1]
      /\ \A m \in DOMAIN queue.events : m > 1 =>
           m - 1 \in DOMAIN queue'.events /\ queue'.events[m - 1] = queue.events[m]
  BY <1>1, <1>3, EventsMoveUp
<1>8. e = Head(queue.events)
  BY <1>2 DEF takes
<1>9. ASSUME NEW f
      PROVE  /\ \A k \in Nat : Told(f, k + 1) => Told(f, k)'
             /\ \A k \in Nat : ToldOfEnd(f, k + 1) => ToldOfEnd(f, k)'
             /\ Told(f, 0) => tellsOf(e, f) \/ Told(f, 0)'
             /\ ToldOfEnd(f, 0) => tellsOfEnd(e, f) \/ ToldOfEnd(f, 0)'
             /\ (Told(f, 1) => Told(f, 0)') /\ (ToldOfEnd(f, 1) => ToldOfEnd(f, 0)')
  BY <1>1, <1>3, <1>8, TellingMovesUp
<1>10. /\ DOMAIN repos' = DOMAIN repos
       /\ \A r \in DOMAIN repos :
            /\ repos'[r] \in RepositoryRecords
            /\ repos'[r].rules = repos[r].rules /\ repos'[r].tracked = repos[r].tracked
            /\ repos'[r] = repos[r] \/ isUpdated(r, e.type, e.uri)
  BY <1>1, <1>3, <1>5, UpdatedIs
<1>11. ASSUME NEW k \in jobs', k \notin jobs
       PROVE  /\ ~isStateChange(e.type, e.uri) /\ e.uri \notin Configs \cup IgnoreFiles
              /\ k \in Jobs /\ k.uri = e.uri /\ k.pc \in {"lstat", "refresh"}
              /\ k.pc = "lstat" => /\ k = job("lstat", e.uri, repositoryOf(e.uri))
                                   /\ k.root \in DOMAIN repos /\ owns(DOMAIN repos, k.root, e.uri)
  <2>1. k \in begun(e.type, e.uri)
    BY <1>3, <1>11
  <2> QED
    BY <1>1, <1>5, <2>1, BegunIs
<1>12. SetsFollow' /\ ToDo' = ToDo /\ AllAnew' = (AllAnew \/ new # <<>>)
       /\ ((\A i \in DOMAIN sets : ~sets[i].holds) /\ new = <<>> => \A i \in DOMAIN sets' : ~sets'[i].holds)
  <2>1. \A i \in DOMAIN sets : sets[i].by = "event" /\ sets[i].todo # {} =>
          \A j \in jobs' : j.pc = "lstat" => j.root = "gone"
    BY <1>4
  <2> QED
    BY <1>3, <1>6, <1>10, <2>1, SetsFollowOn
<1>13. DiskTypes' /\ SetsTypes' /\ ReposTypes'
  <2>1. sets' \in Seq(Walks)
    BY <1>1, <1>3, <1>6, WalksFollow
  <2>2. ReposTypes'
    BY <1>1, <1>10, <1>11 DEF ReposTypes
  <2> QED
    BY <1>1, <1>3, <1>4, <2>1, <2>2 DEF DiskTypes, SetsTypes
<1>14. EventsInOrder'
  <2>1. ASSUME NEW f \in Files \ stale', NEW k \in DOMAIN queue'.events
        PROVE  /\ f \in disk.files /\ tellsOfEnd(queue'.events[k], f) => Told(f, k)'
               /\ f \notin disk.files /\ queue'.events[k].uri = f /\ queue'.events[k].type = "Changed"
                    => ToldOfEnd(f, k)'
    <3>1. k \in Nat /\ k + 1 \in DOMAIN queue.events /\ queue'.events[k] = queue.events[k + 1]
      BY <1>7
    <3>2. /\ f \in disk.files /\ tellsOfEnd(queue.events[k + 1], f) => Told(f, k + 1)
          /\ f \notin disk.files /\ queue.events[k + 1].uri = f /\ queue.events[k + 1].type = "Changed"
               => ToldOfEnd(f, k + 1)
      BY <1>1, <1>4, <3>1 DEF EventsInOrder
    <3> QED
      BY <1>9, <3>1, <3>2
  <2> QED
    BY <1>3, <2>1 DEF EventsInOrder, tellsOfEnd
<1>15. WalksKnow'
  <2>1. ASSUME DOMAIN sets # {}, NEW f \in Files \ affected(lost)
        PROVE  /\ Told(f, 0) => Told(f, 0)'
               /\ ToldOfEnd(f, 0) => ToldOfEnd(f, 0)'
               /\ f \in disk'.files /\ f \notin disk.files => Told(f, 0)'
               /\ f \notin disk'.files /\ f \in disk.files => ToldOfEnd(f, 0)'
    <3>1. e.uri \in lost /\ {e.uri} \subseteq lost
      BY <1>4, <2>1
    <3>2. affected({e.uri}) \subseteq affected(lost)
      BY <3>1, AffectedIs
    <3>3. ~tellsOf(e, f) /\ ~tellsOfEnd(e, f)
      BY <2>1, <3>2, ToldIsAffected
    <3> QED
      BY <1>3, <1>9, <3>3
  <2> QED
    BY <1>3, <1>6, <2>1, WalksKnowOn
<1>16. JobsFollow'
  <2>1. ASSUME NEW k \in jobs' PROVE JobIsSound(k)'
    <3>1. CASE k \in jobs
      BY <1>4, <3>1 DEF JobIsSound
    <3>2. CASE k \notin jobs
      BY <1>10, <1>11, <3>2 DEF JobIsSound, owns, matching
    <3> QED
      BY <3>1, <3>2
  <2>2. ASSUME NEW k \in jobs', OfDirectory(k)
        PROVE  /\ \A n \in jobs' : n.pc # "refresh" => n = k
               /\ \A i \in DOMAIN sets' : ~sets'[i].holds
    <3>1. k \notin jobs
      BY <1>4, <2>2 DEF OfDirectory
    <3>2. k = job("lstat", e.uri, repositoryOf(e.uri)) /\ ~isStateChange(e.type, e.uri)
      BY <1>11, <2>2, <3>1 DEF OfDirectory
    <3>3. ASSUME NEW n \in jobs', n.pc # "refresh" PROVE n = k
      BY <1>4, <1>11, <3>2, <3>3
    <3> QED
      BY <1>3, <1>4, <1>12, <3>2, <3>3
  <2> QED
    BY <2>1, <2>2 DEF JobsFollow, OfDirectory
<1>17. RepositoriesFollow'
  BY <1>2, <1>12, TakenEventKeepsRepositories
<1>18. ASSUME NEW f \in Files, NEW r \in DOMAIN repos', accounted(f, r)'
       PROVE  accounted(f, r) /\ r \in DOMAIN repos /\ f \notin stale'
  BY <1>4, <1>10, <1>12, <1>18 DEF accounted, owns, matching
<1>19. FilesKnown'
  <2>1. SUFFICES ASSUME NEW f \in Files, NEW r \in DOMAIN repos', accounted(f, r)', ~AllAnew'
                 PROVE  FileIsKnown(f, r)'
    BY DEF FilesKnown
  <2>2. /\ FileIsKnown(f, r) /\ r \in DOMAIN repos /\ f \in Files \ stale'
        /\ owns(DOMAIN repos, r, f) /\ ~isStateChange(e.type, e.uri)
    BY <1>1, <1>3, <1>4, <1>12, <1>18, <2>1 DEF FilesKnown, accounted
  <2>3. /\ tellsOf(e, f) => f \in repos'[r].files \/ JobAdds(f, r)'
        /\ tellsOfEnd(e, f) => f \notin repos'[r].files
        /\ f \in repos[r].files /\ f \notin repos'[r].files => tellsOfEnd(e, f)
        /\ f \notin repos[r].files /\ f \in repos'[r].files => e.uri = f /\ e.type = "Changed"
    BY <1>2, <2>2, TakenEventIsKnown
  <2>4. /\ f \in disk.files /\ tellsOfEnd(e, f) => Told(f, 1)
        /\ f \notin disk.files /\ e.uri = f /\ e.type = "Changed" => ToldOfEnd(f, 1)
    BY <1>1, <1>3, <1>4, <2>2 DEF EventsInOrder
  <2>5. JobAdds(f, r) => JobAdds(f, r)'
    BY <1>3 DEF JobAdds
  <2>6. ASSUME f \in disk.files, f \notin repos'[r].files PROVE Told(f, 0)' \/ JobAdds(f, r)'
    BY <1>9, <2>2, <2>3, <2>4, <2>5, <2>6 DEF FileIsKnown
  <2>7. ASSUME f \notin disk.files, f \in repos'[r].files PROVE ToldOfEnd(f, 0)'
    BY <1>9, <2>2, <2>3, <2>4, <2>7 DEF FileIsKnown
  <2> QED
    BY <1>3, <2>6, <2>7 DEF FileIsKnown
<1>20. TrackedKnown'
  <2>1. SUFFICES ASSUME NEW f \in Files, NEW r \in DOMAIN repos', accounted(f, r)'
                 PROVE  TrackedIsKnown(f, r)'
    BY DEF TrackedKnown
  <2>2. TrackedIsKnown(f, r) /\ r \in DOMAIN repos
    BY <1>1, <1>18, <2>1 DEF TrackedKnown
  <2>3. ASSUME r \in DOMAIN IndexOf, IndexIsTold(r) PROVE IndexIsTold(r)'
    <3>1. CASE \E j \in jobs : j.pc = "refresh" /\ j.root = r
      BY <1>3, <3>1 DEF IndexIsTold
    <3>2. CASE \E m \in DOMAIN queue.events :
                 m > 1 /\ queue.events[m].uri = IndexOf[r] /\ queue.events[m].type # "Deleted"
      BY <1>7, <3>2 DEF IndexIsTold
    <3>3. CASE e.uri = IndexOf[r] /\ e.type # "Deleted"
      <4>1. IndexOf[r] \in Files \cap Below[r] /\ IndexOf[r] \notin Configs \cup IgnoreFiles
        BY <2>3, GitFilesAreFiles DEF Range
      <4>2. IndexOf[r] \notin DOMAIN repos
        BY <1>1, <4>1, UrisAreTree, GitFilesAreFiles DEF ReposTypes
      <4>3. matched(e.uri) /\ ~isStateChange(e.type, e.uri)
        BY <2>2, <3>3, <4>1, <4>2 DEF matched, matching, isStateChange
      <4>4. \E k \in begun(e.type, e.uri) : k.pc = "refresh" /\ k.root = r
        BY <2>2, <2>3, <3>3, <4>3, BegunHas
      <4> QED
        BY <1>3, <4>4 DEF IndexIsTold
    <3> QED
      BY <1>3, <1>7, <2>3, <3>1, <3>2, <3>3 DEF IndexIsTold
  <2>4. <<r, f>> \in disk.index => r \in DOMAIN IndexOf
    BY <1>1 DEF DiskTypes
  <2>5. ASSUME f \in repos'[r].files
        PROVE  /\ f \in repos'[r].ignored => ignores(repos[r].rules, f)
               /\ f \notin repos'[r].ignored => ~ignores(repos[r].rules, f) \/ <<r, f>> \in disk.index
    <3>1. CASE isUpdated(r, e.type, e.uri) /\ e.type = "Changed"
      <4>1. isWithFiles(repos'[r], repos[r], r, {e.uri})
        BY <3>1 DEF isUpdated
      <4> QED
        BY <2>2, <2>5, <4>1 DEF isWithFiles, TrackedIsKnown
    <3>2. CASE repos'[r] = repos[r] \/ (isUpdated(r, e.type, e.uri) /\ e.type # "Changed")
      <4>1. f \in repos[r].files /\ repos'[r].ignored = repos[r].ignored
        BY <2>5, <3>2 DEF isUpdated
      <4> QED
        BY <2>2, <4>1 DEF TrackedIsKnown
    <3> QED
      BY <1>10, <2>2, <3>1, <3>2
  <2> QED
    BY <1>3, <1>10, <2>2, <2>3, <2>4, <2>5 DEF TrackedIsKnown
<1> QED
  BY <1>7, <1>12, <1>13, <1>14, <1>15, <1>16, <1>17, <1>19, <1>20 DEF RepositoriesInv

-----------------------------------------------------------------------------
\* Whatever happens to the folder, the account of it stays true.
LEMMA RepositoriesStepKeeps ==
  ASSUME RepositoriesInv, [RepositoriesNext]_repositoriesVars
  PROVE  RepositoriesInv'
<1>1. CASE DiskChanges
  <2>1. CASE \E f \in Files \ Range(IndexOf) : CreateFile(f) \/ DeleteFile(f) \/ ChangeFile(f)
    BY <2>1, FileChangesKeep
  <2>2. CASE \E d \in Dirs \ {Folder} :
               DeleteDirectory(d) \/ \E fs \in SUBSET (Files \cap Below[d]) : CreateDirectory(d, fs)
    <3>1. PICK d \in Dirs :
            DeleteDirectory(d) \/ \E fs \in SUBSET (Files \cap Below[d]) : CreateDirectory(d, fs)
      BY <2>2
    <3>2. {} \in SUBSET (Files \cap Below[d])
      OBVIOUS
    <3> QED
      BY <3>1, <3>2, DirectoryChangesKeep
  <2>3. CASE \E root \in DOMAIN IndexOf, f \in Files : Stage(root, f) \/ Unstage(root, f)
    BY <2>3, IndexChangesKeep
  <2> QED
    BY <1>1, <2>1, <2>2, <2>3 DEF DiskChanges
<1>2. CASE (\E present \in BOOLEAN : Configure(present)) \/ SetUp \/ Registered \/ RegistrationFails
  BY <1>2, FileSystemStepsKeep
<1>3. CASE \E i \in DOMAIN sets :
             \/ FolderWalked(i) \/ WalkFails(i) \/ SetStarts(i) \/ SetEnds(i)
             \/ \E root \in sets[i].todo : RepositoryIsSetUp(i, root)
  BY <1>3, WalksEndKeeps, SetStartsKeeps, RepositorySetUpKeeps
<1>4. CASE TakeEvent
  BY <1>4, TakeEventKeeps
<1>5. CASE \E j \in jobs : \/ FileCreated(j) \/ DirectoryCreated(j) \/ DirectoryWalked(j)
                           \/ RefreshTrackedFiles(j)
  BY <1>5, FileCreatedKeeps, DirectoryCreatedKeeps, DirectoryWalkedKeeps, RefreshKeeps
<1>6. CASE UNCHANGED repositoriesVars
  <2>1. /\ disk' = disk /\ vfs' = vfs /\ queue' = queue /\ jobs' = jobs /\ sets' = sets
        /\ setQueue' = setQueue /\ repos' = repos /\ stale' = stale
    BY <1>6 DEF repositoriesVars
  <2>2. DiskTypes /\ QueueTypes /\ SetsTypes
    BY DEF RepositoriesInv
  <2>3. DiskTypes' /\ SetsTypes'
    BY <2>1, <2>2 DEF DiskTypes, SetsTypes
  <2>4. queue'.paused \in BOOLEAN /\ queue' = [queue EXCEPT !.paused = queue'.paused]
    BY <2>1, <2>2 DEF QueueTypes
  <2> DEFINE old == [i \in DOMAIN sets |-> i]
  <2>5. goesOn(old)
    <3>1. old \in [DOMAIN sets' -> Nat] /\ \A i \in DOMAIN sets : old[i] = i
      BY <2>1, <2>2 DEF SetsTypes
    <3>2. \A i \in DOMAIN sets : sameWalk(sets'[i], sets[i])
      BY <2>1 DEF sameWalk
    <3> HIDE DEF old
    <3> QED
      BY <2>1, <3>1, <3>2 DEF goesOn
  <2> HIDE DEF old
  <2> QED
    BY <2>1, <2>3, <2>4, <2>5, WalksGoOn
<1> QED
  BY <1>1, <1>2, <1>3, <1>4, <1>5, <1>6 DEF RepositoriesNext, Proceed

\* However file events, walks of the folder, sets and the awaits of the handlers
\* interleave: what a repository lacks of the disk an event still tells or a job
\* adds, a repository has files of its own only, and one set is at work at a time.
THEOREM RepositoriesInvCorrect == RepositoriesSpec => []RepositoriesInv
<1>1. RepositoriesInit => RepositoriesInv
  BY RepositoriesInitInv
<1>2. RepositoriesInv /\ [RepositoriesNext]_repositoriesVars => RepositoriesInv'
  BY RepositoriesStepKeeps
<1> QED
  BY <1>1, <1>2, PTL DEF RepositoriesSpec

\* At rest the repositories have the files that are on disk, and show those that
\* are tracked or not ignored.
THEOREM SingleSourceOfTruthCorrect == RepositoriesSpec => []SingleSourceOfTruth
BY RepositoriesInvCorrect, InvShowsTheTruth, PTL

=============================================================================
