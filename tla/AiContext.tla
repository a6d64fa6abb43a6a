------------------------------ MODULE AiContext ------------------------------
(***************************************************************************)
(* src/common/ai_context_management: the manager, its providers, their     *)
(* debounced searches, the items the user selected and their contents;     *)
(* with the features (duo_feature_access_service.ts) and the projects      *)
(* (api_project_access_cache.ts) that the account may use.                 *)
(*                                                                         *)
(* Items are values.  What a provider finds is all it has, the wording of  *)
(* items is left out, and a content is its size.  Binary contents, and the *)
(* projects of local files (see ProjectAccess), disable an item for good.  *)
(***************************************************************************)
EXTENDS Integers, FiniteSets, Sequences, SequencesExt

CONSTANTS
  Providers,       \* the types of the providers
  ItemsOf,         \* by provider: its items
  Debounced,       \* providers whose search waits for the user to stop typing
  ByProjectId,     \* providers that ask the instance for the project: issues, merge requests
  ReadsFiles,      \* providers whose content is read from the disk
  Blocked,         \* items that .ai-context-policy.yml blocks
  ProjectOf,       \* by item of a provider in ByProjectId
  Accounts,
  FeaturesOf,      \* by account: the providers whose feature it has
  EnabledProjects, \* by account
  Size,            \* by item: what its content would take
  ContentLimit,    \* getAdvancedContextContentLimit(1)
  MaxCalls, MaxAccounts   \* bounds: requests of the client, reconfigurations

VARIABLES
  account,    \* the account of the API client, and how often it was configured
  features,   \* #featuresPromise, and the promises made so far
  projects,   \* #duoProjects: what is known of project ids
  available,  \* #availableProviders
  asking,     \* promises that getAvailableCategories awaits
  selected,   \* #selectedContextItems by provider
  timers,     \* by provider: the search that the debounce timer will begin with
  runs,       \* searches at work, of one call or for all that wait
  searches,   \* calls of searchContextItemsForCategory that wait
  answered,   \* history: for each call answered, the call whose query was searched for
  retrievals, \* calls of retrieveContextItemsWithContent
  calls

selectionVars == <<available, asking, selected, timers, runs, searches, answered, retrievals, calls>>
contextVars == <<account, features, projects, selectionVars>>

NoAccount == "none"
ContextInit ==
  /\ account = [name |-> NoAccount, changes |-> 0]
  /\ features = [promise |-> 0, fetches |-> <<>>]
  /\ projects = <<>>
  /\ available = {}
  /\ asking = {} /\ selected = [p \in Providers |-> <<>>]
  /\ timers = [p \in Debounced |-> 0] /\ runs = {} /\ searches = {} /\ answered = {}
  /\ retrievals = {} /\ calls = 0

call == calls < MaxCalls /\ calls' = calls + 1

-----------------------------------------------------------------------------
(* Features and categories.                                                *)

\* A promise that began before the API was known asks at the first configuration.
fetchFeatures(fetches, name) ==
  [i \in DOMAIN fetches |->
     IF fetches[i].account = NoAccount THEN [fetches[i] EXCEPT !.account = name] ELSE fetches[i]]

forgetFeatures(fs, name) == [promise |-> 0, fetches |-> fetchFeatures(fs.fetches, name)]

forgetProjects(known) == <<>>

\* onApiReconfigured: what is known is forgotten, answers on their way are not.
Reconfigured(name) ==
  /\ account.changes < MaxAccounts
  /\ account' = [name |-> name, changes |-> account.changes + 1]
  /\ features' = forgetFeatures(features, name)
  /\ projects' = forgetProjects(projects)
  /\ UNCHANGED selectionVars

setAvailable(fetch) == available' = Providers \cap fetch.answer

\* getAvailableCategories; isFeatureEnabled of every provider has the same promise.
GetAvailableCategories ==
  /\ call
  /\ LET new == features.promise = 0
         i == IF new THEN Len(features.fetches) + 1 ELSE features.promise
     IN  /\ features' = IF ~new THEN features ELSE
              [promise |-> i, fetches |-> Append(features.fetches,
                 [account |-> account.name, done |-> FALSE, answer |-> {}])]
         /\ IF ~new /\ features.fetches[i].done
            THEN setAvailable(features.fetches[i]) /\ UNCHANGED asking
            ELSE asking' = asking \cup {i} /\ UNCHANGED available
  /\ UNCHANGED <<account, projects, selected, timers, runs, searches, answered, retrievals>>

\* Without an answer no feature is there.
FeaturesAnswered(i, ok) ==
  /\ ~features.fetches[i].done /\ features.fetches[i].account # NoAccount
  /\ LET fetch == [features.fetches[i] EXCEPT !.done = TRUE,
                     !.answer = IF ok THEN FeaturesOf[features.fetches[i].account] ELSE {}]
     IN  /\ features' = [features EXCEPT !.fetches[i] = fetch]
         /\ IF i \in asking THEN setAvailable(fetch) ELSE UNCHANGED available
  /\ asking' = asking \ {i}
  /\ UNCHANGED <<account, projects, selected, timers, runs, searches, answered, retrievals, calls>>

-----------------------------------------------------------------------------
(* Searches.                                                               *)

\* searchContextItemsForCategory; a query may be empty.  For the provider of open
\* tabs it must be, for that of files it must not; issues and merge requests of the
\* user need no debounce.
searched(p, empty) == IF p = "open_tab" THEN empty ELSE p # "local_file_search" \/ ~empty
debounces(p, empty) == p \in Debounced /\ ~(p \in ByProjectId /\ empty)

firstQuery(p, id) == IF timers[p] = 0 THEN id ELSE timers[p]   \* Mutant: the timer keeps its call.
\* The timer begins anew with the arguments of the latest call.
latestQuery(p, id) == id

SearchContextItems(p, empty) ==
  /\ call /\ p \in available /\ searched(p, empty)
  /\ searches' = searches \cup
       {[id |-> calls', provider |-> p, debounced |-> debounces(p, empty),
         crossed |-> \E r \in runs : r.provider = p /\ r.debounced]}
  /\ IF debounces(p, empty)
     THEN timers' = [timers EXCEPT ![p] = latestQuery(p, calls')] /\ UNCHANGED runs
     ELSE /\ runs' = runs \cup {[provider |-> p, debounced |-> FALSE, asks |-> calls',
                                 stage |-> "finding", missing |-> {}, account |-> NoAccount]}
          /\ UNCHANGED timers
  /\ UNCHANGED <<account, features, projects, available, asking, selected, answered, retrievals>>

DebounceFires(p) ==
  /\ timers[p] # 0 /\ timers' = [timers EXCEPT ![p] = 0]
  /\ runs' = runs \cup {[provider |-> p, debounced |-> TRUE, asks |-> timers[p],
                         stage |-> "finding", missing |-> {}, account |-> NoAccount]}
  /\ UNCHANGED <<account, features, projects, available, asking, selected, searches, answered,
                 retrievals, calls>>

onlyLatest(r) ==   \* Mutant: only the last of the calls that wait is resolved.
  {s \in searches : s.id = r.asks}
resolved(r) ==
  IF r.debounced THEN {s \in searches : s.provider = r.provider /\ s.debounced}
  ELSE {s \in searches : s.id = r.asks}

\* The search resolves every call that waits by now, also those that came after
\* it had begun, and the calls of its own are no longer known to the next one.
answer(r) ==
  /\ searches' = searches \ resolved(r)
  /\ answered' = answered \cup
       {[call |-> s.id, asks |-> r.asks, crossed |-> s.crossed] : s \in resolved(r)}
  /\ runs' = runs \ {r}

\* Projects not known to be enabled are asked for again.
missingFromCache(p) ==
  {ProjectOf[i] : i \in {j \in ItemsOf[p] :
     ProjectOf[j] \notin DOMAIN projects \/ ~projects[ProjectOf[j]]}}

\* A failure yields nothing: the providers or the manager catch it.
Found(r, ok) ==
  /\ r.stage = "finding"
  /\ IF ok /\ r.provider \in ByProjectId /\ missingFromCache(r.provider) # {}
     THEN /\ runs' = (runs \ {r}) \cup
               {[r EXCEPT !.stage = "projects", !.missing = missingFromCache(r.provider),
                          !.account = account.name]}
          /\ UNCHANGED <<searches, answered>>
     ELSE answer(r)
  /\ UNCHANGED <<account, features, projects, available, asking, selected, timers, retrievals,
                 calls>>

ProjectsAnswered(r, ok) ==
  /\ r.stage = "projects"
  /\ projects' = IF ~ok THEN projects
                 ELSE [id \in r.missing |-> id \in EnabledProjects[r.account]] @@ projects
  /\ answer(r)
  /\ UNCHANGED <<account, features, available, asking, selected, timers, retrievals, calls>>

-----------------------------------------------------------------------------
(* The selected items.                                                     *)

selectedItems == UNION {{<<p, selected[p][i]>> : i \in DOMAIN selected[p]} : p \in Providers}

\* What the policy says is an object, which is true whatever it says.
isNewTo(p, item) == \A i \in DOMAIN selected[p] : selected[p][i] # item

AddSelectedContextItem(p, item) ==
  /\ call /\ p \in available
  /\ isNewTo(p, item)
  /\ selected' = [selected EXCEPT ![p] = Append(@, item)]
  /\ UNCHANGED <<account, features, projects, available, asking, timers, runs, searches, answered,
                 retrievals>>

\* The provider removes the item from the list that its retrievals also have.
RemoveSelectedContextItem(p, item) ==
  /\ call /\ p \in available /\ ~isNewTo(p, item)
  /\ selected' = [selected EXCEPT ![p] = SelectSeq(@, LAMBDA i : i # item)]
  /\ retrievals' = {[r EXCEPT !.removed = @ \/ r.frozen[p] = 0] : r \in retrievals}
  /\ UNCHANGED <<account, features, projects, available, asking, timers, runs, searches, answered>>

\* Providers that are not available now keep what they have; a list that is
\* cleared is a new one.
ClearSelectedContextItems ==
  /\ call
  /\ selected' = [p \in Providers |-> IF p \in available THEN <<>> ELSE selected[p]]
  /\ retrievals' = {[r EXCEPT !.frozen = [p \in Providers |->
       IF @[p] = 0 /\ p \in available THEN Len(selected[p]) ELSE @[p]]] : r \in retrievals}
  /\ UNCHANGED <<account, features, projects, available, asking, timers, runs, searches, answered>>

RetrieveContextItemsWithContent ==
  /\ call
  /\ LET items == {x \in selectedItems : x[1] \in available}
     IN  /\ items # {}
         /\ retrievals' = retrievals \cup
              {[id |-> calls', waits |-> items, sizes |-> <<>>, removed |-> FALSE,
                frozen |-> [p \in Providers |-> 0]]}
  /\ UNCHANGED <<account, features, projects, available, asking, selected, timers, runs, searches,
                 answered>>

\* The items that share the limit are counted when the content has arrived.
attached(r, p) == IF r.frozen[p] = 0 THEN Len(selected[p]) ELSE r.frozen[p]
getAdvancedContextContentLimit(n) == ContentLimit \div (IF n = 0 THEN 1 ELSE n)

contentSize(r, p, item) ==
  LET limit == getAdvancedContextContentLimit(attached(r, p))
  IN  IF p \in ByProjectId /\ Size[item] > limit THEN limit ELSE Size[item]

\* An issue without answer stays without content; a file that cannot be read
\* fails the whole retrieval.
ContentArrives(r, x, ok) ==
  /\ x \in r.waits
  /\ retrievals' = (retrievals \ {r}) \cup
       IF ~ok /\ x[1] \in ReadsFiles THEN {}
       ELSE {[r EXCEPT !.waits = @ \ {x},
                       !.sizes = Append(@, <<x[1], IF ok THEN contentSize(r, x[1], x[2]) ELSE 0>>)]}
  /\ UNCHANGED <<account, features, projects, available, asking, selected, timers, runs, searches,
                 answered, calls>>

\* The contents are transformed and returned.
Retrieved(r) ==
  /\ r.waits = {} /\ retrievals' = retrievals \ {r}
  /\ UNCHANGED <<account, features, projects, available, asking, selected, timers, runs, searches,
                 answered, calls>>

-----------------------------------------------------------------------------
Client ==
  \/ GetAvailableCategories \/ ClearSelectedContextItems \/ RetrieveContextItemsWithContent
  \/ \E p \in Providers : \/ \E empty \in BOOLEAN : SearchContextItems(p, empty)
                          \/ \E i \in ItemsOf[p] : \/ AddSelectedContextItem(p, i)
                                                   \/ RemoveSelectedContextItem(p, i)

ContextProceed ==
  \/ \E i \in DOMAIN features.fetches, ok \in BOOLEAN : FeaturesAnswered(i, ok)
  \/ \E p \in Debounced : DebounceFires(p)
  \/ \E r \in runs, ok \in BOOLEAN : Found(r, ok) \/ ProjectsAnswered(r, ok)
  \/ \E r \in retrievals :
       Retrieved(r) \/ \E x \in r.waits, ok \in BOOLEAN : ContentArrives(r, x, ok)

ContextNext == Client \/ ContextProceed \/ \E name \in Accounts : Reconfigured(name)

\* Requests are answered or fail, timers fire.
ContextSpec == ContextInit /\ [][ContextNext]_contextVars /\ WF_contextVars(ContextProceed)

-----------------------------------------------------------------------------
\* A search that began while none of its provider was at work is never answered
\* with what an older query found.
SearchesAnswerTheQuery == \A a \in answered : ~a.crossed => a.asks >= a.call

\* Every search is answered in the end, also one that a later one superseded.
SearchesAreAnswered == searches # {} ~> searches = {}

\* "Context item is not allowed by context policies" (ai_context_provider.ts:116):
\* the user never selects a file that the policy blocks.
PolicyIsEnforced == \A x \in selectedItems : x[2] \notin Blocked
=============================================================================
