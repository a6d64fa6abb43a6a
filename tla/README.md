# The KhulnaSoft language server in TLA+

This directory specifies the language server of the repository (`src/`): the
state that its asynchronous parts share, the orders in which callbacks, timers,
answers of the API and requests of the editor can meet, and what must hold
whatever that order is. TLC checks every property on small instances; TLAPS
proves the ones listed under *Proofs* for every value of the constants.

Everything is translated from the TypeScript (and Vue) code. Node runs one
callback at a time, so **an action is what the code does between two awaits** (or
in one timer or event callback); everything that can happen at an await is a
different action. What is stored across an await is stored in the model: a request
in flight is a record of what its closure knows.

## The system

The server is one Node process. An editor talks LSP to it; it talks to the
KhulnaSoft instance (REST, GraphQL, server-sent events, a cable), to KhulnaSoft
Cloud, to a Snowplow collector, to docker, and over HTTP and sockets to webviews.

| Component | State it keeps | Operations | Meets the others by | What is hard | Modules |
|---|---|---|---|---|---|
| Circuit breakers (`common/circuit_breaker`) | open or closed, error count, timer handle | `error`, `megaError`, `success`, `isOpen`, timer | called by every request; `onOpen`/`onClose` listeners | errors of requests in flight arrive while open; forgotten timers | `CircuitBreaker`, `BreakerTimers`, `FixedTimeCircuitBreaker`, `ExponentialBackoffCircuitBreaker`, `RequestBreaker` |
| Code suggestion telemetry (`common/tracking/code_suggestions`) | a state and a context per tracking id, in two trackers | create, update, `trackEvent`, auto-reject, garbage collection, reconfiguration | suggestion service, streaming handler, `$/gitlab/telemetry` | events in no fixed order, forgotten suggestions, a breaker that drops creations | `SuggestionStateGraph`, `SuggestionLifecycle`, `CodeSuggestionsTelemetry`, `CodeSuggestionsTrackers` |
| Suggestions cache (`suggestions_cache.ts`) | entries by place, how often each was retrieved | add, get | suggestion service | late responses overwrite, expiry, typing along | `SuggestionsCache`, `SuggestionsCacheUse` |
| Streaming handler (`streaming_handler.ts`) | a frame per stream, cancellation handlers, a queue | start, parser events, cancel, error, end | API, tracker, breaker, client | post-processing in flight while items, cancellations and errors arrive | `StreamingHandler` |
| Suggestion service (`suggestion_service.ts`) | a frame per request | completions (automatic, by hand, streamed) | cache, tracker, breaker, API, post-processors | four awaits, each with other requests, cancellation, failure | `SuggestionService` |
| Tree-sitter and intent (`common/tree_sitter`) | loaded languages | parse, resolve comment, function, small file | suggestion service | rows and columns at boundaries, concurrent loading | `IntentResolver` |
| Direct connection (`common/suggestion_client`) | details with an expiry, two breakers | ask directly, fetch details, fall back | API, breakers | details fetched without a guard, answers after a reconfiguration | `DirectConnection` |
| HTTP (`node/fetch.ts`) | agents, proxy, certificates | initialise, update options, fetch, stream | every request | two signals, a timeout, a body after its response | `HttpFetch` |
| API and configuration (`api.ts`, `config_service.ts`) | token, base URL, API state | reconfigure, check token, subscribe | everything that talks to the instance | a token check that outlives its token; re-entrant configuration | `ApiConfiguration` |
| Feature state (`common/feature_state`) | the checks engaged | recompute and notify | breakers, API, documents, configuration | overlapping asynchronous checks | `FeatureState` |
| Feature flags and user (`feature_flags.ts`, `user_service.ts`) | flags, user | update, throttle, clear | API | one question after the other for an account that changes | `FeatureFlags` |
| Snowplow (`tracking/snowplow`, quick chat and security trackers) | queues, timers, emitters | add, drain, stop, new URL | trackers, HTTP | events between drain and answer, restart while stopping | `SnowplowEmitter` |
| Security scan (`common/security_scan`) | diagnostics by document | scan, publish, notify | API, client | scans of one document overlap | `SecurityScan` |
| Connection and start-up (`node/main.ts`, `connection_service.ts`, `node/http`, `webview`) | registered handlers, addresses | build, listen, register, shut down, serve | everything | a client that speaks while the server starts | `ServerConnection` |
| Dependency injection (`lib_di`) | classes, instances | `instantiate` | start-up | the order of construction, collections | `Container` |
| Virtual file system and Git (`services/fs`, `services/git`) | a trie of repositories, files and ignore rules; two queues | walk, watch, refresh | AI context | a watcher event for a repository not discovered yet | `Repositories` |
| Project access (`services/duo_access`) | projects by folder | refresh | Git remotes, GraphQL, feature state | overlapping refreshes that clear, await and set | `ProjectAccess` |
| Open tabs and advanced context (`open_tabs`, `advanced_context`) | a bounded list of files, most recent first | open, change, close, resolve | suggestion service, chat | byte limits, order | `AdvancedContext` |
| AI context management (`ai_context_management`) | selected items per provider, searches | search, add, remove, clear, retrieve | chat | debounce, policies, providers that fail | `AiContext` |
| Context providers (same directory) | policy, caches of libraries | search | Git, file system, API | reads of a checkout that changes, seven file formats | `LocalGit`, `DependencyScan`, `ContextItems` |
| Webview runtime (`packages/lib_webview*`) | managed instances, pending requests, buses, theme | register, request, notify, dispose | HTTP and sockets, plugins | disposal with requests pending, a timeout racing an answer | `WebviewRuntime` |
| Duo Chat v2, v1 (`packages/webview_duo_chat*`, `webviews/duo-chat*`) | history; what a page shows | prompt, cancel, clear, update | runtime, cable, mutation, polling | three sources of one answer | `DuoChat`, `DuoChatPolling` |
| Workflow (`node/duo_workflow`, `webview_duo_workflow/src/plugin`) | a container, a cable | run, watch, subscribe, send events | docker, API, pages | overlapping runs and subscriptions | `Workflow` |
| Workflow pages (`webview_duo_workflow/src/app`) | stores, the chat of an execution | mount, request, show, dismiss | the plugin's notifications | answers without a request id, repeated errors | `WorkflowPages` |
| Secret redaction; webview rendering and build tooling | – | – | – | – | not modelled, see below |

## How the modules are put together

A component's module declares its own state (`VARIABLES`), with one action per
operation, handler or await, its properties at the end. Operators that several
components share take and return a record: a tracker in
`CodeSuggestionsTelemetry`, a breaker in `RequestBreaker`, the cache's entries in
`SuggestionsCache`, the API client in `ApiConfiguration`. The real compositions are

- `SuggestionService` = requests + cache + tracker + breaker,
- `StreamingHandler` = streams + tracker + breaker,
- `CodeSuggestionsTrackers` = both trackers + the instance tracker's breaker,
- `FeatureState` = nine checks + manager + `ApiConfiguration` + breaker,
- `AdvancedContext` = documents + tabs + filters, with the projects of a uri,
- `Workflow` = runner + cable + container + controllers + page.

Abstract specifications: `CircuitBreaker` (what a breaker promises; the
exponential one implements it, checked as `KeepsPromise` and proved),
`RequestBreaker` (the fixed-time breaker *with its
timers* implements it, `BehavesLikeRequestBreaker`; the models of its users may
therefore use the record), and `SuggestionLifecycle` (what telemetry may claim of
one suggestion; both trackers implement it for every suggestion,
`BothFollowFlow`).

The `MC…` modules instantiate components that do **not** share state and let a
behaviour follow one of them, its `focus` (`OfX(step)` = the focus is `x`, the step
is one of `X`, everything else stands still). Interleaving independent parts would
multiply their states and show nothing new. `Foci` in a `.cfg` names the parts a
run is about. Properties are re-stated in the MC module under the component's name,
except those of the components with proofs, which it extends (`MCSuggestions` the
exponential breaker, the cache, the service and the streams; `MCServer` the container,
trackers, webviews, pages, chat, intent, direct connection, scans and requests;
`MCServices` the flags, the connection, context items, local Git and the dependency
files; `MCWorkspace` the repositories, the tabs, the projects and the context).

Recursion is written as recursive functions or as state: the container's sort keeps its
stack of calls in a variable, so that each of its steps can be reasoned about.

## Runs

Deadlock checking is off where the machine may really stop: all requests answered,
nothing left to do, or a bound of the instance reached. `feature_state` and
`feature_authentication` keep it on.

### `suggestions` (`MCSuggestions`): the path of a suggestion

| Property | What it says | Bounds, and why they are enough |
|---|---|---|
| `BehavesLikeRequestBreaker` | the fixed-time breaker opens only after enough errors in a row, again at the first failure after a break, and closes in the end | 2 errors to open (4 in the code), 2 timers: the current one and a forgotten one |
| `BackoffNeverShrinks`, `KeepsPromise` | pauses grow until a success and are kept in full; the breaker closes | backoffs 1, 2, 4, 8, 8: growing, at the maximum, beyond it |
| `OffersCompleteTheSuggestion` | accepting an offer of the cache gives a line that was suggested for the place | lines of up to two characters, with white space: typing along, something else, erasing, indenting |
| `EveryRequestIsAnswered`, `AnsweredIsSettled` | whatever fails, the client is answered, and the suggestion is settled by then | two requests from one place (they share the entry), up to two options |
| `NotificationsInOrder`, `AtMostOneLateCompletion`, `CompletionIsTracked`, `EveryStreamEnds` | completions never get shorter; one late completion at most after a cancellation; a stream that ran to its end is tracked so; `done` always comes | one stream, three items: one in the post-processors, one queued, one to come. The first three are proved for any number of streams and items |

### `feature_state` (`MCFeatureState`)

Nothing in the code makes one configuration wait for the last. `crossings` counts the
changes of the account that come while the API is still at work with one before, and
`crossed` says whether the last one did; the first change that waits clears it.

| Property | What it says |
|---|---|
| `ToldIsEngaged` | the client is told of exactly the checks that are engaged, although the language check changes its id |
| `AuthenticationIsReported` | at rest the client was told to authenticate exactly if no token is left, unless the last changes crossed |
| `KnowledgeIsCurrent` | at rest, if a token is left: the API client uses what is configured, the client is not told to authenticate and the instance is that of the base URL in use, **whatever crossed**; version and token information are of that account, too, unless the last changes crossed |
| `LicensedIfOffered` | a feature whose license check is not engaged is licensed for the account in use, unless the last changes crossed |
| `ConfigurationSettles` | removing an invalid token, which configures the API again, comes to an end |

Bounds: two instances, one before 16.8; a token valid at both, one valid at one of them
or none: each change of URL, token or both, to valid and invalid accounts, in any number.
`MaxCrossings = 1`: one change of the account may come at any await of another, token
check, version request and license queries; so an older check's version meets a newer
base URL, an older token is found invalid after a newer one is set, and the client's next
change, which waits, must put right what that left. `MaxInFlight = 3` license queries: two
of an older account and one of the newer. Two bounds concern
checks that share no state with the account: the breaker of the API opens only while the
language is unsupported, and once changes have crossed the language, the project and the
user's switches stay at one value each (`MCNext`). With
`MaxCrossings = 1`, too, `feature_authentication` finds `AuthenticationIsAlwaysReported`,
the same without `crossed`, violated.

### `workspace` (`MCWorkspace`)

| Property | What it says | Bounds |
|---|---|---|
| `SingleSourceOfTruth` | at rest the repositories have the files that are on disk and show those that are tracked or not ignored | two nested repositories, a file of each kind, three changes of the disk or of the folder's configuration |
| `AccessIsCurrent` | the project cache says of the configured folders what the configured instance says | two folders, one project within another, two instances, three inputs |
| `ContextFits` | a document and its context stay within the byte limit, save the character torn by the cut | two documents and sizes at, below and above the limit |
| `SearchesAnswerTheQuery`, `SearchesAreAnswered` | no search is answered with an older query's results; every search is answered | four calls: one at work, one in the timer, two superseded |

### `services` (`MCServices`)

`EveryBranchIsOffered` (local Git: every branch once, and HEAD),
`DependenciesAreThoseOfTheFiles` (an item offers the libraries its files name, but for
four losses that `passedOver` names: in a csproj the only reference of its group and those
of groups after the first that has any; in go, gradle and conanfile.py files a requirement
on a line of its own that opens a section; in conda files what is nested),
`ItemsAreThosePermitted` (tabs and files are enabled as contents, projects and
policy say), `NothingIsUnheard` (a client that keeps to the protocol and speaks
while the server starts is heard), `KnownIsOfTheAccount` (flags and user). One
edit, one checkout or one policy read during a search is what can interfere with it;
three accounts make one update overtake another; the dependency files are of every type,
up to three lines long, five in a csproj (two groups, the first with no reference, one or
two); two messages in the client's inbox
are one before and one after a step of the start.

### `server` and `server_settles` (`MCServer`)

Safety: `DependenciesComeFirst` (every class gets all it needs, for every
application of three classes), `GoneInstancesAreReleased` (nothing of a closed
webview is left while its transport is served), `PageShowsHistory` and
`AnswerIsFinal` (chat), `DirectDetailsAreCurrent`, `DiagnosticsMatchTheResult`,
`NoPageHangs` and `ChatFollowsTheWorkflow` (workflow pages), `IntentFollowsTheText`
(for every tree on three rows with up to two comments the intent that the rules of
`getIntent` give, read off the text), `RequestsUseTheOptions`, `BothFollowFlow` (two suggestions, one of
them streamed: auto-reject needs one that is open and one that is created).

Liveness: `PendingSettles` (the first chat's answer), `CrashIsReported` (workflow),
`TrackedEventsAreSent` (Snowplow), `EveryFetchEnds`. `CrashIsReported`: after the container
of a page's run crashed its workflow is over at the instance, unless the page was shown
that the run failed, the instance refused the update, the watch had rejected because the
docker socket was no longer configured, or it had gone over to a later run's container;
the last two are the code's (see *Workflow* below). `MaxSocketChanges = 2` in
`ServerSettles.cfg` takes the socket out of the configuration and puts it back, before,
during or after a watch; `MaxSocketChanges = 1` in `Server.cfg`, where the pages are, takes
it out or puts it in. `server_settles` opens no pages and sends no events (`MaxShows = 0`,
`MaxEvents = 0`): no waiting of a run depends on them. The bounds are the smallest
with two of whatever may interfere: two configurations, two themes, three scans (one
succeeding before two that overlap), three emitters (current, stopping, doubled),
one cancellation, one clear, six requests of pages. `MaxAgents = 0` in
`ServerSettles.cfg` leaves changes of the agents, which no waiting depends on, to the
safety run.

Several properties name an exception: a situation in which the code is known not to
do what the property says. Each exception is a fact of the state (`crossed`,
`displaced`, `stale`, `lost`, `missed`, …) that the model sets where it arises, so
the property still says that *nothing else* breaks it. They are listed under
*Behaviour without a run*.

### Fairness

Only the event loop and the parties that are bound to answer are fair, never the
editor, the user, or a change of an account. Timers fire and queued tasks run (Node
guarantees both). An API request ends, with an answer **or** with a failure: one weak
fairness over the disjunction, because a fetch settles (`EveryFetchEnds` shows that
the timeout of `node/fetch.ts` brings this about) but nobody knows how. Token checks,
version requests, license queries, walks of directories and reads of files end
likewise. Post-processors and notifications return: the pipeline catches every error
and none of its steps waits for the user. Docker answers (`DockerStep`) and the
runner's polling continues (`RunStep`: a watch ends once its container has; that a
container ends, or a watch errs or times out, nobody promises). For `EveryFetchEnds` the
body, the response and the timeout of each request are fair together; the instance itself never has to
answer.

### Findings

Places where a document, a comment or a test says something else than the code does.
Each is the counterexample of a run and quoted in `PROJECT.json`.

- `streaming_done`: an event that does not parse ends the stream outside the queue;
  completions, and a second `done`, still follow.
- `feature_authentication`: `configureApi` does not look whether the account it
  checked is still the configured one. An older check that fails removes the newer
  token; one that succeeds announces a valid state after the newer one announced an
  invalid one, and the client is told that nothing is engaged while no token is left.
- `context_policies`: an item blocked by a context policy is selected all the same;
  the policy's answer is an object and therefore truthy.
- `webview_requests`: a page's request to a plugin with an asynchronous handler is
  answered with the promise instead of its result.
- `chat_cancel`: the controller looks for the id of the cancelled prompt in another
  place than where the page puts it, so that a cancelled answer goes on.
- `vue_intent`: in the script of a Vue document an offset in the document is taken
  off the column of every row; a cursor in an empty function is taken to be elsewhere.

## Behaviour without a run

The models reproduce the following too; no run has it for its subject, since no
document says otherwise or because it is one of the exceptions that properties name.

**Breakers and telemetry.** `#open()` of the fixed-time breaker runs again for every
error that arrives while it is open (`fixed_time_circuit_breaker.ts:43`) and forgets
the timer armed before, which may close a *later* opening early (`:47`). An update of
a streamed suggestion whose creation the instance tracker's open breaker dropped
creates it anew without `isStreaming`, so the instance hears of a stream although its
test says it does not; an instance tracker that comes back after a reconfiguration
does not know older suggestions. Auto-reject leaves suggestions that are `REQUESTED`,
`LOADED` or `STREAM_STARTED` open (docs/telemetry.md:230 says all unfinished ones). A
new tracking URL makes `snowplow_service.ts` drop what is added to the stopped
emitter, unless that fills its queue (`missed`). The trackers of quick chat and of
security scans do not ask whether telemetry is enabled; a quick chat message without
text throws outside the try.

**Suggestions.** A request made by hand shows its cached option to telemetry, then
creates its network suggestion, whose auto-reject rejects the cached one before the
answer is sent; each cached option gets a tracking id but only the first is made
known. Whether there is anything to show is decided before the post-processors
(`suggestion_service.ts:518`), so a suggestion that they empty is tracked as shown. A
cache entry that matched nothing at a column is discarded at the next visit of that
column. Streams report a success before they send their request, so streams failing
in a row never open the breaker, and a start resets the count that others built up
(`streaming_handler.ts:200`); a cancellation before `startStream` runs is dropped
(`:114`); one between the start and the first visible chunk is not tracked as
cancelled.

**Account.** A failing version request leaves every subscriber of the API uninformed
(`api.ts:234`), and sending the same configuration again does nothing. License queries
of two accounts may overlap (`api_state_check.ts:57`). Feature flags: the throttle is
wrapped around its own caller, so after the first call `updateFeatureFlags` answers
with the first update and asks nothing, while a timer calls it again every five
seconds (the comment at `feature_flags.ts:42` says it re-fetches); the virtual file
system relies on it. Flags survive a logout; answers for two accounts may cross.
Project access: folders are removed by name and nothing is refreshed then
(`did_change_workspace_folders_handler.ts:30`). A direct connection's details that were
asked for by an older account are kept, and several questions run at once. The ids of
an older account's projects merge into the API's project cache
(`api_project_access_cache.ts:69`). Only the `codeCompletion` part of a configuration
is validated, and a merge keeps keys that the client removed.

**HTTP.** A signal that is aborted before the call is never heard
(`common/fetch.ts:123` says it is combined); a caller's own timeout
(`direct_connection_client.ts:121`) is reported as that of fifteen seconds; a timeout
in the body is an `AbortError`; streams are cut after fifteen seconds; an error body
that breaks off hides an invalid token.

**Workspace.** Events that no listener heard, or that came during the walk, are lost;
`git rm --cached` is not seen; a deleted directory deletes what merely begins with its
name, and not the repositories below it; events of a directory that is in no repository
are passed over although repositories are below it; a repository one of whose `.gitignore`
files cannot be read when it is set up (it was deleted since the walk) stays without
files until the next set, as after any failure of the set-up; listeners leak, the queue's entry is stored
late (`repository_service.ts:120`, `:170`), repositories are never disposed. A document
that outgrows the tab cache leaves the old text in it (`lru_cache.ts:55`).

**AI context.** `clear` clears the available providers only; a debounced run in flight
answers later calls (`crossed`); an item removed during retrieval is still returned;
headers do not count towards limits; one policy object serves all folders; a policy
file with nothing but comments leaves the old policy in force (`file_policy.ts:63`).
The local Git list dedupes by title across repositories; `'refs/heads/main'.replace('refs/head/')`
keeps the prefix, so that main is offered while on main (its test uses `refs/head/main`);
a detached HEAD hides main; one repository without a commit empties the list. Among the
parsers a single-line `require x v` of go starts a section and is lost, poetry
sections without an empty line swallow others, `dev-requirements.txt` matches by its
suffix, C# files are looked for under `.csharp`, only the first `ItemGroup` with a
`PackageReference` is read (`parser.ts:135`) and a single reference in it throws, a second
`[requires]` of conan ends the section. The line-by-line parsers of gradle and conanfile.py
lose a requirement in a line of its own outside a section like that of go does, while
conanfile.py's `self.requires(...)` are found anywhere (`parser.ts:161`); entries of a conda
file that are no strings are left out. Issues do not leave out what
is selected (`issue.ts:138`); merge requests do after slicing.

**Chat.** The cached action mutation and messages query are those of the first account
and version; an update before the mutation's answer is dropped; a polled update after
a clear replaces the last message (`displaced`); the API's own set of cancelled ids is
never filled by the controller. In the first version an error without `errors` drops
the prompt, a rejection that is no `Error` adds a record without request id, and
`cleanChat` has no handler.

**Workflow.** One cable and one container for all runs: the finished event of an older
subscription disconnects the newer one, overlapping subscriptions leak a cable, a
second run overwrites `#container`, so that a watch repeated after a time-out looks at
another run's container; any error of the watch but a time-out counts as an exit code of 1
and drops a workflow whose container still runs (`desktop_workflow_runner.ts:235`); a watch
that begins or is repeated when the docker socket is no longer configured rejects (`:206`)
and nothing in `startWorkflow` catches it (`workflow.ts:95`), so that a later crash is
reported nowhere; an answer to the creation of a container without an id is kept as the
container; another error of the verification ends the polling,
a refused `updateStatus` rejects unhandled, `cancelWorkflow` has no handler, a
checkpoint between query and subscription is lost. Pages: a second identical error does
not change the text that `error_notifications.vue` watches, so the page goes on waiting
(`workflow.js:115`; `workflow_new.test.js:74` covers the first one); `initialState.goal`
is never cleared; a failed health check keeps loading; dismissing an error ends a wait
that is not over; answers do not name the page of the list; `setProjectValid(false)` is
never undone and `setValidProject` is mapped but missing. The chat of an execution does
not show a repeated text again and shows texts twice when an older checkpoint comes
late; its Resume bypasses the buttons' rules.

**Webviews and start-up.** Disposing of a stale registration deletes a newer one of the
same key; the theme is sent from within the announcement of an instance; runtime
subscriptions are never disposed (`mediator.ts:94`); registering a plugin again keeps
the old controller. The socket transport drops `success` and `reason` of an answer.
Metadata asked for before the HTTP server listens have no addresses and nothing tells
the client to ask again. The container's search for cycles follows the first class of
an interface only (`lib_di/src/index.ts:157`) and refuses an empty collection (`:164`;
the comment at `:125` allows it); after an error what was built stays.

**Intent.** Rows with both code and comment are subtracted twice; two loads at once make
two parsers; the desktop's initialisation swallows its errors.

## Proofs

Seven modules hold theorems, each with the inductive invariants, a lemma for each
action and temporal theorems that combine them by PTL. No proof bounds the number of
actors. Where a theorem states a property of a run it names the very definition that
the run checks.

**`ExponentialBackoffProofs`**, for every initial backoff, multiplier, maximum and
bound that satisfy `BoundsAssumption` (bounds are natural numbers) and
`BackoffAssumption` (backoffs are natural numbers and do not shrink as errors add up,
true of every multiplier of at least one; TLC evaluates both in `suggestions`):
`TypeCorrect`, `OneTimerCorrect` (one armed timer while open, none while closed),
`PausesFullyCorrect` (without a success it closes only after the announced pause),
`BackoffNeverShrinksCorrect`, and `Implements` (every step is one of `CircuitBreaker`
or leaves it unchanged). `OneTimer` alone does not say how long the timer has left, and
that pauses grow needs a relation between the last pause and the errors since, so
`IInv` joins the types, the timers of both states, `TimerCoversPause` and
`PauseWithinBackoff`.

**`SuggestionProofs`**, of streams for any number of them and of items, of the cache for
any lines and texts, and of the service for any requests and responses
(`StreamsAssumption`: the ids of streams are ids of suggestions):

- `StreamsInStep`: `StreamInv`, the inductive invariant. The queue handles one
  notification at a time (`OneAtATime`), the buffer it was made from is between what
  the client has and what the stream has (`BuffersGrow`), and after the one late
  completion every task is at its end (`LateIsLast`).
- `OneLateCompletionCorrect`: `Spec => []AtMostOneLateCompletion`.
- `NotificationsInOrderCorrect`: `Spec => NotificationsInOrder`.
- `CompletionIsTrackedCorrect`: `Spec => []CompletionIsTracked`, under
  `NoClientCancels`: the client does not itself report `CANCELLED`. (One that does can
  of course end a suggestion.) `TrackInv` says which states the tracker may hold of a
  stream in each phase: `HasContext` is needed because an early `ACCEPTED` that names
  an option creates a plain context, after which the graph for plain suggestions
  applies; and `Tracked` says nothing of a stopped stream. The lemma
  `HarmlessTracked` covers what *other* streams do to it (auto-reject).

- `OffersCompleteTheSuggestionCorrect`: the options are those suggestions that are typed
  along, in their order, so the *i*-th option has an index of its own: the first one up
  to which there are *i* (`NthIsOne`; that there is a first is `SmallestOf`, from the
  well-foundedness of finite intervals). What is left of a text after what was typed
  completes it (`RestCompletes`). `TextsAssumption`: lines and texts are sequences of
  characters; TLC evaluates it in `suggestions`.
- `AnsweredIsSettledCorrect`: `ServiceInv` binds the state and the context that the
  tracker has of a response to the phase of its request: nothing is known of it before
  the API is asked, it is `REQUESTED` and then `LOADED` on the way, and its context stays
  until it is settled, also if the client tracks it afterwards (`Follows`). Whatever
  happens to other suggestions leaves it as it is, except that one which was shown may be
  rejected (`Spares`), whichever requests come between two awaits. Under `TrackedIds`: the
  ids of responses are ids of suggestions.

**`InstanceProofs`**, about what the server has to do with the instance:

- `RequestsUseTheOptionsCorrect`: for any certificates, hand-overs and requests. The
  agents follow the options handed over last (`AgentsFollow`).
- `DirectDetailsCorrect`: for any accounts, questions and completions; a question in
  flight belongs to the configured account until a reconfiguration marks it.
- `DiagnosticsCorrect`: for any documents, texts and scans; while scans of a document do
  not overlap at most one is at work, and only its publishing parts what is shown from
  what was told.
- `KnownIsOfTheAccountCorrect`: for any accounts and any non-empty list of flags
  (`SomeFlags`); with no question of another account at work, whatever is not known
  is still being asked for.

- `NothingIsUnheardCorrect`: for any number of messages under way, wherever the HTTP
  server, its failure and the shutdown come between them. A message that the client may
  send has its handler by the time it is heard (`HandlersStand`), because the inbox
  keeps the protocol's order (`ClientKeepsOrder`), and a page has the server that
  serves it (`PagesHaveServer`).

**`FixedTimeCircuitBreaker`** proves of itself that it `ImplementsRequestBreaker`: a
step, seen without the timers, is one of `RequestBreaker` or a stutter, for every
natural `MaxErrorsBeforeBreaking` and however many timers are armed: a timer that
fires closes an open breaker and changes nothing that is seen of a closed one.

**`WorkspaceProofs`**, about the user's files:

- `AccessIsCurrentCorrect`: for any folders and projects. While refreshes run one at a
  time (`RefreshesRunAlone`) and none fails, the projects known are those of the remotes of
  the folders and the host that were asked about last.
- `SearchesAnswerTheQueryCorrect`: for any providers, queries and searches. Runs are
  numbered (`Numbered`), and a search that began while none of its provider was at work
  waits for a run with its own query (`WaitsForItsQuery`).
- `ItemsAreThosePermittedCorrect`: the policy in force is of the content that was read
  last (`Policies`) and a search finds nothing that is selected (`UnselectedFound`);
  assumes that the kinds of a file's content are
  those that the code tells apart (`PolicyContentsKnown`).
- `EveryBranchIsOfferedCorrect`: a search reads each repository's main branch, current
  branch and branches at once, and checkouts may change in between. While none does,
  whatever has been read agrees with the checkout, whichever read came first
  (`SearchAgrees`, `InfoAgrees`), and the sum of what agrees is the answer. Assumes
  finitely many repositories, that no branch is called `HEAD`, and that each repository
  starts with a checkout (`RepositoriesFinite`, `BranchesAssumption`, `CheckoutsKnown`).
- `DependenciesAreThoseOfTheFilesCorrect`: for files of any type and length. A search
  that no edit crosses has read every dependency file of its repositories
  (`ScansReadWholeRepositories`, from `DependencyInv`). What a parser finds is a function
  by recursion over the lines; `ScanExists` shows that it is defined and `SectionsScan`
  that it satisfies its equation, `SectionsAreOpened` that the parser's `inSection` after a
  line says exactly that a section was started and not ended up to there: a line for
  which it does not would have a least one. `ReferencesAreInGroups` finds the
  group of a reference of a csproj. Assumes that a file has lines, and that libraries are
  no section marks (`FilesHaveLines`, `LibrariesAreOthers`).
- `RepositoriesInvCorrect`, `SingleSourceOfTruthCorrect`: for any tree of files, any
  nested repositories and ignore files, and any order of changes. File events, walks of
  the folder, the sets that follow them and the awaits of the handlers take turns
  through three queues, so that nothing holds of one of them alone. `RepositoriesInv`
  says who makes up for what differs: what a repository lacks of the disk an event in
  the queue still tells or a job at work adds, what it has too many an event removes
  (`FileIsKnown`), unless a set is to come that replaces everything (`AllAnew`); the
  queue ends with the truth about each file (`EventsInOrder`); what a walk did not see
  it is told (`WalkKnows`), or it is stale by the time its set begins (`SetIsSound`); one
  set at a time is at work on repositories, and a job that adds files belongs to a
  repository that is still there and is the deepest one with the file (`JobIsSound`,
  `OwnersAreNested`). `UrisAreTree` is that directories are nested or apart, and
  `GitFilesAreFiles` where a repository's own files are. The constants of the run have
  few directories; stated for any tree, the property needed exceptions that no state of
  the run shows: a directory outside every repository, and a `.gitignore` that is gone
  when its repository is set up.
- `TabsAreDistinct`, `ContextFitsCorrect`: for any documents, sizes and projects. The
  tabs of the cache are pairwise of different documents whatever the editor does. What
  is taken of them is a prefix of what the filters leave: the running totals never pass
  the limit while a tab is whole (`TotalsStayWithin`), nothing is added after the first
  that does not fit (`TotalsStay`), and that one is cut to what is left and up to two
  bytes of a character (`CutFits`). `SizesAreNumbers`: sizes and the limit are numbers
  of bytes.

**`FeatureStateProofs`**, about the nine checks and the account
(`SwitchesAssumption`, `AccountAssumption`: the constants name checks and instances):

- `ToldIsEngagedCorrect`: without any condition. `Told` relates, for each check, what
  it announced, what the manager keeps and what the client has.
- `AuthenticationIsReportedCorrect`, `KnowledgeIsCurrentCorrect`,
  `LicensedIfOfferedCorrect`: for any instances and tokens and any number of changes of
  the account, whichever cross (`MaxCrossings` is any bound, and bounds nothing in the
  invariants). Two invariants go side by side. `CrossingInv` holds always: the API client
  has what is configured (`Held`), nothing is known of a license before authentication is
  announced (`NothingIsKnown`), and a token that is left is still being checked
  (`IsChecked`) or was when the client last heard, with the instance of the base URL in use
  (`IsConfirmed`): `configureApi` joins an older check's version with whatever base URL is
  set by then, and it is this join that keeps the pair together. `AccountInv` holds unless
  the last changes crossed: the check and the queries in flight are of the account
  (`AccountBase`), what is engaged and known once the check is through is of it
  (`AuthenticationIsKnown`), and so is a license that no query is asking for
  (`LicenseIsKnown`). A change that waits finds nothing at work and so establishes
  `AccountInv` from `CrossingInv`, whatever those before it left behind. The run
  `feature_authentication` shows that the first property does not hold without `crossed`.

**`ServerProofs`**, about six parts of the server:

- `TrackersAgree`, `BothFollowFlowCorrect`: for any suggestions, both trackers implement
  `SuggestionLifecycle` at every step. The invariant `TrackersInv` is that a tracker's
  two maps agree and that nothing is known of a suggestion before it is created: without
  it, an update could find a state and no context, and apply the wrong graph.
- `WebviewTyped`, `GoneInstancesAreReleasedCorrect`: for any instances, webviews and
  transports. Whoever handles an instance's messages has its bus (`HandlersHaveABus`),
  so that closing it can release what it has. `InstancesAssumption` is that `Nobody` is
  no instance and that each connects through a transport.
- `WaitingIsAnswered`, `NoPageHangsCorrect`: for any number of requests of the pages. A
  page that waits is waited for: its question is asked, or was lost in one of the three
  named ways (`HealthIsAwaited`, `ListIsAwaited`, `StartIsAwaited`). It takes that the
  answer meant is the one that comes: nothing is asked about an unknown project
  (`ProjectComesFirst`), and no two requests are for the same new workflow
  (`StartsAreNew`). `NoneIsNoWorkflow`: the absent number is none.
- `PageShowsHistoryCorrect`, `AnswerIsFinalCorrect`: for any prompts and context items.
  `ChatInv` joins what is recorded (ids differ and belong to prompts sent,
  `RecordsAreOfPrompts`), where each answer's subscription stands (`CablesFollow`), why
  a record may have its full text (`FullTextsAreKnown`), and that the page agrees with
  the history wherever both have a record (`PageAgrees`). An update goes to the *first*
  record with its id; that there is one is a fact about natural numbers (`SmallestOf`
  again). `NoRequestIsNoPrompt`: the
  absent request id is none.
- `IntentFollowsTheTextCorrect`: for documents of any length with any number of comments
  (`RowsAssumption`: the rows are numbered from 1). The queries look for the last comment
  above the cursor that is in the same function and has no sibling after it;
  `AfterIsAbove` and `AboveIsAfter` show that this is the comment that reading the text
  upward, row by row, comes to first. `SizeOfTheText` is why a file that is taken for
  small has little code: a blank row is one of a comment. A tree has at most one
  function, as in the model.
- `ChatFollowsTheWorkflowCorrect`: for any conversation and any order of checkpoints.
  What is shown has every text of the checkpoint that came last and, while none came late,
  no other and none more often (`Shows`, in the invariant of `ChatShowsCheckpoints`). A
  checkpoint's messages are counted by those of its uses that are kept (`OnlyCounts`,
  `OnlyKeeps`, `TwoPartsCount`); a later one only adds to them (`CheckpointsGrow`), and
  highlighting changes no text (`HighlightsKeep`). `ConversationIsSequence`.
- `SortFollowsDependencies`, `DependenciesComeFirstCorrect`: for any classes with any
  dependencies, in any order. `ContainerInv` describes the stack of calls of the sort:
  a call's classes are exactly those of its interface that are not sorted yet, its
  current class has everything sorted that it depends on, up to the dependency that the
  next call on the stack is for (`CallsFollow`), and a root that was passed is sorted or
  still being sorted by the first call (`RootsAreSorted`). So a class is added to the order
  after all that it depends on (`OrderIsSorted`), and when its turn comes to be built each
  of its arguments has every instance that there will be (`ArgumentsHaveAll`).
  `ApplicationsAreClasses`: classes and their dependencies are of the interfaces.

Every invariant that a run checks is proved. Only model-checked: liveness
(`KeepsPromise`'s second half, `EveryRequestIsAnswered`,
`EveryStreamEnds`, `ConfigurationSettles`, `SearchesAreAnswered`, and all of
`server_settles`), which is out of the prover's reach as are `ENABLED` and induction
over data: what a recursive function computes is proved here by the least index at which
it would not hold, for which the well-foundedness of intervals is enough.
`TypeOK` of the exponential breaker, `OneTimer` and `PausesFully` are proved and not in
a run.

## What is left out

Inside the modelled components: the contents of prompts, contexts and payloads; logging;
the wording of errors and queries; which entry an LRU eviction removes (any); headers
and addresses; rendering. A place (document, line number, lines around it) is one
value, a text its size or its visible chunks, a tree what the resolvers ask of it.

Partly modelled, with what is missing: the virtual file system and Git (the exclude
file, the ignore status of directories, branches and heads, events about repositories
being set), the API client (its other requests belong to their components; proxies'
headers, GraphQL and the message about an invalid token are left out), the webview
runtime (notifications other than the theme, the bus between plugins and the
extension), both chats (slash commands, feedback, the choice of an account) and the
workflow runner (the executor, texts, project queries).

Not modelled:

- Secret redaction (`common/secret_redaction`): regular expressions over a text, and
  the table of rules; no state, and what a pattern matches is not a question for a
  model checker. The same holds for the sub-processors of the URL sanitisation and for
  the details of validating a configuration.
- Webview rendering, `khulnasoft__ui` and the vendored `duo_chat.vue`, the icon maps,
  the eslint plugin, build scripts and generated data.
- The pipeline of pre-processors, which no service uses.

## What could follow

Models of the bus between plugins and the extension, of two chat pages of one plugin,
and of the branches and the exclude file of a repository.
