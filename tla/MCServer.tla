------------------------------ MODULE MCServer ------------------------------
(***************************************************************************)
(* The server around the suggestions: the container that builds it, the    *)
(* webviews and what runs in them, direct connections, telemetry, scans    *)
(* and the intent of a request.  They share no variable that matters here, *)
(* so that a behaviour follows one of them, its focus.                     *)
(*                                                                         *)
(* The container, requests, direct connections, scans, trackers, webviews, *)
(* the chat, the workflow's pages and the intent keep their names, as      *)
(* their proofs state them (see InstanceProofs and ServerProofs).          *)
(***************************************************************************)
EXTENDS Container, HttpFetch, DirectConnection, SecurityScan, CodeSuggestionsTrackers,
        WebviewRuntime, WorkflowPages, DuoChat, IntentResolver, SequencesExt, TLC

CONSTANTS
  Foci,   \* the parts that the run follows
  AnswerChunks, MaxShows, MaxEvents, MaxSocketChanges, MaxItems, MaxEmitters

VARIABLES focus,
  asking, socket, whole, unsent, pulls, abandoned, records, shown,
  docker, dockerStatus, verifying, wfRun, container, containers, watched, wfStatus, opened,
  wfCable, shows, wfPage, wfEvents,
  emitters, emitter, url, batches, telemetry, unresolved, posted, tracked, missed

-----------------------------------------------------------------------------
\* Every application of three classes with up to one dependency, or two of
\* which the second is a collection.
Dependencies == {[kind |-> k, of |-> i] : k \in {"one", "all"}, i \in {"a", "b"}}
Declared == [id : {"a", "b"},
             dependencies : {<<>>} \cup {<<d>> : d \in Dependencies}
               \cup {<<[kind |-> "one", of |-> "a"], [kind |-> "all", of |-> "b"]>>}]
MCApplications == [1 .. 3 -> Declared]

\* Two instances of the chat: one in a browser and one in the editor.
MCWebviewOf == [i \in Instances |-> "chat"]
MCTransportOf == "i1" :> "socket" @@ "i2" :> "rpc"

Questions == {"q1", "q2"}
P == INSTANCE DuoChatPolling

\* A run of the page and one of the client.
Runs == {"r1", "r2"}
PageRuns == {"r1"}
Checkpoints == {"running", "finished", "stopped"}
F == INSTANCE Workflow

\* Two tool uses with the same text, and two that have no message to show.
MCConversation ==
  << [tool |-> "run_command", text |-> "done"], [tool |-> "read_file", text |-> "read"],
     [tool |-> "get_plan", text |-> "none"], [tool |-> "run_command", text |-> "done"],
     [tool |-> "handover_tool", text |-> "over"] >>

TrackedEvents == {"e1", "e2", "e3", "e4"}
quickChat(action, text) == [category |-> "gitlab_quick_chat", action |-> action, given |-> text]
NoticeOf ==
  [e1 |-> quickChat("message_sent", "/fix"),
   e2 |-> [category |-> "sast_security_diagnostics", action |-> "scan_initiated", given |-> "command"],
   e3 |-> quickChat("open_quick_chat", "shortcut"),
   e4 |-> quickChat("message_sent", "/reset")]
Urls == {"u1", "u2"}
FirstUrl == "u1"
E == INSTANCE SnowplowEmitter

-----------------------------------------------------------------------------
pollingVars == <<asking, socket, whole, unsent, pulls, abandoned, records, shown>>
workflowVars == <<docker, dockerStatus, verifying, wfRun, container, containers, watched,
                  wfStatus, opened, wfCable, shows, wfPage, wfEvents>>
flowVars == <<workflowVars, pagesVars, chatPageVars>>
emitterVars == <<emitters, emitter, url, batches, telemetry, unresolved, posted, tracked, missed>>
codeVars == <<trackersVars, intentVars>>

builtVars == <<containerVars, directVars, emitterVars, scanVars, codeVars, httpVars>>
pageVars == <<webviewVars, chatVars, pollingVars, flowVars>>
vars == <<focus, builtVars, pageVars>>

\* A part that is not followed has one initial state.
Init ==
  /\ focus \in Foci
  /\ ContainerInit
  /\ focus # "container" =>
       given = {} /\ classes = [c \in 1 .. 3 |-> [id |-> "a", dependencies |-> <<>>]]
  /\ WebviewInit
  /\ ChatInit /\ kind["p1"] = "reset" /\ kind["p2"] # "reset"
  /\ focus # "chat" => kind["p2"] = "page"
  /\ P!PollingInit
  /\ F!WorkflowInit /\ ~docker.up /\ docker.socket /\ (focus # "workflow" => docker.image)
  /\ PagesInit /\ (focus # "workflow pages" => ~site.goal)
  /\ WorkflowChatInit
  /\ DirectInit /\ directAccount = "a"
  /\ E!EmitterInit /\ ScanInit
  /\ TrackersInit
  /\ IntentInit /\ (focus # "intent" => parsers = {})
  /\ HttpInit /\ (focus # "http" => ~http.user /\ http.variables = "none")

OfContainer(step) == /\ focus = "container" /\ step
                     /\ UNCHANGED <<focus, directVars, emitterVars, scanVars, codeVars,
                                  httpVars, pageVars>>
OfWebviews(step) == /\ focus = "webviews" /\ step
                    /\ UNCHANGED <<focus, builtVars, chatVars, pollingVars, flowVars>>
OfChat(step) == /\ focus = "chat" /\ step
                /\ UNCHANGED <<focus, builtVars, webviewVars, pollingVars, flowVars>>
OfPolling(step) == /\ focus = "polling" /\ step
                   /\ UNCHANGED <<focus, builtVars, webviewVars, chatVars, flowVars>>
OfWorkflow(step) == /\ focus = "workflow" /\ step
                    /\ UNCHANGED <<focus, builtVars, webviewVars, chatVars, pollingVars,
                                   pagesVars, chatPageVars>>
OfPages(step) == /\ focus = "workflow pages" /\ step
                 /\ UNCHANGED <<focus, builtVars, webviewVars, chatVars, pollingVars,
                                workflowVars, chatPageVars>>
OfWorkflowChat(step) == /\ focus = "workflow chat" /\ step
                        /\ UNCHANGED <<focus, builtVars, webviewVars, chatVars, pollingVars,
                                       workflowVars, pagesVars>>
OfDirect(step) == /\ focus = "direct" /\ step
                  /\ UNCHANGED <<focus, containerVars, emitterVars, scanVars, codeVars,
                                httpVars, pageVars>>
OfEmitter(step) == /\ focus = "emitter" /\ step
                   /\ UNCHANGED <<focus, containerVars, directVars, scanVars, codeVars,
                                 httpVars, pageVars>>
OfScans(step) == /\ focus = "scans" /\ step
                 /\ UNCHANGED <<focus, containerVars, directVars, emitterVars, codeVars,
                               httpVars, pageVars>>
OfTrackers(step) == /\ focus = "trackers" /\ step
                    /\ UNCHANGED <<focus, containerVars, directVars, emitterVars, scanVars,
                                   intentVars, httpVars, pageVars>>
OfIntent(step) == /\ focus = "intent" /\ step
                  /\ UNCHANGED <<focus, containerVars, directVars, emitterVars, scanVars,
                                 trackersVars, httpVars, pageVars>>
OfHttp(step) == /\ focus = "http" /\ step
                /\ UNCHANGED <<focus, containerVars, directVars, emitterVars, scanVars, codeVars,
                               pageVars>>

Next ==
  \/ OfContainer(ContainerNext) \/ OfWebviews(WebviewNext) \/ OfChat(ChatNext)
  \/ OfPolling(P!PollingNext) \/ OfWorkflow(F!WorkflowNext)
  \/ OfPages(PagesNext) \/ OfWorkflowChat(WorkflowChatNext)
  \/ OfDirect(DirectNext) \/ OfEmitter(E!EmitterNext) \/ OfScans(ScanNext)
  \/ OfTrackers(TrackersNext) \/ OfIntent(IntentNext) \/ OfHttp(HttpNext)

Spec ==
  /\ Init /\ [][Next]_vars
  /\ WF_vars(OfPolling(\E p \in Questions : P!PromptStep(p)))
  /\ WF_vars(OfWorkflow(F!DockerStep))
  /\ WF_vars(OfWorkflow(\E r \in Runs : F!RunStep(r)))
  /\ WF_vars(OfEmitter(E!EmitterProceeds))
  /\ \A i \in 1 .. MaxFetches : WF_vars(OfHttp(FetchProceeds(i)))

\* No answer stays pending (see DuoChatPolling).
PendingSettles == P!PendingSettles
\* A workflow whose container crashed does not stay running (see Workflow).
CrashIsReported == F!CrashIsReported
\* Tracked events leave the queue (see SnowplowEmitter).
TrackedEventsAreSent == E!TrackedEventsAreSent
=============================================================================
