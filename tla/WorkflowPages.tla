---------------------------- MODULE WorkflowPages ----------------------------
(***************************************************************************)
(* The Duo Workflow page of packages/webview_duo_workflow: its stores, the *)
(* list of workflows, the page for a new one and the page that shows one,  *)
(* and the health check that takes their place.                            *)
(*                                                                         *)
(* A page sends notifications and the plugin answers with others, which    *)
(* carry no request: whatever answer, or error, arrives is taken for the   *)
(* store it names.  A page that is mounted starts its requests; an error   *)
(* that differs from the one on display tells the mounted page to stop     *)
(* waiting.                                                                *)
(*                                                                         *)
(* In the second part, what the page of a workflow shows of its execution: *)
(* the chat made of the tool uses in the checkpoints, and the buttons that *)
(* pause, resume and stop it.  A checkpoint has the whole conversation so  *)
(* far.  The page gets the last one from a query, which is answered after  *)
(* the plugin has subscribed to the next ones, and so maybe after the      *)
(* first of those.                                                         *)
(***************************************************************************)
EXTENDS Naturals, Sequences, FiniteSets, SequencesExt

CONSTANTS
  Errors,       \* texts of workflowError
  Pages,        \* pages of the list of workflows: 1..n
  MaxPageRequests,  \* bound: requests, and pages that are mounted
  None,         \* no error, no workflow
  Conversation, \* the tool uses of a workflow: [tool, text]; a text may come again
  NoText,       \* of a tool use that has no message
  MaxInputs     \* bound: what the user sends

\* Workflows are numbered in the order of their requests.
ASSUME NoneIsNoWorkflow == None \notin Nat \ {0}
ASSUME ConversationIsSequence ==
  Len(Conversation) \in Nat /\ DOMAIN Conversation = 1 .. Len(Conversation)

VARIABLES
  site,    \* route, what it needs to be shown, and what the stores of it hold
  health,  \* healthCheckStore
  list,    \* the list of workflows
  asked,   \* requests that are not answered yet
  sent,    \* how many requests were sent and pages mounted
  lost,    \* history: a failed health check, and an error that was on display already
  execution, \* at the instance: how much of the conversation there is, the status
  feed,      \* getWorkflowById: its stage and what the query found
  shownChat, \* the page: checkpoint, status, messages and texts of the chat
  buttons    \* currentEvent, and how often the user sent something

pagesVars == <<site, health, list, asked, sent, lost>>
chatPageVars == <<execution, feed, shownChat, buttons>>

Project == [kind |-> "project", id |-> 0, of |-> None]

\* The page asks for the image and for the project; the plugin answers appReady,
\* maybe with a goal, before anything else.
PagesInit ==
  /\ \E goal \in BOOLEAN :
       site = [route |-> IF goal THEN "new" ELSE "index", docker |-> FALSE, project |-> FALSE,
               goal |-> goal, error |-> None, creating |-> FALSE, workflow |-> None,
               loading |-> FALSE]
  /\ health = [loading |-> FALSE, valid |-> TRUE, enabled |-> TRUE]
  /\ list = [loading |-> FALSE, shown |-> 0]
  /\ asked = {Project} \cup IF site.goal THEN {[kind |-> "start", id |-> 1, of |-> 1]} ELSE {}
  /\ sent = 1
  /\ lost = [health |-> FALSE, repeated |-> FALSE]

-----------------------------------------------------------------------------
\* A page is shown unless the health check is shown in its place.
isDuoWorkflowEnabled(s, h) == h.enabled /\ h.valid /\ s.docker
mounted(route) == site.route = route /\ isDuoWorkflowEnabled(site, health)

isLoading == list.loading \/ health.loading \/ Project \in asked
tableIsShown == mounted("index") /\ ~isLoading /\ list.shown # 0

pending(kind) == {r \in asked : r.kind = kind}
request(kind, of) == [kind |-> kind, id |-> sent + 1, of |-> of]
mayAsk == sent < MaxPageRequests

\* The request that a page sends when it is mounted in state s.
getsUserWorkflows(s) == s.route = "index" /\ s.project
mounts(s) ==
  CASE getsUserWorkflows(s) -> {request("list", 1)}
    [] s.route = "show" -> {request("show", s.workflow)}
    [] OTHER -> {}

\* The page of state s is mounted; `rest` are the requests it finds.
Mount(s, rest) ==
  /\ mayAsk
  /\ site' = [s EXCEPT !.creating = s.route = "new" /\ s.goal,
                       !.loading = @ \/ s.route = "show"]
  /\ list' = [list EXCEPT !.loading = @ \/ getsUserWorkflows(s)]
  /\ asked' = rest \cup mounts(s)
  /\ sent' = sent + 1

-----------------------------------------------------------------------------
(* What the plugin sends.                                                  *)

\* The image is there: what the route names is mounted.
DockerReady ==
  /\ ~site.docker
  /\ LET s == [site EXCEPT !.docker = TRUE]
     IN  IF isDuoWorkflowEnabled(s, health) THEN Mount(s, asked)
         ELSE site' = s /\ UNCHANGED <<list, asked, sent>>
  /\ UNCHANGED <<health, lost>>

\* Without a project the page is the health check's from now on.
SetProjectPath(known) ==
  /\ Project \in asked
  /\ health' = [health EXCEPT !.valid = known]
  /\ LET s == [site EXCEPT !.project = known]
     IN  IF known /\ mounted("index") THEN Mount(s, asked \ {Project})
         ELSE site' = s /\ asked' = asked \ {Project} /\ UNCHANGED <<list, sent>>
  /\ UNCHANGED lost

\* A list that is empty has the health of the project checked.
UpdateWorkflows(r, empty) ==
  /\ r \in pending("list") /\ (empty => mayAsk)
  /\ list' = [list EXCEPT !.loading = FALSE, !.shown = IF empty THEN 0 ELSE r.of]
  /\ health' = [health EXCEPT !.loading = @ \/ empty]
  /\ asked' = (asked \ {r}) \cup IF empty THEN {request("health", None)} ELSE {}
  /\ sent' = IF empty THEN sent + 1 ELSE sent
  /\ UNCHANGED <<site, lost>>

\* No data for the project makes it invalid, for good.
SetHealthCheckData(r, data) ==
  /\ r \in pending("health")
  /\ LET h == [loading |-> FALSE, valid |-> health.valid /\ data # "none",
               enabled |-> IF data = "none" THEN health.enabled ELSE data = "enabled"]
     IN  /\ health' = h
         /\ IF isDuoWorkflowEnabled(site, h) /\ ~isDuoWorkflowEnabled(site, health)
            THEN Mount(site, asked \ {r})
            ELSE asked' = asked \ {r} /\ UNCHANGED <<site, list, sent>>
  /\ UNCHANGED lost

\* workflowStarted, for a workflow that was created and for one that was fetched:
\* the page for new workflows goes on to whatever workflow it is.
SetWorkflowStarted(r) ==
  LET s == [site EXCEPT !.workflow = r.of, !.loading = FALSE]
      rest == (asked \ {r}) \cup IF r.kind = "start" THEN {[r EXCEPT !.kind = "watch"]} ELSE {}
  IN  /\ r \in pending("start") \cup pending("show")
      /\ IF mounted("new") /\ r.of # site.workflow
         THEN Mount([s EXCEPT !.route = "show"], rest)
         ELSE site' = s /\ asked' = rest /\ UNCHANGED <<list, sent>>
      /\ UNCHANGED <<health, lost>>

\* The container of a workflow ends as it should.
ExecutorEnds(r) ==
  /\ r \in pending("watch") /\ asked' = asked \ {r}
  /\ UNCHANGED <<site, health, list, sent, lost>>

\* Mutant: the page for new workflows goes on waiting.
keepsCreating(s, error) == [s EXCEPT !.error = error, !.loading = FALSE]
\* error_notifications: every page stops to wait when another error is displayed,
\* or none.
onRequestError(s, error) ==
  [s EXCEPT !.error = error,
            !.creating = @ /\ ~(mounted("new") /\ error # site.error),
            !.loading = @ /\ ~(mounted("show") /\ error # site.error)]

SetRequestError(error) ==
  LET heard == mounted("index") /\ error # site.error IN
  /\ site' = onRequestError(site, error)
  /\ list' = [list EXCEPT !.loading = @ /\ ~heard]

\* An answer of every kind but the project's may be an error.
RequestFails(r, error) ==
  /\ r \in asked \ {Project}
  /\ asked' = asked \ {r}
  /\ SetRequestError(error)
  /\ lost' = [health |-> lost.health \/ r.kind = "health",
              repeated |-> lost.repeated \/ error = site.error]
  /\ UNCHANGED <<health, sent>>

-----------------------------------------------------------------------------
(* What the user does.                                                     *)

DismissError ==
  /\ site.error # None
  /\ \E route \in {"index", "new", "show"} : mounted(route)
  /\ SetRequestError(None)
  /\ UNCHANGED <<health, asked, sent, lost>>

ToNewWorkflowRoute ==
  /\ mounted("index") /\ ~isLoading
  /\ Mount([site EXCEPT !.route = "new"], asked)
  /\ UNCHANGED <<health, lost>>

OnStartWorkflow ==
  /\ mounted("new") /\ ~site.creating /\ mayAsk
  /\ site' = [site EXCEPT !.creating = TRUE]
  /\ asked' = asked \cup {request("start", sent + 1)} /\ sent' = sent + 1
  /\ UNCHANGED <<health, list, lost>>

\* The breadcrumb, also while a workflow is being created, and Cancel.  Leaving a
\* workflow resets the store.
ToIndex ==
  /\ mounted("new") \/ mounted("show")
  /\ Mount([site EXCEPT !.route = "index",
              !.workflow = IF site.route = "show" THEN None ELSE @], asked)
  /\ UNCHANGED <<health, lost>>

ShowWorkflow(workflow) ==
  /\ tableIsShown
  /\ Mount([site EXCEPT !.route = "show", !.workflow = workflow], asked)
  /\ UNCHANGED <<health, lost>>

canTurnTo(page) == tableIsShown /\ page \in Pages

TurnPage(page) ==
  /\ page \in {list.shown - 1, list.shown + 1} /\ canTurnTo(page) /\ mayAsk
  /\ list' = [list EXCEPT !.loading = TRUE]
  /\ asked' = asked \cup {request("list", page)} /\ sent' = sent + 1
  /\ UNCHANGED <<site, health, lost>>

-----------------------------------------------------------------------------
Answers ==
  \/ DockerReady
  \/ \E known \in BOOLEAN : SetProjectPath(known)
  \/ \E r \in asked :
       \/ \E empty \in BOOLEAN : UpdateWorkflows(r, empty)
       \/ \E data \in {"none", "enabled", "disabled"} : SetHealthCheckData(r, data)
       \/ SetWorkflowStarted(r) \/ ExecutorEnds(r)
       \/ \E error \in Errors : RequestFails(r, error)

PagesNext ==
  \/ Answers
  \/ DismissError \/ ToNewWorkflowRoute \/ OnStartWorkflow \/ ToIndex
  \/ ShowWorkflow(1) \/ \E page \in Pages : TurnPage(page)

PagesSpec == PagesInit /\ [][PagesNext]_pagesVars

-----------------------------------------------------------------------------
\* Once everything is answered no page waits: the list is not loading and no
\* workflow is being created.  Except after a health check that failed, after an
\* error that was on display already, and after the page was opened with a goal,
\* which every later page for new workflows takes for its own.
NoPageHangs ==
  asked \ pending("watch") = {} =>
    /\ (mounted("index") /\ isLoading) => (lost.health \/ lost.repeated)
    /\ (mounted("new") /\ site.creating) => (lost.repeated \/ site.goal)

-----------------------------------------------------------------------------
(* The execution of a workflow, as its page shows it.                      *)

Terminated == {"FINISHED", "FAILED", "STOPPED"}
Statuses == {"RUNNING", "PAUSED"} \cup Terminated

WorkflowChatInit ==
  /\ execution = [made |-> 0, status |-> "RUNNING"]
  /\ feed = [stage |-> "querying", found |-> 0, status |-> "RUNNING"]
  /\ shownChat = [checkpoint |-> 0, status |-> "", known |-> {}, messages |-> <<>>,
                  older |-> FALSE]
  /\ buttons = [event |-> "none", sent |-> 0]

-----------------------------------------------------------------------------
(* Tool uses.                                                              *)

\* toolUseToMessage: a tool that has no entry, like get_user_input, and one whose
\* entry is empty have no message.
hasMessage(use) == use.text # NoText

\* What a filter of s keeps: in their order, the members at the indices in `kept`.
nth(kept, n) == CHOOSE i \in kept : Cardinality(kept \cap (1 .. i)) = n
only(s, kept) == [n \in 1 .. Cardinality(kept) |-> s[nth(kept, n)]]

getChatMessages(checkpoint) ==
  only(Conversation, {i \in 1 .. checkpoint : hasMessage(Conversation[i])})

textsOf(messages) == {messages[i].text : i \in DOMAIN messages}

setRole(use) == IF use.tool \in {"handover_tool", "set_task_status"} THEN "assistant" ELSE "system"
isUserInputRequest(use) == use.tool = "get_user_input"

toMessage(use) == [content |-> use.text, role |-> setRole(use), highlight |-> isUserInputRequest(use)]

\* Of the messages to highlight only the last one is.
lastHighlighted(messages) ==
  [i \in DOMAIN messages |-> [messages[i] EXCEPT
     !.highlight = @ /\ \A j \in DOMAIN messages : messages[j].highlight => j <= i]]

\* Mutant: the messages of every checkpoint are added.
allMessages(known, messages) == messages
newMessages(known, messages) ==
  only(messages, {i \in DOMAIN messages : messages[i].text \notin known})

-----------------------------------------------------------------------------
\* workflowCheckpoint and workflowStatus arrive.  What is new in the checkpoint is
\* decided by the texts of the one before; a status that changed ends the wait of
\* the buttons.
Take(checkpoint, status) ==
  LET messages == getChatMessages(checkpoint) IN
  /\ shownChat' = [checkpoint |-> checkpoint, status |-> status, known |-> textsOf(messages),
       messages |-> lastHighlighted(shownChat.messages \o
         [i \in DOMAIN newMessages(shownChat.known, messages) |->
            toMessage(newMessages(shownChat.known, messages)[i])]),
       older |-> shownChat.older \/ checkpoint < shownChat.checkpoint]
  /\ buttons' = [buttons EXCEPT !.event = IF status = shownChat.status THEN @ ELSE "none"]

\* The query reads the events of the workflow, the plugin subscribes unless it is
\* finished, and the answer is sent.
Query ==
  /\ feed.stage = "querying"
  /\ feed' = [stage |-> IF execution.status = "FINISHED" THEN "answering" ELSE "subscribing",
              found |-> execution.made, status |-> execution.status]
  /\ UNCHANGED <<execution, shownChat, buttons>>

SubscribeToUpdates ==
  /\ feed.stage = "subscribing" /\ feed' = [feed EXCEPT !.stage = "subscribed"]
  /\ UNCHANGED <<execution, shownChat, buttons>>

subscribed == feed.stage \in {"subscribed", "following"}

WorkflowArrives ==
  /\ feed.stage \in {"answering", "subscribed"}
  /\ feed' = [feed EXCEPT !.stage = IF @ = "subscribed" THEN "following" ELSE "over"]
  /\ Take(feed.found, feed.status)
  /\ UNCHANGED execution

\* The executor goes on: another tool use, or another status.
CheckpointIsMade(more, status) ==
  /\ execution.status \notin Terminated
  /\ execution.made + more <= Len(Conversation)
  /\ more = 0 => status # execution.status
  /\ execution' = [made |-> execution.made + more, status |-> status]
  /\ IF subscribed THEN Take(execution.made + more, status) ELSE UNCHANGED <<shownChat, buttons>>
  /\ UNCHANGED feed

-----------------------------------------------------------------------------
(* The user.                                                               *)

togglePauseEvent == IF shownChat.status = "PAUSED" THEN "resume" ELSE "pause"

enableActionButtons ==
  /\ shownChat.status \notin Terminated \cup {"", "CREATED"}
  /\ buttons.event \notin {"stop", togglePauseEvent}

send(event) ==
  /\ buttons.sent < MaxInputs /\ buttons' = [event |-> event, sent |-> buttons.sent + 1]
  /\ UNCHANGED <<execution, feed, shownChat>>

StopWorkflow == enableActionButtons /\ send("stop")
TogglePause == enableActionButtons /\ send(togglePauseEvent)

\* The chat's own Resume does not ask whether the buttons are enabled.
ChatResume == shownChat.status = "PAUSED" /\ send(togglePauseEvent)

\* Every message of the user is sent as one; no message asks any more.
OnChatSend ==
  /\ shownChat.status \notin Terminated /\ buttons.sent < MaxInputs
  /\ shownChat' = [shownChat EXCEPT !.messages =
       Append([i \in DOMAIN @ |-> [@[i] EXCEPT !.highlight = FALSE]],
              [content |-> "user's", role |-> "user", highlight |-> FALSE])]
  /\ buttons' = [buttons EXCEPT !.sent = @ + 1]
  /\ UNCHANGED <<execution, feed>>

WorkflowChatNext ==
  \/ Query \/ SubscribeToUpdates \/ WorkflowArrives
  \/ \E more \in 0..1, status \in Statuses : CheckpointIsMade(more, status)
  \/ StopWorkflow \/ TogglePause \/ ChatResume \/ OnChatSend

WorkflowChatSpec == WorkflowChatInit /\ [][WorkflowChatNext]_chatPageVars

-----------------------------------------------------------------------------
timesSaid(text, uses) == Cardinality({i \in DOMAIN uses : uses[i].text = text})
timesShown(text, messages) ==
  Cardinality({i \in DOMAIN messages : messages[i].content = text /\ messages[i].role # "user"})

\* The chat shows every text of the checkpoint on the page, and none more often
\* than the workflow has said it, although a checkpoint is compared with the one
\* before only.  Unless the answer of the query arrived after a newer checkpoint:
\* what that one had is shown again with the next.
ChatFollowsTheWorkflow ==
  LET said == getChatMessages(shownChat.checkpoint) IN
  \A text \in textsOf(said) :
    LET shown == timesShown(text, shownChat.messages)
    IN  shown > 0 /\ (shown <= timesSaid(text, said) \/ shownChat.older)

=============================================================================
