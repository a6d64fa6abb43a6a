------------------------------ MODULE DuoChat ------------------------------
(***************************************************************************)
(* One chat page of the duo-chat-v2 plugin: the controller the plugin      *)
(* builds for the page's webview instance (chat_controller.ts), the chat   *)
(* API it talks to (khulnasoft_chat_api.ts: the action mutation, the cable *)
(* subscription, the polling fallback) and the page itself (App.vue).      *)
(*                                                                         *)
(* A prompt subscribes to its answers first, sends the mutation next and   *)
(* adds its two records, the question and the pending answer, when the     *)
(* mutation returns; updates that come over the cable look their record up *)
(* in the history.  The instance's messages reach the page in order and at *)
(* once, or are lost when the page has not yet registered its handlers;    *)
(* WebviewRuntime models the way they travel.                              *)
(***************************************************************************)
EXTENDS Integers, FiniteSets, Sequences, SequencesExt

CONSTANTS
  Prompts,      \* the prompts the user and the extension may send
  ContextItems, \* the context items the user may select
  MaxChunks,    \* bound: the chunks of one streamed answer
  MaxClears,    \* bound: the times the user clears the chat
  MaxCancels,   \* bound: the prompts the user cancels
  MaxHydrations,\* bound: the records whose context item the user opens
  NoRequestId   \* the request id of a record the server gave none

\* The request id of a record is the one of its prompt, or undefined.
ASSUME NoRequestIsNoPrompt == NoRequestId \notin Prompts

VARIABLES
  kind,       \* [Prompts -> where the prompt comes from and what it asks]
  stage,      \* [Prompts -> how far processNewUserRecord is]
  cable,      \* [Prompts -> the cable of the prompt's subscription]
  fullSeen,   \* [Prompts -> fullMessageReceived of the subscription]
  stream,     \* [Prompts -> the messages the server has still to send]
  answering,  \* the prompts the server accepted
  polls,      \* the records whose pull is in flight
  clearing,   \* a clearChat mutation is in flight
  clears,     \* how often the user cleared the chat
  history,    \* chatHistory of the controller
  canceled,   \* #canceledPromptRequestIds
  selected,   \* what the context manager holds as selected
  restoring,  \* the appReady handler has not sent the history yet
  page,       \* what the page shows
  displaced   \* the page was sent an update of a record it did not show

chatVars == <<kind, stage, cable, fullSeen, stream, answering, polls, clearing,
              clears, history, canceled, selected, restoring, page, displaced>>

-----------------------------------------------------------------------------
(* Records and the page's messages.                                        *)

User(p) == <<"user", p>>
Assistant(p) == <<"assistant", p>>

\* What a record or a message holds: nothing, the chunk with this id, or (there
\* is no chunk id) the full text.
NoContent == -1
FullText == 0

\* A record as the constructor leaves it.
NewRecord(id, request, state, content) ==
  [id |-> id, request |-> request, state |-> state, content |-> content,
   hydrated |-> FALSE]

IsShown(records, id) == \E i \in DOMAIN records : records[i].id = id

FirstIndex(records, id) ==
  CHOOSE i \in DOMAIN records :
    records[i].id = id /\ \A j \in 1..(i - 1) : records[j].id # id

\* #findRecord: by request id and role.
FindRecord(request, role) ==
  {i \in DOMAIN history :
     history[i].request = request /\ history[i].id[1] = role}

\* App.vue newRecord, updateRecord and clearChat; nothing is heard before
\* created() has registered the handlers. An update of a record the page does
\* not show has index -1, and splice(-1, 1, record) replaces the last message.
PageAdds(p, records) ==
  IF p.listening THEN [p EXCEPT !.messages = @ \o records] ELSE p

PageUpdates(p, record) ==
  IF ~p.listening THEN p
  ELSE [p EXCEPT !.messages =
          IF IsShown(@, record.id)
          THEN [@ EXCEPT ![FirstIndex(@, record.id)] = record]
          ELSE IF @ = <<>> THEN <<record>>
          ELSE [@ EXCEPT ![Len(@)] = record]]

PageClears(p) == IF p.listening THEN [p EXCEPT !.messages = <<>>] ELSE p

\* contextCurrentItemsResult
PageSelects(p, items) ==
  IF p.listening THEN [p EXCEPT !.selections = items] ELSE p

\* The update notification of the record with this id.
SendUpdate(record) ==
  /\ page' = PageUpdates(page, record)
  /\ displaced' = (displaced \/ (page.listening /\ ~IsShown(page.messages, record.id)))

-----------------------------------------------------------------------------
ChatInit ==
  /\ kind \in [Prompts -> {"page", "extension", "reset"}]
  /\ stage = [p \in Prompts |-> "idle"]
  /\ cable = [p \in Prompts |-> "none"]
  /\ fullSeen = [p \in Prompts |-> FALSE]
  /\ stream = [p \in Prompts |-> {}]
  /\ answering = {}
  /\ polls = {}
  /\ clearing = FALSE
  /\ clears = 0
  /\ history = <<>>
  /\ canceled = {}
  /\ selected = {}
  /\ restoring = FALSE
  /\ page = [listening |-> FALSE, messages |-> <<>>, selections |-> {},
             asked |-> {}]
  /\ displaced = FALSE

(***************************************************************************)
(* The page's created(): it registers its handlers and sends appReady; the *)
(* controller refreshes the categories and the selection, and then sends   *)
(* every record of the history.                                            *)
(***************************************************************************)
AppReady ==
  /\ ~page.listening
  /\ page' = [page EXCEPT !.listening = TRUE, !.selections = selected]
  /\ restoring' = TRUE
  /\ UNCHANGED <<kind, clears, stage, cable, fullSeen, stream, answering, polls, clearing,
                 history, canceled, selected, displaced>>

RestoreHistory ==
  /\ restoring
  /\ restoring' = FALSE
  /\ page' = PageSelects(PageAdds(page, history), selected)
  /\ UNCHANGED <<kind, clears, stage, cable, fullSeen, stream, answering, polls, clearing,
                 history, canceled, selected, displaced>>

(***************************************************************************)
(* A prompt typed in the page, or sent by the extension's command: the     *)
(* handler awaits the current file and the context items.                  *)
(***************************************************************************)
CanAsk(p) == kind[p] = "extension" \/ page.listening

NewPrompt(p) ==
  /\ stage[p] = "idle" /\ CanAsk(p)
  /\ stage' = [stage EXCEPT ![p] = "context"]
  /\ UNCHANGED <<kind, clears, cable, fullSeen, stream, answering, polls, clearing, history,
                 canceled, selected, restoring, page, displaced>>

ClearSelectedContextItems == selected' = {} /\ page' = PageSelects(page, {})

\* The record is built. A prompt of the page also clears the selected items
\* (a failure is only logged) while processNewUserRecord subscribes.
BuildRecord(p) ==
  /\ stage[p] = "context"
  /\ stage' = [stage EXCEPT ![p] = "subscribing"]
  /\ \/ kind[p] # "extension" /\ ClearSelectedContextItems
     \/ UNCHANGED <<selected, page>>
  /\ UNCHANGED <<kind, clears, cable, fullSeen, stream, answering, polls, clearing, history,
                 canceled, restoring, displaced>>

\* #subscribeToUpdates: the cable connects, or fails, or there is no user id.
Subscribe(p) ==
  /\ stage[p] = "subscribing"
  /\ stage' = [stage EXCEPT ![p] = "sending"]
  /\ \E connected \in {"open", "failed"} : cable' = [cable EXCEPT ![p] = connected]
  /\ UNCHANGED <<kind, clears, fullSeen, stream, answering, polls, clearing, history,
                 canceled, selected, restoring, page, displaced>>

\* The server takes the mutation and starts to answer; to a /reset it only
\* answers the mutation.
ServerAccepts(p) ==
  /\ stage[p] = "sending"
  /\ p \notin answering
  /\ answering' = answering \cup {p}
  /\ stream' = [stream EXCEPT ![p] =
                   IF kind[p] = "reset" THEN {} ELSE {FullText} \cup (1..MaxChunks)]
  /\ UNCHANGED <<kind, clears, stage, cable, fullSeen, polls, clearing, history, canceled,
                 selected, restoring, page, displaced>>

Disconnected(p) == [cable EXCEPT ![p] = IF @ = "open" THEN "closed" ELSE @]

\* No action response: the cable is dropped and nothing joins the history.
ActionFails(p) ==
  /\ stage[p] = "sending"
  /\ stage' = [stage EXCEPT ![p] = "failed"]
  /\ cable' = Disconnected(p)
  /\ UNCHANGED <<kind, clears, fullSeen, stream, answering, polls, clearing, history,
                 canceled, selected, restoring, page, displaced>>

\* The mutation returns. Without a request id (the answer holds errors) the
\* records are added all the same. A newConversation has no answer record;
\* the fallback pulls both records when the subscription failed.
ActionReturns(p) ==
  /\ stage[p] = "sending"
  /\ stage' = [stage EXCEPT ![p] = "done"]
  /\ LET request == IF p \in answering THEN p ELSE NoRequestId
         question == NewRecord(User(p), request, "ready", FullText)
         answer == NewRecord(Assistant(p), request, "pending", NoContent)
         added == IF kind[p] = "reset" THEN <<question>> ELSE <<question, answer>>
     IN /\ history' = history \o added
        /\ page' = PageAdds(page, added)
        /\ polls' = IF cable[p] = "failed" /\ kind[p] # "reset" /\ request # NoRequestId
                    THEN polls \cup {question.id, answer.id}
                    ELSE polls
  /\ UNCHANGED <<kind, clears, cable, fullSeen, stream, answering, clearing, canceled,
                 selected, restoring, displaced>>

(***************************************************************************)
(* A message of the server arrives over the cable, in any order; a chunk   *)
(* can be on its way when the cable is disconnected.                       *)
(***************************************************************************)
\* #subscriptionUpdateHandler: an update that finds no record is dropped.
UpdateRecord(p, content) ==
  LET found == FindRecord(p, "assistant")
  IN IF found = {}
     THEN UNCHANGED <<history, page, displaced>>
     ELSE LET i == CHOOSE j \in found : \A k \in found : j <= k
              record == [history[i] EXCEPT !.content = content, !.state = "ready"]
          IN history' = [history EXCEPT ![i] = record] /\ SendUpdate(record)

ReceiveChunk(p, k) ==
  /\ cable[p] \in {"open", "closed"}
  /\ k \in stream[p] \cap (1..MaxChunks)
  /\ stream' = [stream EXCEPT ![p] = @ \ {k}]
  /\ IF fullSeen[p] \/ p \in canceled
     THEN UNCHANGED <<history, page, displaced>>
     ELSE UpdateRecord(p, k)
  /\ UNCHANGED <<kind, clears, stage, cable, fullSeen, answering, polls, clearing, canceled,
                 selected, restoring>>

\* Mutant: the full message is one update among others.
noteFull(p) == UNCHANGED fullSeen
seenFull(p) == fullSeen' = [fullSeen EXCEPT ![p] = TRUE]

\* The full message: whether the prompt was cancelled or not, the cable is
\* disconnected after it.
ReceiveFull(p) ==
  /\ cable[p] = "open"
  /\ FullText \in stream[p]
  /\ stream' = [stream EXCEPT ![p] = @ \ {FullText}]
  /\ seenFull(p)
  /\ cable' = Disconnected(p)
  /\ IF p \in canceled
     THEN UNCHANGED <<history, page, displaced>>
     ELSE UpdateRecord(p, FullText)
  /\ UNCHANGED <<kind, clears, stage, answering, polls, clearing, canceled, selected,
                 restoring>>

\* #refreshRecord: the record pulled over https, or the timeout of the retries,
\* or a failed request, which leaves the record as it is. The record is updated
\* whether it still is in the history or not.
PulledContents(id) == {FullText} \cup (IF id[1] = "user" THEN {} ELSE {NoContent})

Refreshed(id, content) ==
  LET record == NewRecord(id, id[2], "ready", content)
  IN /\ history' = [i \in DOMAIN history |->
                      IF history[i].id = id THEN record ELSE history[i]]
     /\ SendUpdate(record)

RefreshRecord(id) ==
  /\ id \in polls
  /\ polls' = polls \ {id}
  /\ \/ UNCHANGED <<history, page, displaced>>
     \/ \E content \in PulledContents(id) : Refreshed(id, content)
  /\ UNCHANGED <<kind, clears, stage, cable, fullSeen, stream, answering, clearing, canceled,
                 selected, restoring>>

(***************************************************************************)
(* Cancelling. The page wraps the request id of its last message in a      *)
(* record; the handler reads it from the message itself.                   *)
(***************************************************************************)
CancelMessage(request) == [record |-> [canceledPromptRequestId |-> request]]

CanceledPromptRequestId(message) ==
  IF "canceledPromptRequestId" \in DOMAIN message
  THEN message.canceledPromptRequestId
  ELSE NoRequestId

CancelPrompt ==
  /\ page.messages # <<>>
  /\ Cardinality(page.asked) < MaxCancels
  /\ LET request == page.messages[Len(page.messages)].request
     IN /\ canceled' = canceled \cup
             {CanceledPromptRequestId(CancelMessage(request))}
        /\ page' = [page EXCEPT !.asked = @ \cup {request}]
  /\ UNCHANGED <<kind, clears, stage, cable, fullSeen, stream, answering, polls, clearing,
                 history, selected, restoring, displaced>>

(***************************************************************************)
(* Clearing: the history and the page are emptied when the mutation has    *)
(* succeeded; after an error both stay.                                    *)
(***************************************************************************)
ClearChat ==
  /\ page.listening
  /\ ~clearing
  /\ clears < MaxClears
  /\ clearing' = TRUE
  /\ clears' = clears + 1
  /\ ClearSelectedContextItems
  /\ UNCHANGED <<kind, stage, cable, fullSeen, stream, answering, polls, history,
                 canceled, restoring, displaced>>

\* Mutant: the controller keeps its records.
forgetNothing == UNCHANGED history
forgetHistory == history' = <<>>

ChatCleared ==
  /\ clearing
  /\ clearing' = FALSE
  /\ \/ forgetHistory /\ page' = PageClears(page)
     \/ UNCHANGED <<history, page>>
  /\ UNCHANGED <<kind, clears, stage, cable, fullSeen, stream, answering, polls, canceled,
                 selected, restoring, displaced>>

(***************************************************************************)
(* Context items of the page: each change is followed by a refresh of what *)
(* the page shows as selected.                                             *)
(***************************************************************************)
AddContextItem(c) ==
  /\ page.listening
  /\ c \notin selected
  /\ selected' = selected \cup {c}
  /\ page' = PageSelects(page, selected')
  /\ UNCHANGED <<kind, clears, stage, cable, fullSeen, stream, answering, polls, clearing,
                 history, canceled, restoring, displaced>>

RemoveContextItem(c) ==
  /\ c \in page.selections
  /\ selected' = selected \ {c}
  /\ page' = PageSelects(page, selected')
  /\ UNCHANGED <<kind, clears, stage, cable, fullSeen, stream, answering, polls, clearing,
                 history, canceled, restoring, displaced>>

\* #getContextItemContent for an item of an existing message: the record gets
\* the content and is sent as a new record, which the page adds once more.
GetContextItemContent(i) ==
  /\ i \in DOMAIN page.messages
  /\ Cardinality({j \in DOMAIN history : history[j].hydrated}) < MaxHydrations
  /\ \E j \in DOMAIN history :
       /\ history[j].id = page.messages[i].id
       /\ ~history[j].hydrated
       /\ history' = [history EXCEPT ![j].hydrated = TRUE]
       /\ page' = PageAdds(page, <<history'[j]>>)
  /\ UNCHANGED <<kind, clears, stage, cable, fullSeen, stream, answering, polls, clearing,
                 canceled, selected, restoring, displaced>>

-----------------------------------------------------------------------------
ChatNext ==
  \/ AppReady \/ RestoreHistory \/ CancelPrompt \/ ClearChat \/ ChatCleared
  \/ \E p \in Prompts :
       \/ NewPrompt(p) \/ BuildRecord(p) \/ Subscribe(p) \/ ServerAccepts(p)
       \/ ActionFails(p) \/ ActionReturns(p) \/ ReceiveFull(p)
       \/ \E k \in 1..MaxChunks : ReceiveChunk(p, k)
       \/ RefreshRecord(User(p)) \/ RefreshRecord(Assistant(p))
  \/ \E c \in ContextItems : AddContextItem(c) \/ RemoveContextItem(c)
  \/ \E i \in 1..(2 * Cardinality(Prompts)) : GetContextItemContent(i)

ChatSpec == ChatInit /\ [][ChatNext]_chatVars

-----------------------------------------------------------------------------
\* A page that listens and has been sent the history shows every record of the
\* history as the controller holds it (in its first copy: a record can be there
\* twice), shows nothing else, and shows the selection of the context manager;
\* unless it was sent an update of a record it did not show.
PageShowsHistory ==
  (page.listening /\ ~restoring) =>
    /\ page.selections = selected
    /\ ~displaced =>
         /\ \A i \in DOMAIN history :
              /\ IsShown(page.messages, history[i].id)
              /\ LET shown == page.messages[FirstIndex(page.messages, history[i].id)]
                 IN shown.content = history[i].content /\ shown.state = history[i].state
         /\ \A i \in DOMAIN page.messages : IsShown(history, page.messages[i].id)

\* The full text of an answer is never replaced by one of its chunks, in
\* whatever order they arrive.
AnswerIsFinal ==
  [][\A i \in DOMAIN history :
       (/\ history[i].content = FullText
        /\ i \in DOMAIN history'
        /\ history'[i].id = history[i].id)
       => history'[i].content = FullText]_chatVars

\* A prompt the user cancelled shows no further content.
CancelledStaysSilent ==
  [][\A p \in page.asked \cap Prompts :
       \A i \in FindRecord(p, "assistant") :
         (i \in DOMAIN history' /\ history'[i].id = history[i].id) =>
           history'[i].content = history[i].content]_chatVars
=============================================================================
