--------------------------- MODULE DuoChatPolling ---------------------------
(***************************************************************************)
(* One chat page of the duo-chat plugin (its first version): the           *)
(* controller of the page's webview instance, the chat API over the        *)
(* platform of the first account with chat support, and the page.          *)
(*                                                                         *)
(* A prompt sends the mutation first, adds its two records, subscribes to  *)
(* the updates of the answer and then always pulls both records: what the  *)
(* cable brings and what the pulls bring race.                             *)
(***************************************************************************)
EXTENDS Integers, Sequences

CONSTANTS
  Questions,      \* the prompts the user and the extension may send
  AnswerChunks    \* bound: the chunks of one streamed answer

VARIABLES
  asking,    \* [Questions -> how far #processNewUserRecord is]
  socket,    \* [Questions -> the cable of the answer's subscription]
  whole,     \* [Questions -> fullMessageReceived of the subscription]
  unsent,    \* [Questions -> the messages the server has still to send]
  pulls,     \* the records whose pull is in flight
  abandoned, \* the records whose pull was rejected
  records,   \* chatHistory
  shown      \* the page's chatMessages

pollingVars == <<asking, socket, whole, unsent, pulls, abandoned, records, shown>>

Question(p) == <<"user", p>>
Answer(p) == <<"assistant", p>>

\* No content yet, or the full text (no chunk id); a chunk is its id.
Empty == -1
Whole == 0

PollingInit ==
  /\ asking = [p \in Questions |-> "idle"]
  /\ socket = [p \in Questions |-> "none"]
  /\ whole = [p \in Questions |-> FALSE]
  /\ unsent = [p \in Questions |-> {}]
  /\ pulls = {}
  /\ abandoned = {}
  /\ records = <<>>
  /\ shown = <<>>

\* updateRecord of the page: every record it is sent an update of was added.
Updated(messages, record) ==
  [i \in DOMAIN messages |-> IF messages[i].id = record.id THEN record ELSE messages[i]]

\* A prompt of the page, or of the extension, awaits the current file.
Ask(p) ==
  /\ asking[p] = "idle"
  /\ asking' = [asking EXCEPT ![p] = "sending"]
  /\ UNCHANGED <<socket, whole, unsent, pulls, abandoned, records, shown>>

(***************************************************************************)
(* #sendNewPrompt. It fails: the error is shown and the prompt is not      *)
(* added (or, when the error has another form than the handler expects,    *)
(* the prompt is dropped without a word).                                  *)
(***************************************************************************)
PromptRefused(p) ==
  /\ asking[p] = "sending"
  /\ asking' = [asking EXCEPT ![p] = "failed"]
  /\ UNCHANGED <<socket, whole, unsent, pulls, abandoned, records, shown>>

\* The server took the prompt. A newConversation adds the question only.
PromptSent(p) ==
  /\ asking[p] = "sending"
  /\ \E reset \in BOOLEAN :
       LET question == [id |-> Question(p), state |-> "ready", content |-> Whole]
           answer == [id |-> Answer(p), state |-> "pending", content |-> Empty]
           added == IF reset THEN <<question>> ELSE <<question, answer>>
       IN /\ records' = records \o added
          /\ shown' = shown \o added
          /\ asking' = [asking EXCEPT ![p] = IF reset THEN "done" ELSE "subscribing"]
          /\ unsent' = [unsent EXCEPT ![p] =
                          IF reset THEN {} ELSE {Whole} \cup (1..AnswerChunks)]
  /\ UNCHANGED <<socket, whole, pulls, abandoned>>

\* subscribeToUpdates; a failure is only logged. Both records are pulled.
SubscribeAndPull(p) ==
  /\ asking[p] = "subscribing"
  /\ asking' = [asking EXCEPT ![p] = "done"]
  /\ \E connected \in {"open", "failed"} : socket' = [socket EXCEPT ![p] = connected]
  /\ pulls' = pulls \cup {Question(p), Answer(p)}
  /\ UNCHANGED <<whole, unsent, abandoned, records, shown>>

\* A message nobody is subscribed to.
MessageLost(p) ==
  /\ socket[p] \in {"none", "failed"}
  /\ \E k \in unsent[p] : unsent' = [unsent EXCEPT ![p] = @ \ {k}]
  /\ UNCHANGED <<asking, socket, whole, pulls, abandoned, records, shown>>

(***************************************************************************)
(* #subscriptionUpdateHandler, for a chunk and for the full message, which *)
(* disconnects the cable; a chunk can still be on its way then.            *)
(***************************************************************************)
Show(p, content) ==
  LET record == [id |-> Answer(p), state |-> "ready", content |-> content]
  IN records' = Updated(records, record) /\ shown' = Updated(shown, record)

Chunk(p, k) ==
  /\ socket[p] \in {"open", "closed"}
  /\ k \in unsent[p] \ {Whole}
  /\ unsent' = [unsent EXCEPT ![p] = @ \ {k}]
  /\ IF whole[p] THEN UNCHANGED <<records, shown>> ELSE Show(p, k)
  /\ UNCHANGED <<asking, socket, whole, pulls, abandoned>>

FullMessage(p) ==
  /\ socket[p] = "open"
  /\ Whole \in unsent[p]
  /\ unsent' = [unsent EXCEPT ![p] = @ \ {Whole}]
  /\ whole' = [whole EXCEPT ![p] = TRUE]
  /\ socket' = [socket EXCEPT ![p] = "closed"]
  /\ Show(p, Whole)
  /\ UNCHANGED <<asking, pulls, abandoned>>

(***************************************************************************)
(* #refreshRecord: the message, or, when pullHandler has no retries left,  *)
(* an error on what the record holds; a rejected request leaves it.        *)
(***************************************************************************)
\* Mutant: the record keeps its state.
PulledContent(record, content) == [record EXCEPT !.content = content]
PulledState(record, content) ==
  [record EXCEPT !.content = content, !.state = "ready"]

Pulled(id) ==
  /\ id \in pulls
  /\ pulls' = pulls \ {id}
  /\ \E i \in DOMAIN records :
       /\ records[i].id = id
       /\ \E content \in {Whole, records[i].content} :
            LET record == PulledState(records[i], content)
            IN records' = Updated(records, record) /\ shown' = Updated(shown, record)
  /\ UNCHANGED <<asking, socket, whole, unsent, abandoned>>

PullRejected(id) ==
  /\ id \in pulls
  /\ pulls' = pulls \ {id}
  /\ abandoned' = abandoned \cup {id}
  /\ UNCHANGED <<asking, socket, whole, unsent, records, shown>>

-----------------------------------------------------------------------------
\* What the prompt and its pulls do by themselves.
PromptStep(p) ==
  \/ PromptRefused(p) \/ PromptSent(p) \/ SubscribeAndPull(p)
  \/ \E id \in {Question(p), Answer(p)} : Pulled(id) \/ PullRejected(id)

PollingNext ==
  \E p \in Questions :
    \/ Ask(p) \/ PromptStep(p) \/ MessageLost(p) \/ FullMessage(p)
    \/ \E k \in 1..AnswerChunks : Chunk(p, k)

\* Every request and every retry ends.
PollingFairness == WF_pollingVars(\E p \in Questions : PromptStep(p))

PollingSpec == PollingInit /\ [][PollingNext]_pollingVars /\ PollingFairness

-----------------------------------------------------------------------------
\* An answer does not stay pending, with or without a cable, unless its pull
\* was rejected.
PendingSettles ==
  \A p \in Questions :
    (\E i \in DOMAIN shown : shown[i].id = Answer(p) /\ shown[i].state = "pending")
      ~> \/ Answer(p) \in abandoned
         \/ \E i \in DOMAIN shown : shown[i].id = Answer(p) /\ shown[i].state = "ready"
=============================================================================
