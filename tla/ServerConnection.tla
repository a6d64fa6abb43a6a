--------------------------- MODULE ServerConnection ---------------------------
(***************************************************************************)
(* How the server starts and what it answers meanwhile (src/node/main.ts,  *)
(* setup_http.ts, http/, webview/; src/common/connection_service.ts and    *)
(* the handlers it registers).                                             *)
(*                                                                         *)
(* main listens to its client as soon as the container is built, then      *)
(* waits for the HTTP server that delivers the webviews, and connects the  *)
(* transports and the plugins last.  The handlers of the connection are    *)
(* registered by the ConnectionService; its notifiers, and the handler of  *)
(* workspace folders, only when the client says it is initialized.  The    *)
(* client keeps to the protocol: it initializes first, and opens webviews  *)
(* only with an address that it got from the server's metadata.            *)
(*                                                                         *)
(* What the code does and no property here claims: metadata asked for too  *)
(* early have no addresses, and nothing tells the client to ask again; if  *)
(* the HTTP server fails the rest of the server goes on; only the part of  *)
(* a configuration about code suggestions is validated.                    *)
(***************************************************************************)
EXTENDS Integers, Sequences, FiniteSets

CONSTANTS MaxInbox, MaxSent   \* bounds: messages on their way, and in all

VARIABLES
  main,        \* what main waits for: "fetch", "http", "started", "failed" or "stopped"
  httpServer,  \* the HTTP server: whether it listens, and its address is registered
  transports,  \* transports that a mediator listens to
  handlers,    \* notifications and requests that have a handler
  notifiers,   \* whether the notifiers got the connection
  client,      \* how far its initialization is, and the metadata it has
  inbox, spoken, \* messages on their way to the server; how many it sent
  checks,      \* token checks at work
  webviews,      \* webviews: where the page is, and how it connects
  unheard      \* messages and events that found nobody

connectionVars == <<main, httpServer, transports, handlers, notifiers, client, inbox, spoken,
                    checks, webviews, unheard>>

\* The handlers of main and of the ConnectionService, its diagnostics publisher included.
ContextRequests == {"context"}
DocumentMessages == {"completion", "document", "scan"}
ClientMessages == {"initialize", "configuration", "theme", "telemetry", "validate", "workflow"}
MainMessages == {"metadata", "webview created"}
Registered == ContextRequests \cup DocumentMessages \cup ClientMessages \cup MainMessages

ConnectionInit ==
  /\ main = "fetch" /\ httpServer = [listens |-> FALSE, address |-> FALSE]
  /\ transports = {} /\ handlers = {} /\ notifiers = FALSE
  /\ client = [state |-> "new", metadata |-> "none"] /\ inbox = <<>> /\ spoken = 0
  /\ checks = 0 /\ webviews = [t \in {"socket", "rpc"} |-> "closed"] /\ unheard = {}

-----------------------------------------------------------------------------
(* The start.                                                              *)

\* The proxy settings have been read: main goes on to the HTTP server.  What
\* the client has sent before is still there.
ServerListens ==
  /\ main = "fetch" /\ main' = "http"
  /\ handlers' = Registered \cup {"initialized"}
  /\ UNCHANGED <<httpServer, transports, notifiers, client, inbox, spoken, checks, webviews,
                 unheard>>

\* Mutant: the address is registered as soon as the server has one.
listensWithAddress(h) == [listens |-> TRUE, address |-> TRUE]

\* createFastifyHttpServer, up to server.ready().
listens(h) == [h EXCEPT !.listens = TRUE]

HttpListens ==
  /\ main = "http" /\ ~httpServer.listens
  /\ httpServer' = listens(httpServer)
  /\ UNCHANGED <<main, transports, handlers, notifiers, client, inbox, spoken, checks, webviews,
                 unheard>>

\* A plugin or the port: main() rejects, and only says so.
HttpFails ==
  /\ main = "http" /\ main' = "failed"
  /\ UNCHANGED <<httpServer, transports, handlers, notifiers, client, inbox, spoken, checks,
                 webviews, unheard>>

\* The rest of setupHttp and of main has no await that a message could come in.
ServerStarts ==
  /\ main = "http" /\ httpServer.listens
  /\ main' = "started" /\ httpServer' = [httpServer EXCEPT !.address = TRUE]
  /\ transports' = {"socket", "rpc"}
  /\ UNCHANGED <<handlers, notifiers, client, inbox, spoken, checks, webviews,
                 unheard>>

\* handleGracefulShutdown closes sockets and server, and exits.
Shutdown ==
  /\ main = "started" /\ main' = "stopped"
  /\ httpServer' = [listens |-> FALSE, address |-> FALSE] /\ transports' = {}
  /\ webviews' = [t \in DOMAIN webviews |-> IF webviews[t] = "closed" THEN "closed" ELSE "gone"]
  /\ inbox' = <<>> /\ checks' = 0
  /\ UNCHANGED <<handlers, notifiers, client, spoken, unheard>>

-----------------------------------------------------------------------------
(* The client.                                                             *)

sends(message) ==
  /\ spoken < MaxSent /\ Len(inbox) < MaxInbox /\ main # "stopped"
  /\ inbox' = Append(inbox, message) /\ spoken' = spoken + 1
  /\ UNCHANGED <<main, httpServer, transports, handlers, notifiers, checks, unheard>>

\* An initialize request, and once it is answered a notification.
ClientInitializes ==
  \/ /\ client.state = "new" /\ sends("initialize")
     /\ client' = [client EXCEPT !.state = "asking"] /\ UNCHANGED webviews
  \/ /\ client.state = "answered" /\ sends("initialized")
     /\ client' = [client EXCEPT !.state = "ready"] /\ UNCHANGED webviews

ClientSends(message) ==
  /\ client.state = "ready" /\ sends(message) /\ UNCHANGED <<client, webviews>>

\* The page is in the editor, with JSON-RPC, or in a browser.
ClientOpens(transport) ==
  /\ client.metadata = "addresses" /\ webviews[transport] = "closed"
  /\ webviews' = [webviews EXCEPT ![transport] = "loading"]
  /\ UNCHANGED <<main, httpServer, transports, handlers, notifiers, client, inbox, spoken, checks,
                 unheard>>

-----------------------------------------------------------------------------
(* The handlers.                                                           *)

\* onInitialized hands the connection to the notifiers and registers a handler.
initializeNotifiers(message) ==
  /\ handlers' = IF message = "initialized" THEN handlers \cup {"folders"} ELSE handlers
  /\ notifiers' = (notifiers \/ message = "initialized")

\* A configuration that is valid may have another token, which is then checked.
configures(message) ==
  \/ message = "configuration" /\ checks < 1 /\ checks' = checks + 1
  \/ UNCHANGED checks

resolveUris == IF httpServer.address THEN "addresses" ELSE "empty"

\* The client of a request gets its answer.
answers(message) ==
  client' = CASE message = "initialize" -> [client EXCEPT !.state = "answered"]
              [] message = "metadata" -> [client EXCEPT !.metadata = resolveUris]
              [] OTHER -> client

Dispatch ==
  /\ main \notin {"fetch", "stopped"} /\ inbox # <<>> /\ inbox' = Tail(inbox)
  /\ LET message == Head(inbox) IN
     /\ initializeNotifiers(message) /\ configures(message) /\ answers(message)
     /\ unheard' = unheard \cup
          IF message \notin handlers \/ (message = "webview created" /\ "rpc" \notin transports)
          THEN {message} ELSE {}
     /\ webviews' = IF message = "webview created" /\ "rpc" \in transports
                  THEN [webviews EXCEPT !["rpc"] = "connected"] ELSE webviews
  /\ UNCHANGED <<main, httpServer, transports, spoken>>

\* The client is told of an invalid token through a notifier.
TokenChecked(valid) ==
  /\ checks > 0 /\ checks' = checks - 1
  /\ unheard' = unheard \cup IF ~valid /\ ~notifiers THEN {"token check"} ELSE {}
  /\ UNCHANGED <<main, httpServer, transports, handlers, notifiers, client, inbox, spoken,
                 webviews>>

\* The route redirects to the page, which is served with its scripts if it can be read.
PageIsServed(transport, readable) ==
  /\ webviews[transport] = "loading" /\ httpServer.listens
  /\ IF readable
     THEN webviews' = [webviews EXCEPT ![transport] = "loaded"]
     ELSE webviews' = [webviews EXCEPT ![transport] = "closed"]
  /\ UNCHANGED <<main, httpServer, transports, handlers, notifiers, client, inbox, spoken, checks,
                 unheard>>

\* A page in the browser connects its socket; the client speaks for the other.
PageConnects(transport) ==
  /\ webviews[transport] = "loaded"
  /\ webviews' = [webviews EXCEPT ![transport] = IF transport = "socket" THEN "connected"
                                             ELSE "announced"]
  /\ IF transport = "rpc"
     THEN sends("webview created") /\ UNCHANGED client
     ELSE /\ unheard' = unheard \cup IF "socket" \notin transports THEN {"socket"} ELSE {}
          /\ UNCHANGED <<main, httpServer, transports, handlers, notifiers, client, inbox, spoken,
                         checks>>

ConnectionNext ==
  \/ ServerListens \/ HttpListens \/ HttpFails \/ ServerStarts \/ Shutdown
  \/ ClientInitializes
  \/ \E message \in (Registered \ {"initialize", "webview created"}) \cup {"folders"} :
       ClientSends(message)
  \/ \E transport \in DOMAIN webviews :
       \/ ClientOpens(transport) \/ PageConnects(transport)
       \/ \E readable \in BOOLEAN : PageIsServed(transport, readable)
  \/ Dispatch \/ \E valid \in BOOLEAN : TokenChecked(valid)
ConnectionSpec == ConnectionInit /\ [][ConnectionNext]_connectionVars

-----------------------------------------------------------------------------
\* However early a client that keeps to the protocol speaks, and however long
\* the HTTP server takes: no notification, event or page finds nobody.
NothingIsUnheard == unheard = {}
=============================================================================
