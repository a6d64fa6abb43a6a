--------------------------- MODULE WebviewRuntime ---------------------------
(***************************************************************************)
(* Webview instances, the transports they connect through, and the plugins *)
(* that serve them (packages/lib_webview, its two transports and the       *)
(* client's bus, src/common/webview).                                      *)
(*                                                                         *)
(* A transport tells its mediator of instances and messages; the mediator  *)
(* puts them on the runtime's bus, where the theme service and the         *)
(* controllers of the plugins listen, and hands what they publish for an   *)
(* instance it manages back to the transport.  The bus is synchronous, so  *)
(* a connection, a disconnection and a request are one step on the server; *)
(* messages to a page travel in order.  Of the messages, the theme and the *)
(* requests of both sides are followed.                                    *)
(*                                                                         *)
(* What the code does and no property here claims: registering a plugin    *)
(* again adds a controller and keeps the old one, and neither hears of     *)
(* instances that connected before it; the extension's handlers are kept   *)
(* by plugin and type, so an instance that leaves removes the handler of   *)
(* the one that came after it.                                             *)
(***************************************************************************)
EXTENDS Integers, Sequences, FiniteSets, SequencesExt

CONSTANTS
  Instances,    \* random ids: a reload of a page is another instance
  WebviewOf,    \* the webview, and so the plugin, of an instance
  TransportOf,  \* "socket" or "rpc"
  Themes, DefaultTheme, NoTheme,
  MaxThemes, MaxControllers, MaxRequests   \* bounds

VARIABLES
  mediators,         \* by transport: managed instances, whether it still listens
  controllers,       \* by webview: for each registration, the instances it serves
  registered,        \* plugins in #registeredPlugins
  extensionHandler,  \* by webview: whose handler of the extension's prompts is registered
  theme, themes,     \* ThemeService; how often it changed
  pages,             \* by instance: its state, theme, and whether a plugin was there for it
  wire,              \* by instance: themes on their way
  webRequests        \* requests of pages and plugins

webviewVars == <<mediators, controllers, registered, extensionHandler, theme, themes, pages,
                 wire, webRequests>>

Webviews == {WebviewOf[i] : i \in Instances}
Transports == {"socket", "rpc"}
Nobody == "nobody"

\* Every instance connects through one of the two transports.
ASSUME InstancesAssumption == /\ Nobody \notin Instances
                              /\ \A i \in Instances : TransportOf[i] \in Transports

WebviewInit ==
  /\ mediators = [t \in Transports |-> [managed |-> {}, listening |-> TRUE]]
  /\ controllers = [w \in Webviews |-> <<>>] /\ registered = {}
  /\ extensionHandler = [w \in Webviews |-> Nobody]
  /\ theme = DefaultTheme /\ themes = 0
  /\ pages = [i \in Instances |-> [state |-> "new", theme |-> NoTheme, served |-> FALSE]]
  /\ wire = [i \in Instances |-> <<>>] /\ webRequests = <<>>

mediator(i) == mediators[TransportOf[i]]

\* What a plugin or service publishes for an instance goes to the transport
\* that manages it, which needs a connection; a mediator that was disposed
\* goes on.
reaches(ms, i) == i \in ms[TransportOf[i]].managed

\* Messages that a transport emits as the mediator's events, and those that it
\* publishes: JSON-RPC has a channel for notifications only.
SocketHears == {"notification", "request", "response"}
SocketPublishes == {"notification", "request", "response"}
RpcHears == {"notification"}
RpcPublishes == {"notification"}
hears(i, type) == type \in (IF TransportOf[i] = "socket" THEN SocketHears ELSE RpcHears)
publishes(i, type) ==
  type \in (IF TransportOf[i] = "socket" THEN SocketPublishes ELSE RpcPublishes)

\* The buses of its controllers hear what is addressed to the instance.
hasBus(i) == \E c \in DOMAIN controllers[WebviewOf[i]] : i \in controllers[WebviewOf[i]][c]

sendTheme(w, ms, served, new) ==
  [i \in Instances |-> w[i] \o
     IF reaches(ms, i)
     THEN [k \in 1 .. Cardinality({c \in DOMAIN served[WebviewOf[i]] :
                                      i \in served[WebviewOf[i]][c]}) |-> new]
     ELSE <<>>]

-----------------------------------------------------------------------------
(* Plugins and transports.                                                 *)

\* registerPlugin and #unregisterPlugin; the plugins' setup returns nothing to dispose of.
RegisterPlugin(w) ==
  /\ w \notin registered /\ Len(controllers[w]) < MaxControllers
  /\ registered' = registered \cup {w}
  /\ controllers' = [controllers EXCEPT ![w] = Append(@, {})]
  /\ UNCHANGED <<mediators, extensionHandler, theme, themes, pages, wire, webRequests>>

UnregisterPlugin(w) ==
  /\ w \in registered /\ registered' = registered \ {w}
  /\ UNCHANGED <<mediators, controllers, extensionHandler, theme, themes, pages, wire, webRequests>>

\* The mediator stops to hear the transport; nobody hears of a disconnection.
DisposeTransport(t) ==
  /\ mediators[t].listening
  /\ mediators' = [mediators EXCEPT ![t].listening = FALSE]
  /\ UNCHANGED <<controllers, registered, extensionHandler, theme, themes, pages, wire, webRequests>>

-----------------------------------------------------------------------------
(* Instances.                                                              *)

manage(ms, i) == [ms EXCEPT ![TransportOf[i]].managed = @ \cup {i}]

\* The theme service hears of the instance before any controller does.
greet(w, i, ms) == [w EXCEPT ![i] = IF reaches(ms, i) THEN Append(@, theme) ELSE @]

\* A socket in the namespace of the webview, or the word of the client.
arrives(i) == pages[i].state = "new"

Connect(i) ==
  LET w == WebviewOf[i] IN
  /\ arrives(i)
  /\ IF mediator(i).listening
     THEN /\ mediators' = [mediators EXCEPT ![TransportOf[i]].managed = @ \cup {i}]
          /\ wire' = greet(wire, i, manage(mediators, i))
          /\ controllers' = [controllers EXCEPT ![w] =
               [c \in DOMAIN @ |-> @[c] \cup {i}]]
          /\ extensionHandler' = [extensionHandler EXCEPT ![w] =
               IF controllers[w] = <<>> THEN @ ELSE i]
     ELSE UNCHANGED <<mediators, wire, controllers, extensionHandler>>
  /\ pages' = [pages EXCEPT ![i].state = "open",
                 ![i].served = mediator(i).listening /\ controllers[w] # <<>>]
  /\ UNCHANGED <<registered, theme, themes, webRequests>>

\* Mutant: the controller keeps the bus of the instance.
keepInstance(served, i) == served
dropInstance(served, i) == [c \in DOMAIN served |-> served[c] \ {i}]

\* The disposal of a handler removes whatever is registered under its key.
Disconnect(i) ==
  LET w == WebviewOf[i]
      known == hasBus(i)
  IN  /\ pages[i].state = "open"
      /\ pages' = [pages EXCEPT ![i].state = "closed"]
      /\ wire' = [wire EXCEPT ![i] = <<>>]
      /\ IF mediator(i).listening
         THEN /\ mediators' = [mediators EXCEPT ![TransportOf[i]].managed = @ \ {i}]
              /\ controllers' = [controllers EXCEPT ![w] = dropInstance(@, i)]
              /\ extensionHandler' = [extensionHandler EXCEPT ![w] = IF known THEN Nobody ELSE @]
         ELSE UNCHANGED <<mediators, controllers, extensionHandler>>
      /\ UNCHANGED <<registered, theme, themes, webRequests>>

-----------------------------------------------------------------------------
(* The theme.                                                              *)

\* Every controller broadcasts it to the instances it serves.
ThemeChanges(new) ==
  /\ themes < MaxThemes /\ theme' = new /\ themes' = themes + 1
  /\ wire' = [i \in Instances |->
                IF pages[i].state = "open"
                THEN sendTheme(wire, mediators, controllers, new)[i] ELSE wire[i]]
  /\ UNCHANGED <<mediators, controllers, registered, extensionHandler, pages, webRequests>>

PageGetsTheme(i) ==
  /\ wire[i] # <<>> /\ wire' = [wire EXCEPT ![i] = Tail(@)]
  /\ pages' = [pages EXCEPT ![i].theme = Head(wire[i])]
  /\ UNCHANGED <<mediators, controllers, registered, extensionHandler, theme, themes, webRequests>>

-----------------------------------------------------------------------------
(* Requests.  stage: where the message is; outcome: what the sender got.   *)

Request(from, i, message) ==
  [from |-> from, instance |-> i, message |-> message, stage |-> "sent",
   result |-> "none", outcome |-> "none"]

\* A page asks a plugin through the bus of its socket.
PageRequest(i) ==
  /\ pages[i].state = "open" /\ hears(i, "request") /\ Len(webRequests) < MaxRequests
  /\ webRequests' = Append(webRequests, Request("page", i, [type |-> "ask"]))
  /\ UNCHANGED <<mediators, controllers, registered, extensionHandler, theme, themes, pages, wire>>

\* The handler is asynchronous and is not awaited: its promise is the payload.
\* The transport sends no word of success or failure.
PluginAnswers(r) ==
  LET i == webRequests[r].instance IN
  /\ webRequests[r].from = "page" /\ webRequests[r].stage = "sent"
  /\ webRequests' = [webRequests EXCEPT ![r] =
       IF /\ pages[i].state = "open" /\ mediator(i).listening /\ reaches(mediators, i)
          /\ hasBus(i) /\ publishes(i, "response")
       THEN [@ EXCEPT !.stage = "answered", !.result = "promise"]
       ELSE [@ EXCEPT !.stage = "lost"]]
  /\ UNCHANGED <<mediators, controllers, registered, extensionHandler, theme, themes, pages, wire>>

PageGetsAnswer(r) ==
  /\ webRequests[r].from = "page" /\ webRequests[r].stage = "answered"
  /\ webRequests' = [webRequests EXCEPT ![r].stage = "over",
       ![r].outcome = IF @ = "none" /\ pages[webRequests[r].instance].state = "open"
                      THEN webRequests[r].result ELSE @]
  /\ UNCHANGED <<mediators, controllers, registered, extensionHandler, theme, themes, pages, wire>>

\* A plugin asks a page.  The JSON-RPC transport has no requests: publish throws.
PluginRequest(i) ==
  /\ hasBus(i) /\ Len(webRequests) < MaxRequests
  /\ webRequests' = Append(webRequests,
       LET request == Request("plugin", i, [type |-> "ask"])
       IN  IF publishes(i, "request") /\ reaches(mediators, i) /\ pages[i].state = "open"
           THEN request ELSE [request EXCEPT !.stage = "lost"])
  /\ UNCHANGED <<mediators, controllers, registered, extensionHandler, theme, themes, pages, wire>>

\* The page looks for the handler by a field that the message does not have.
handlerKey(message) == IF "event" \in DOMAIN message THEN message.event ELSE "undefined"
PageAnswers(r) ==
  /\ webRequests[r].from = "plugin" /\ webRequests[r].stage = "sent"
  /\ webRequests' = [webRequests EXCEPT ![r].stage =
       IF handlerKey(webRequests[r].message) = "ask" THEN "answered" ELSE "lost"]
  /\ UNCHANGED <<mediators, controllers, registered, extensionHandler, theme, themes, pages, wire>>

\* The timer of the promise runs on when the bus is disposed of.
Timeout(r) ==
  /\ webRequests[r].outcome = "none"
  /\ webRequests' = [webRequests EXCEPT ![r].outcome = "timed out"]
  /\ UNCHANGED <<mediators, controllers, registered, extensionHandler, theme, themes, pages, wire>>

-----------------------------------------------------------------------------
WebviewNext ==
  \/ \E w \in Webviews : RegisterPlugin(w) \/ UnregisterPlugin(w)
  \/ \E t \in Transports : DisposeTransport(t)
  \/ \E i \in Instances : \/ Connect(i) \/ Disconnect(i) \/ PageGetsTheme(i)
                          \/ PageRequest(i) \/ PluginRequest(i)
  \/ \E new \in Themes : ThemeChanges(new)
  \/ \E r \in DOMAIN webRequests : \/ PluginAnswers(r) \/ PageGetsAnswer(r)
                                   \/ PageAnswers(r) \/ Timeout(r)

WebviewSpec == WebviewInit /\ [][WebviewNext]_webviewVars

-----------------------------------------------------------------------------
\* While a transport is served, nothing on the server belongs to an instance
\* that has left: no controller broadcasts to it or runs its handlers, no
\* mediator manages it, and the extension's prompts do not go to it.
GoneInstancesAreReleased ==
  \A i \in Instances : mediator(i).listening /\ pages[i].state = "closed" =>
    /\ i \notin mediator(i).managed
    /\ \A c \in DOMAIN controllers[WebviewOf[i]] : i \notin controllers[WebviewOf[i]][c]
    /\ extensionHandler[WebviewOf[i]] # i

\* "webviewMessageBus.onRequest('custom/webview/request', async (str) => ...":
\* what the handler returns is what the page's request resolves to.
PageGetsResult ==
  \A r \in DOMAIN webRequests :
    webRequests[r].from = "page" => webRequests[r].outcome \in {"none", "timed out", "value"}

=============================================================================
