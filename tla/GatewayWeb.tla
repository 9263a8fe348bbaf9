------------------------------ MODULE GatewayWeb ----------------------------
(***************************************************************************)
(* gateway-web: the browser's messages on their way to assistant-api, the  *)
(* worker's callbacks on their way to the browser, and the history file of *)
(* each session, which every handler reads, changes and writes back in     *)
(* separate awaits.  SessionRegistry supplies the sockets.                 *)
(***************************************************************************)
EXTENDS SessionRegistry, Sequences

CONSTANTS Posts,        \* handlers of chat.message, one per browser message
          Callbacks,    \* handlers of POST /response
          Clears,       \* handlers of DELETE /conversation
          MaxMessages,  \* MAX_GATEWAY_WEB_MESSAGES
          MayFail,      \* whether the process dies, reads and writes fail
          NoPost

Handlers == Posts \cup Callbacks \cup Clears

ASSUME GatewayAssumption ==
    /\ Posts \cap Callbacks = {} /\ Posts \cap Clears = {} /\ Callbacks \cap Clears = {}
    /\ MaxMessages \in Nat \ {0}
    /\ MayFail \in BOOLEAN
    /\ NoPost \notin Handlers

VARIABLES pc,       \* pc[h]: the await handler h is suspended in
          about,    \* about[h]: the message handler h is about
          home,     \* home[h]: the session of handler h
          base,     \* base[h]: the messages appendMessage has read
          history,  \* history[s]: the messages last written for session s
          file,     \* file[s]: whether the file of session s parses
          queued,   \* the posts assistant-api has put in its queue
          stored,   \* the handlers whose write to the file has completed
          shown,    \* shown[k]: the callbacks emitted to socket k
          interrupted \* whether a restart or an error has ended a write

handlerVars == <<pc, about, home, base>>
historyVars == <<history, file, stored>>
vars == <<registryVars, handlerVars, historyVars, queued, shown, interrupted>>

Awaits == {"new", "reading", "opening", "writing", "sending", "delivering",
           "ok", "undelivered", "error", "lost"}
InProgress == {"reading", "opening", "writing", "sending", "delivering"}

Message == [post : Posts, role : {"user", "assistant"}]

TypeOK ==
    /\ RegistryTypeOK
    /\ pc \in [Handlers -> Awaits]
    /\ about \in [Handlers -> Posts \cup {NoPost}]
    /\ home \in [Handlers -> Sessions \cup {NoSession}]
    /\ base \in [Handlers -> Seq(Message)]
    /\ history \in [Sessions -> Seq(Message)]
    /\ file \in [Sessions -> {"whole", "empty", "damaged"}]
    /\ queued \in SUBSET Posts
    /\ stored \in SUBSET Handlers
    /\ shown \in [Sockets -> SUBSET Callbacks]
    /\ interrupted \in BOOLEAN

Init ==
    /\ RegistryInit
    /\ pc = [h \in Handlers |-> "new"]
    /\ about = [h \in Handlers |-> NoPost]
    /\ home = [h \in Handlers |-> NoSession]
    /\ base = [h \in Handlers |-> <<>>]
    /\ history = [s \in Sessions |-> <<>>]
    /\ file = [s \in Sessions |-> "whole"]
    /\ queued = {}
    /\ stored = {}
    /\ shown = [k \in Sockets |-> {}]
    /\ interrupted = FALSE

Goto(h, await) == pc' = [pc EXCEPT ![h] = await]

Begin(h, await, p, s) ==
    /\ pc[h] = "new"
    /\ Goto(h, await)
    /\ about' = [about EXCEPT ![h] = p]
    /\ home' = [home EXCEPT ![h] = s]
    /\ UNCHANGED <<registryVars, base, historyVars, queued, shown, interrupted>>

-----------------------------------------------------------------------------
(* Sockets come and go while the handlers run.                             *)
Socket ==
    /\ \/ \E k \in Sockets, s \in Sessions : HandleConnection(k, s)
       \/ \E k \in Sockets : BrowserLeaves(k) \/ HandleDisconnect(k)
    /\ UNCHANGED <<handlerVars, historyVars, queued, shown, interrupted>>

(* The process dies: the handlers in progress are gone, and a file one of  *)
(* them had truncated stays empty.                                         *)
Restart ==
    /\ MayFail
    /\ RegistryRestart
    /\ pc' = [h \in Handlers |-> IF pc[h] \in InProgress THEN "lost" ELSE pc[h]]
    /\ base' = [h \in Handlers |-> <<>>]
    /\ interrupted' = (interrupted \/ \E h \in Handlers : pc[h] = "writing")
    /\ UNCHANGED <<about, home, historyVars, queued, shown>>

-----------------------------------------------------------------------------
(* How the handlers begin                                                  *)

(* handleMessage: an empty message is refused at once with assistant.error.*)
ReceiveMessage(p, k) ==
    /\ link[k] = "open"
    /\ \E await \in {"reading", "error"} : Begin(p, await, p, session[k])

(* deliverAssistantResponse: a callback for a message assistant-api has    *)
(* queued, perhaps before its answer reached the gateway, perhaps not for  *)
(* the first time.  An empty reply is not stored and not delivered.        *)
ReceiveCallback(c, p) ==
    /\ p \in queued
    /\ \E await \in {"reading", "undelivered"} : Begin(c, await, p, home[p])

(* clearConversation writes the empty state without reading the old one.   *)
ReceiveClear(x, s) == Begin(x, "opening", NoPost, s)

-----------------------------------------------------------------------------
(* GatewayWebRuntimeService                                                *)

LastMessages(s) ==
    SubSeq(s, IF Len(s) > MaxMessages THEN Len(s) - MaxMessages + 1 ELSE 1, Len(s))

Entry(h) == [post |-> about[h], role |-> IF h \in Posts THEN "user" ELSE "assistant"]

(* Mutant of NextHistory: clearing appends an entry like the others.       *)
NextHistoryAppends(h) == LastMessages(Append(base[h], Entry(h)))

NextHistory(h) ==
    IF h \in Clears THEN <<>> ELSE LastMessages(Append(base[h], Entry(h)))

(* Mutant of ReadConversation: the file of another session is read.        *)
ReadConversationShared(h) ==
    /\ pc[h] = "reading"
    /\ \E s \in Sessions : base' = [base EXCEPT ![h] = history[s]]
    /\ Goto(h, "opening")
    /\ UNCHANGED <<registryVars, about, home, historyVars, queued, shown, interrupted>>

(* appendMessage: readConversation.                                        *)
ReadConversation(h) ==
    /\ pc[h] = "reading"
    /\ file[home[h]] = "whole"
    /\ base' = [base EXCEPT ![h] = history[home[h]]]
    /\ Goto(h, "opening")
    /\ UNCHANGED <<registryVars, about, home, historyVars, queued, shown, interrupted>>

(* Mutant of ReadFails: the handler goes on without its entry.             *)
ReadFailsIgnored(h) ==
    /\ pc[h] = "reading"
    /\ MayFail \/ file[home[h]] # "whole"
    /\ Goto(h, IF h \in Posts THEN "sending" ELSE "delivering")
    /\ UNCHANGED <<registryVars, about, home, base, historyVars, queued, shown, interrupted>>

(* The content does not parse, or readFile rejects for a reason other than *)
(* that there is no file: the browser is told that assistant-api is        *)
(* unavailable, the worker is answered 500.                                *)
ReadFails(h) ==
    /\ pc[h] = "reading"
    /\ MayFail \/ file[home[h]] # "whole"
    /\ Goto(h, "error")
    /\ UNCHANGED <<registryVars, about, home, base, historyVars, queued, shown, interrupted>>

(* writeFile: open and truncate, ...                                       *)
OpenFile(h) ==
    /\ pc[h] = "opening"
    /\ file' = [file EXCEPT ![home[h]] = "empty"]
    /\ Goto(h, "writing")
    /\ UNCHANGED <<registryVars, about, home, base, history, stored, queued, shown, interrupted>>

(* Mutant of WriteFile: clearing only truncates the file.                  *)
WriteFileUnlessClear(h) ==
    /\ pc[h] = "writing"
    /\ history' = [history EXCEPT ![home[h]] = NextHistory(h)]
    /\ file' = [file EXCEPT ![home[h]] = IF h \in Clears THEN "empty" ELSE "whole"]
    /\ stored' = stored \cup {h}
    /\ base' = [base EXCEPT ![h] = <<>>]
    /\ Goto(h, CASE h \in Posts -> "sending"
                 [] h \in Callbacks -> "delivering"
                 [] h \in Clears -> "ok")
    /\ UNCHANGED <<registryVars, about, home, queued, shown, interrupted>>

(* ... then write from the start of the file.  If another handler has      *)
(* written since, the tail of a longer text stays behind the new one.      *)
WriteFile(h) ==
    /\ pc[h] = "writing"
    /\ history' = [history EXCEPT ![home[h]] = NextHistory(h)]
    /\ \E result \in (IF file[home[h]] = "empty" THEN {"whole"} ELSE {"whole", "damaged"}) :
          file' = [file EXCEPT ![home[h]] = result]
    /\ stored' = stored \cup {h}
    /\ base' = [base EXCEPT ![h] = <<>>]
    /\ Goto(h, CASE h \in Posts -> "sending"
                 [] h \in Callbacks -> "delivering"
                 [] h \in Clears -> "ok")
    /\ UNCHANGED <<registryVars, about, home, queued, shown, interrupted>>

(* mkdir, open or write rejects; a file that was truncated stays empty.    *)
WriteFails(h) ==
    /\ MayFail
    /\ pc[h] \in {"opening", "writing"}
    /\ interrupted' = (interrupted \/ pc[h] = "writing")
    /\ base' = [base EXCEPT ![h] = <<>>]
    /\ Goto(h, "error")
    /\ UNCHANGED <<registryVars, about, home, historyVars, queued, shown>>

-----------------------------------------------------------------------------
(* How the handlers end                                                    *)

(* sendConversation: assistant-api queues the message ...                  *)
ApiAccepts(p) ==
    /\ pc[p] = "sending"
    /\ p \notin queued
    /\ queued' = queued \cup {p}
    /\ UNCHANGED <<registryVars, handlerVars, historyVars, shown, interrupted>>

(* ... and its answer arrives, or an error does, whether or not the        *)
(* message was queued.                                                     *)
ApiAnswers(p) ==
    /\ pc[p] = "sending"
    /\ \/ p \in queued /\ Goto(p, "ok")
       \/ Goto(p, "error")
    /\ UNCHANGED <<registryVars, about, home, base, historyVars, queued, shown, interrupted>>

(* Mutant of Deliver: the reply goes to every registered socket.           *)
DeliverToAll(c) ==
    /\ pc[c] = "delivering"
    /\ Goto(c, "ok")
    /\ shown' = [k \in Sockets |->
                   shown[k] \cup (IF \E s \in Sessions : sessions[s] = k THEN {c} ELSE {})]
    /\ UNCHANGED <<registryVars, about, home, base, historyVars, queued, interrupted>>

(* sendAssistantMessage to the registered socket, and the answer to the    *)
(* worker.  Without one the callback is answered 200 all the same.         *)
Deliver(c) ==
    /\ pc[c] = "delivering"
    /\ LET k == sessions[home[c]]
       IN IF k = NoSocket
          THEN Goto(c, "undelivered") /\ UNCHANGED shown
          ELSE Goto(c, "ok") /\ shown' = [shown EXCEPT ![k] = @ \cup {c}]
    /\ UNCHANGED <<registryVars, about, home, base, historyVars, queued, interrupted>>

Store(h) ==
    \/ ReadConversation(h) \/ ReadFails(h)
    \/ OpenFile(h) \/ WriteFile(h) \/ WriteFails(h)

Finish(h) == \/ h \in Posts /\ ApiAnswers(h)
             \/ h \in Callbacks /\ Deliver(h)

Next ==
    \/ Socket \/ Restart
    \/ \E p \in Posts, k \in Sockets : ReceiveMessage(p, k)
    \/ \E c \in Callbacks, p \in Posts : ReceiveCallback(c, p)
    \/ \E x \in Clears, s \in Sessions : ReceiveClear(x, s)
    \/ \E h \in Handlers : Store(h) \/ Finish(h)
    \/ \E p \in Posts : ApiAccepts(p)

Spec == Init /\ [][Next]_vars

-----------------------------------------------------------------------------
(* A message is in the history file before assistant-api can queue it, and *)
(* a reply before a browser sees it: what was queued or shown survives a   *)
(* reload, whatever happens to the socket or the API in between.           *)
StoredBeforeForwarded ==
    /\ queued \subseteq stored
    /\ \A k \in Sockets : shown[k] \subseteq stored

(* A socket gets only replies to messages of its own session: callbacks    *)
(* carry the session through the API and the queue and back, while sockets *)
(* are replaced under the registry.                                        *)
RightSession ==
    \A k \in Sockets : \A c \in shown[k] :
        session[k] = home[c] /\ home[c] = home[about[c]]

(* Whatever handlers overwrite of each other's, an entry of a history file *)
(* stands for a message of that session, and a reply for one assistant-api *)
(* has queued.                                                             *)
HistoryIsGenuine ==
    \A s \in Sessions : \A i \in 1..Len(history[s]) :
        LET m == history[s][i] IN
            /\ home[m.post] = s
            /\ m.role = "assistant" => m.post \in queued

(* A history file that does not parse is one a handler is writing at the   *)
(* moment, one that overlapping writers have damaged, or what a restart or *)
(* a failed write has left: no handler that ran to its end, and no refused *)
(* one, leaves an empty file behind.                                       *)
EmptyFileHasWriter ==
    \A s \in Sessions :
        file[s] = "empty" =>
            interrupted \/ \E h \in Handlers : pc[h] = "writing" /\ home[h] = s

-----------------------------------------------------------------------------
(* docs/contracts/callback-api.md: gateway-web "should also persist final  *)
(* response callbacks".  A reply answered 200 is in the history (checked   *)
(* without clears and with room for every message).                        *)
ReplyIsPersisted ==
    \A c \in Callbacks :
        c \in stored =>
            \E i \in 1..Len(history[home[c]]) : history[home[c]][i] = Entry(c)
=============================================================================
