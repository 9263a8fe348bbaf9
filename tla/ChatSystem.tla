----------------------------- MODULE ChatSystem -----------------------------
(***************************************************************************)
(* The whole way of a message and back: page, socket, gateway-web,         *)
(* assistant-api, queue, assistant-worker, callback, socket, page.  Shown  *)
(* to implement Chat.                                                      *)
(*                                                                         *)
(* The components are those of the other modules at a coarser grain:       *)
(* SessionRegistry and BrowserPage as they are, the queue as JobLifecycle, *)
(* the gateway's handlers without the race for the history file            *)
(* (GatewayWeb), the worker without its files (AssistantWorker).  What is  *)
(* emitted to an open socket reaches the page in the same step: an event   *)
(* that is under way when the connection breaks is one emitted later.      *)
(***************************************************************************)
EXTENDS SessionRegistry, BrowserPage

CONSTANTS Workers,
          MaxFaults,   \* bound: failing calls, crashes and restarts
          MaxClears,   \* bound: clicks on the clear button
          NoPage

ASSUME ChatAssumption ==
    /\ MaxFaults \in Nat /\ MaxClears \in Nat
    /\ NoPage \notin Pages
    /\ "no_worker" \notin Workers
    /\ Sockets \subseteq Nat  \* in the order in which they connect

VARIABLES home,      \* home[p]: the session of page p, from its cookie
          socketOf,  \* socketOf[p]: the connection page p uses
          post,      \* post[m]: message m, as its page and its handler know it
          posting,   \* the messages whose POST is under way at assistant-api
          author,    \* author[m]: the page m was typed on
          carrier,   \* carrier[m]: the socket m is under way on, if any
          history,   \* history[s]: the replies in the history file
          answered,  \* history: the messages whose reply was stored
          status, holder,  \* the jobs, one per message: JobLifecycle
          task,      \* task[w]: what worker w is doing with the job it holds
          timers,    \* the thinking timers, <<worker, message>>
          thinking,  \* thinking callbacks in flight, <<worker, message>>
          responses, \* final callbacks in flight, <<worker, message>>
          faults, clears

Queue == INSTANCE JobLifecycle WITH Jobs <- Messages

browserVars == <<pageVars, socketOf, home>>
gatewayVars == <<registryVars, history, answered>>
postVars == <<post, posting, author, carrier>>
queueVars == <<status, holder>>
workerVars == <<task, timers, thinking, responses>>
vars == <<browserVars, gatewayVars, postVars, queueVars, workerVars, faults, clears>>

Stages == {"unsaid", "buffered", "wire", "forwarding", "accepted", "error", "lost"}
Tasks == {"idle", "starting", "generating", "responding", "saving"}

TypeOK ==
    /\ RegistryTypeOK /\ PageTypeOK
    /\ home \in [Pages -> Sessions]
    /\ socketOf \in [Pages -> Sockets \cup {NoSocket}]
    /\ post \in [Messages -> Stages]
    /\ posting \in SUBSET Messages
    /\ author \in [Messages -> Pages \cup {NoPage}]
    /\ carrier \in [Messages -> Sockets \cup {NoSocket}]
    /\ history \in [Sessions -> SUBSET Messages]
    /\ answered \in SUBSET Messages
    /\ Queue!TypeOK
    /\ task \in [Workers -> Tasks]
    /\ timers \in SUBSET (Workers \X Messages)
    /\ thinking \in SUBSET (Workers \X Messages)
    /\ responses \in SUBSET (Workers \X Messages)
    /\ faults \in 0..MaxFaults /\ clears \in 0..MaxClears
    /\ \A p \in Pages : conn[p] = "connected" <=> socketOf[p] # NoSocket
    /\ \A m \in Messages : post[m] = "wire" => carrier[m] # NoSocket

Init ==
    /\ RegistryInit /\ PageInit
    /\ home \in [Pages -> Sessions]
    /\ socketOf = [p \in Pages |-> NoSocket]
    /\ post = [m \in Messages |-> "unsaid"]
    /\ posting = {}
    /\ author = [m \in Messages |-> NoPage]
    /\ carrier = [m \in Messages |-> NoSocket]
    /\ history = [s \in Sessions |-> {}]
    /\ answered = {}
    /\ Queue!Init
    /\ task = [w \in Workers |-> "idle"]
    /\ timers = {} /\ thinking = {} /\ responses = {}
    /\ faults = 0 /\ clears = 0

Fault == faults < MaxFaults /\ faults' = faults + 1
SessionOf(m) == home[author[m]]

(* The page that an emit to the registered socket of session s reaches.    *)
Reached(s) ==
    {p \in Pages : socketOf[p] # NoSocket /\ socketOf[p] = sessions[s]}

-----------------------------------------------------------------------------
(* Pages and sockets                                                       *)

(* Messages socket.io has not sent yet are gone with the page.             *)
Load(p) ==
    /\ LoadPage(p, history[home[p]])
    /\ IF socketOf[p] = NoSocket THEN UNCHANGED registryVars ELSE BrowserLeaves(socketOf[p])
    /\ socketOf' = [socketOf EXCEPT ![p] = NoSocket]
    /\ post' = [m \in Messages |->
                  IF author[m] = p /\ post[m] = "buffered" THEN "lost" ELSE post[m]]
    /\ UNCHANGED <<home, posting, author, carrier, history, answered, queueVars,
                   workerVars, faults, clears>>

(* connect, for the first time or again: what was buffered is sent.        *)
Connect(p, k) ==
    /\ conn[p] = "disconnected"
    /\ \A j \in Sockets : j < k => link[j] # "new"
    /\ HandleConnection(k, home[p])
    /\ SetConnectionStatus({p}, "connected")
    /\ socketOf' = [socketOf EXCEPT ![p] = k]
    /\ LET sent == {m \in Messages : author[m] = p /\ post[m] = "buffered"} IN
          /\ post' = [m \in Messages |-> IF m \in sent THEN "wire" ELSE post[m]]
          /\ carrier' = [m \in Messages |-> IF m \in sent THEN k ELSE carrier[m]]
    /\ UNCHANGED <<screenVars, clearing, home, posting, author, history, answered,
                   queueVars, workerVars, faults, clears>>

(* The connection breaks: the page knows, the gateway not yet.             *)
Disconnect(p) ==
    /\ conn[p] = "connected"
    /\ BrowserLeaves(socketOf[p])
    /\ SetConnectionStatus({p}, "disconnected")
    /\ socketOf' = [socketOf EXCEPT ![p] = NoSocket]
    /\ UNCHANGED <<screenVars, clearing, home, history, answered, postVars, queueVars,
                   workerVars, faults, clears>>

NoticeDisconnect(k) ==
    /\ HandleDisconnect(k)
    /\ UNCHANGED <<browserVars, history, answered, postVars, queueVars, workerVars,
                   faults, clears>>

(* Its handlers and sockets go with the process, a DELETE fails; a POST    *)
(* that has left for assistant-api goes on.                                *)
GatewayRestart ==
    /\ Fault
    /\ RegistryRestart
    /\ SetConnectionStatus({p \in Pages : conn[p] = "connected"}, "disconnected")
    /\ socketOf' = [p \in Pages |-> NoSocket]
    /\ clearing' = [p \in Pages |-> "no"]
    /\ post' = [m \in Messages |-> IF post[m] = "forwarding" THEN "lost" ELSE post[m]]
    /\ UNCHANGED <<screenVars, home, posting, author, carrier, history, answered,
                   queueVars, workerVars, clears>>

(* Mutant of Say: socket.io does not look whether it is connected.         *)
SayUnbuffered(p, m) ==
    /\ post[m] = "unsaid"
    /\ conn[p] # "closed"
    /\ author' = [author EXCEPT ![m] = p]
    /\ carrier' = [carrier EXCEPT ![m] = socketOf[p]]
    /\ post' = [post EXCEPT ![m] = "wire"]
    /\ UNCHANGED <<posting, browserVars, gatewayVars, queueVars, workerVars, faults, clears>>

(* socket.emit; socket.io keeps the message while it is not connected.     *)
Say(p, m) ==
    /\ post[m] = "unsaid"
    /\ conn[p] # "closed"
    /\ author' = [author EXCEPT ![m] = p]
    /\ carrier' = [carrier EXCEPT ![m] = socketOf[p]]
    /\ post' = [post EXCEPT ![m] = IF conn[p] = "connected" THEN "wire" ELSE "buffered"]
    /\ UNCHANGED <<posting, browserVars, gatewayVars, queueVars, workerVars, faults, clears>>

Clear(p) ==
    /\ clears < MaxClears
    /\ clears' = clears + 1
    /\ ClickClear(p)
    /\ UNCHANGED <<home, socketOf, gatewayVars, postVars, queueVars, workerVars, faults>>

(* DELETE /conversation at the gateway.                                    *)
ClearConversation(p) ==
    /\ clearing[p] = "sent"
    /\ clearing' = [clearing EXCEPT ![p] = "erased"]
    /\ history' = [history EXCEPT ![home[p]] = {}]
    /\ UNCHANGED <<conn, screenVars, home, socketOf, registryVars, answered, postVars,
                   queueVars, workerVars, faults, clears>>

ClearAnswered(p) ==
    /\ \/ ClearMessages(p) /\ UNCHANGED faults
       \/ ClearFails(p) /\ Fault
    /\ UNCHANGED <<home, socketOf, gatewayVars, postVars, queueVars, workerVars, clears>>

-----------------------------------------------------------------------------
(* gateway-web and assistant-api                                           *)

(* handleMessage stores the message and posts it, or reports an error.     *)
ReceiveMessage(m) ==
    /\ post[m] = "wire"
    /\ Live(carrier[m])
    /\ \/ /\ post' = [post EXCEPT ![m] = "forwarding"]
          /\ posting' = posting \cup {m}
          /\ UNCHANGED faults
       \/ post' = [post EXCEPT ![m] = "error"] /\ Fault /\ UNCHANGED posting
    /\ carrier' = [carrier EXCEPT ![m] = NoSocket]
    /\ UNCHANGED <<browserVars, gatewayVars, author, queueVars, workerVars, clears>>

(* It was under way on a connection that has broken: nobody sends it again.*)
LoseMessage(m) ==
    /\ post[m] = "wire"
    /\ link[carrier[m]] # "open"
    /\ post' = [post EXCEPT ![m] = "lost"]
    /\ carrier' = [carrier EXCEPT ![m] = NoSocket]
    /\ UNCHANGED <<browserVars, gatewayVars, posting, author, queueVars, workerVars,
                   faults, clears>>

(* acceptConversation queues the job, whether or not the handler that sent *)
(* the POST still waits for its answer.                                    *)
ApiAccepts(m) ==
    /\ m \in posting
    /\ posting' = posting \ {m}
    /\ Queue!Enqueue(m)
    /\ UNCHANGED <<browserVars, gatewayVars, post, author, carrier, workerVars, faults,
                   clears>>

(* assistant-api is not there, or its queue is not: nothing is queued.     *)
ApiFails(m) ==
    /\ m \in posting
    /\ posting' = posting \ {m}
    /\ UNCHANGED <<browserVars, gatewayVars, post, author, carrier, queueVars, workerVars,
                   faults, clears>>

(* 202 reaches the handler.                                                *)
PostAnswered(m) ==
    /\ post[m] = "forwarding"
    /\ status[m] # "new"
    /\ post' = [post EXCEPT ![m] = "accepted"]
    /\ UNCHANGED <<browserVars, gatewayVars, posting, author, carrier, queueVars,
                   workerVars, faults, clears>>

(* The handler gets an error or no answer and sends assistant.error, be it *)
(* that nothing was queued, that refreshQueueDepth failed after the job    *)
(* was queued, or that the POST is still under way.                        *)
PostFails(m) ==
    /\ post[m] = "forwarding"
    /\ post' = [post EXCEPT ![m] = "error"]
    /\ UNCHANGED <<browserVars, gatewayVars, posting, author, carrier, queueVars,
                   workerVars, faults, clears>>

-----------------------------------------------------------------------------
(* assistant-worker                                                        *)

Goto(w, t) == task' = [task EXCEPT ![w] = t]

Reserve(w, m) ==
    /\ task[w] = "idle"
    /\ Queue!Reserve(w, m)
    /\ Goto(w, "starting")
    /\ UNCHANGED <<browserVars, gatewayVars, postVars, timers, thinking, responses,
                   faults, clears>>

(* The settings and the conversation are read; the timer starts in         *)
(* between.  A failure drops the job, a late one leaves the timer.         *)
Start(w, m) ==
    /\ task[w] = "starting" /\ holder[m] = w
    /\ \/ /\ timers' = timers \cup {<<w, m>>}
          /\ Goto(w, "generating")
          /\ UNCHANGED <<queueVars, faults>>
       \/ /\ timers' \in {timers, timers \cup {<<w, m>>}}
          /\ Goto(w, "idle") /\ Queue!Lose(w, m) /\ Fault
    /\ UNCHANGED <<browserVars, gatewayVars, postVars, thinking, responses, clears>>

(* Mutant of Generate: the job of a failed attempt is not queued again.    *)
GenerateKeepsJob(w, m) ==
    /\ task[w] = "generating" /\ holder[m] = w
    /\ timers' = timers \ {<<w, m>>}
    /\ \/ /\ responses' = responses \cup {<<w, m>>}
          /\ Goto(w, "responding")
          /\ UNCHANGED <<queueVars, faults>>
       \/ Goto(w, "idle") /\ Fault /\ UNCHANGED <<responses, queueVars>>
    /\ UNCHANGED <<browserVars, gatewayVars, postVars, thinking, clears>>

(* The LLM replies, and the callback is on its way, or it does not.        *)
Generate(w, m) ==
    /\ task[w] = "generating" /\ holder[m] = w
    /\ timers' = timers \ {<<w, m>>}
    /\ \/ /\ responses' = responses \cup {<<w, m>>}
          /\ Goto(w, "responding")
          /\ UNCHANGED <<queueVars, faults>>
       \/ Goto(w, "idle") /\ Queue!Requeue(w, m) /\ Fault /\ UNCHANGED responses
    /\ UNCHANGED <<browserVars, gatewayVars, postVars, thinking, clears>>

(* What the worker makes of the answer to its callback, unless it died.    *)
ResponseOk(w, m) ==
    /\ IF task[w] = "responding" /\ holder[m] = w THEN Goto(w, "saving") ELSE UNCHANGED task
    /\ UNCHANGED <<queueVars, faults>>

ResponseFails(w, m) ==
    /\ Fault
    /\ IF task[w] = "responding" /\ holder[m] = w
       THEN Goto(w, "idle") /\ Queue!Requeue(w, m)
       ELSE UNCHANGED <<task, queueVars>>

(* Mutant of ReceiveResponse: every connected page gets the reply.         *)
ReceiveResponseByAll(w, m) ==
    /\ <<w, m>> \in responses
    /\ responses' = responses \ {<<w, m>>}
    /\ history' = [history EXCEPT ![SessionOf(m)] = @ \cup {m}]
    /\ answered' = answered \cup {m}
    /\ ShowMessage({p \in Pages : conn[p] = "connected"}, m)
    /\ ResponseOk(w, m) \/ ResponseFails(w, m)
    /\ UNCHANGED <<home, socketOf, registryVars, postVars, timers, thinking, clears>>

(* POST /response is stored and emitted; its answer may get lost.          *)
ReceiveResponse(w, m) ==
    /\ <<w, m>> \in responses
    /\ responses' = responses \ {<<w, m>>}
    /\ history' = [history EXCEPT ![SessionOf(m)] = @ \cup {m}]
    /\ answered' = answered \cup {m}
    /\ ShowMessage(Reached(SessionOf(m)), m)
    /\ ResponseOk(w, m) \/ ResponseFails(w, m)
    /\ UNCHANGED <<home, socketOf, registryVars, postVars, timers, thinking, clears>>

(* It does not arrive, or cannot be stored.                                *)
LoseResponse(w, m) ==
    /\ <<w, m>> \in responses
    /\ responses' = responses \ {<<w, m>>}
    /\ ResponseFails(w, m)
    /\ UNCHANGED <<browserVars, gatewayVars, postVars, timers, thinking, clears>>

(* appendExchange and markDone.                                            *)
Finish(w, m) ==
    /\ task[w] = "saving" /\ holder[m] = w
    /\ \/ Queue!Complete(w, m) /\ UNCHANGED faults
       \/ (Queue!Requeue(w, m) \/ Queue!Lose(w, m)) /\ Fault
    /\ Goto(w, "idle")
    /\ UNCHANGED <<browserVars, gatewayVars, postVars, timers, thinking, responses, clears>>

(* The process ends and is restarted; its callbacks may still be under way.*)
Dies(w) ==
    /\ Fault
    /\ status' = [m \in Messages |-> IF holder[m] = w THEN "lost" ELSE status[m]]
    /\ holder' = [m \in Messages |-> IF holder[m] = w THEN Queue!NoWorker ELSE holder[m]]
    /\ Goto(w, "idle")
    /\ timers' = {t \in timers : t[1] # w}
    /\ UNCHANGED <<browserVars, gatewayVars, postVars, responses, clears>>

WorkerRestart(w) == Dies(w) /\ UNCHANGED thinking

ThinkingTick(w, m) ==
    /\ <<w, m>> \in timers
    /\ thinking' = thinking \cup {<<w, m>>}
    /\ UNCHANGED <<browserVars, gatewayVars, postVars, queueVars, task, timers, responses,
                   faults, clears>>

(* POST /thinking, perhaps later than the final callback.                  *)
ReceiveThinking(w, m) ==
    /\ <<w, m>> \in thinking
    /\ thinking' = thinking \ {<<w, m>>}
    /\ ShowThinking(Reached(SessionOf(m)))
    /\ UNCHANGED <<home, socketOf, gatewayVars, postVars, queueVars, task, timers,
                   responses, faults, clears>>

(* The gateway is not there: the rejection ends the worker.                *)
ThinkingRejected(w, m) ==
    /\ <<w, m>> \in thinking
    /\ thinking' = thinking \ {<<w, m>>}
    /\ Dies(w)

EndSpinner(p) ==
    /\ ThinkingTimeout(p)
    /\ UNCHANGED <<home, socketOf, gatewayVars, postVars, queueVars, workerVars,
                   faults, clears>>

-----------------------------------------------------------------------------
Gateway(m) ==
    \/ ReceiveMessage(m) \/ LoseMessage(m)
    \/ PostAnswered(m) \/ PostFails(m)

Api(m) == ApiAccepts(m) \/ ApiFails(m)

Worker(w, m) ==
    Start(w, m) \/ Generate(w, m) \/ Finish(w, m)

Callback(w, m) == ReceiveResponse(w, m) \/ LoseResponse(w, m)

Thinking(w, m) == ReceiveThinking(w, m) \/ ThinkingRejected(w, m)

Next ==
    \/ \E p \in Pages :
          \/ Load(p) \/ Disconnect(p) \/ EndSpinner(p)
          \/ Clear(p) \/ ClearConversation(p) \/ ClearAnswered(p)
          \/ \E k \in Sockets : Connect(p, k)
          \/ \E m \in Messages : Say(p, m)
    \/ \E k \in Sockets : NoticeDisconnect(k)
    \/ GatewayRestart
    \/ \E m \in Messages : Gateway(m) \/ Api(m)
    \/ \E w \in Workers : WorkerRestart(w)
    \/ \E w \in Workers, m \in Messages :
          \/ Reserve(w, m) \/ Worker(w, m) \/ Callback(w, m)
          \/ ThinkingTick(w, m) \/ Thinking(w, m)

Spec == Init /\ [][Next]_vars

(* Requests are received or fail, workers poll and go on, timeouts fire.   *)
(* Users, connections, thinking ticks and faults owe nothing.              *)
Fairness ==
    /\ \A m \in Messages : WF_vars(Gateway(m)) /\ WF_vars(Api(m))
    /\ \A w \in Workers :
          /\ WF_vars(\E m \in Messages : Reserve(w, m))
          /\ WF_vars(\E m \in Messages : Worker(w, m))
          /\ \A m \in Messages : WF_vars(Callback(w, m)) /\ WF_vars(Thinking(w, m))
    /\ \A p \in Pages : WF_vars(EndSpinner(p))

FairSpec == Spec /\ Fairness

-----------------------------------------------------------------------------
(* Its job is lost and no callback of it is under way, or it is no job and *)
(* nothing will make it one.                                               *)
Gone(m) == status[m] = "lost" /\ \A w \in Workers : <<w, m>> \notin responses
Unqueued(m) == status[m] = "new" /\ m \notin posting

(* What has become of a message, for Chat.                                 *)
Phase(m) ==
    IF m \in answered THEN "answered" ELSE
    CASE post[m] = "unsaid" -> "unsaid"
      [] post[m] \in {"buffered", "wire"} -> "said"
      [] post[m] \in {"forwarding", "accepted"} -> IF Gone(m) THEN "lost" ELSE "kept"
      [] post[m] = "error" ->
            IF Unqueued(m) THEN "refused" ELSE IF Gone(m) THEN "lost" ELSE "denied"
      [] post[m] = "lost" -> IF Unqueued(m) \/ Gone(m) THEN "lost" ELSE "kept"

Abstract == INSTANCE Chat WITH
    phase  <- [m \in Messages |-> Phase(m)],
    origin <- author,
    seen   <- shown

(* Through reconnects, reloads, clears, restarts, retries, lost answers    *)
(* and late callbacks, the services together keep what Chat promises: a    *)
(* reply only for a message that was stored, a page only replies of its    *)
(* own session; lost is final, and so is an error when the message was not *)
(* queued; one that was queued all the same may still be answered.         *)
ImplementsChat == Abstract!Spec

(* A message on its way to the gateway does not hang: it is answered,      *)
(* refused with an error and not queued, or lost with a connection or a    *)
(* process; neither kept nor denied for good.                              *)
MessagesConclude ==
    \A m \in Messages :
        post[m] = "wire" ~> Phase(m) \in {"answered", "refused", "lost"}

(* A timer nobody stops any more: its job was dropped after it started.    *)
Leaked == \E w \in Workers, m \in Messages : <<w, m>> \in timers /\ status[m] = "lost"

(* Once the work is done no page shows a spinner for good, also when a     *)
(* thinking callback comes after the final one or after a clear, unless a  *)
(* leaked timer keeps sending them.                                        *)
SpinnersCease ==
    <>[](Leaked \/ \A p \in Pages : ~thinkingMessage[p])
=============================================================================
