-------------------------- MODULE ChatSystemProofs --------------------------
(***************************************************************************)
(* The services together implement Chat, for any number of pages, browser  *)
(* sessions, connections, messages, workers and faults.                    *)
(***************************************************************************)
EXTENDS ChatSystem, SessionRegistryProofs

(* A page that is connected has an open socket of its own, of its session. *)
SocketsAgree ==
    \A p \in Pages : socketOf[p] # NoSocket =>
        /\ link[socketOf[p]] = "open" /\ session[socketOf[p]] = home[p]
        /\ \A q \in Pages : socketOf[q] = socketOf[p] => q = p

(* What has been said was typed on a page.                                 *)
AuthorsAgree == \A m \in Messages : post[m] # "unsaid" => author[m] \in Pages

(* The handler of a message has posted it, and may be through with it.     *)
Posted == {"forwarding", "accepted", "error", "lost"}

(* A message is a job or its POST is under way only after its handler      *)
(* posted it, and never both; what was answered with 202 is a job, and     *)
(* only a job is answered.  The converse of the third line does not hold:  *)
(* a job may be one whose POST failed.                                     *)
JobsAgree ==
    \A m \in Messages :
        /\ status[m] # "new" \/ m \in posting => post[m] \in Posted
        /\ m \in posting => status[m] = "new"
        /\ post[m] = "accepted" => status[m] # "new"
        /\ m \in answered => status[m] # "new"
        /\ \A w \in Workers : <<w, m>> \in responses => status[m] # "new"
        /\ \A w \in Workers : holder[m] = w => status[m] = "held"

(* What pages and histories show is answered and of their session.         *)
RepliesAreOwn ==
    /\ \A p \in Pages : \A m \in shown[p] : m \in answered /\ home[author[m]] = home[p]
    /\ \A s \in Sessions : \A m \in history[s] : m \in answered /\ home[author[m]] = s

ChatInv == TypeOK /\ IInv /\ SocketsAgree /\ AuthorsAgree /\ JobsAgree /\ RepliesAreOwn

-----------------------------------------------------------------------------
(* The steps by who takes them.                                            *)
PageStep(p) ==
    \/ Load(p) \/ Disconnect(p) \/ EndSpinner(p)
    \/ Clear(p) \/ ClearConversation(p) \/ ClearAnswered(p)
    \/ \E k \in Sockets : Connect(p, k)
    \/ \E m \in Messages : Say(p, m)

JobStep(w, m) ==
    \/ Reserve(w, m) \/ Worker(w, m) \/ Callback(w, m)
    \/ ThinkingTick(w, m) \/ Thinking(w, m)

(* What is not a page's or the gateway's leaves the registry alone.        *)
LEMMA RegistryUntouched ==
    ASSUME \/ \E m \in Messages : Gateway(m) \/ Api(m)
           \/ \E w \in Workers : WorkerRestart(w)
           \/ \E w \in Workers, m \in Messages : JobStep(w, m)
    PROVE  UNCHANGED registryVars
  <1>1. ASSUME NEW m \in Messages, Gateway(m) \/ Api(m) PROVE UNCHANGED registryVars
    BY <1>1 DEF Gateway, ReceiveMessage, LoseMessage, PostAnswered, PostFails, Api,
       ApiAccepts, ApiFails, gatewayVars
  <1>2. ASSUME NEW w \in Workers, Dies(w) PROVE UNCHANGED registryVars
    BY <1>2 DEF Dies, gatewayVars
  <1>3. ASSUME NEW w \in Workers, NEW m \in Messages, JobStep(w, m)
        PROVE  UNCHANGED registryVars
    <2>1. CASE Reserve(w, m) \/ Worker(w, m)
      BY <2>1 DEF Reserve, Worker, Start, Generate, Finish, gatewayVars
    <2>2. CASE Callback(w, m) \/ ThinkingTick(w, m)
      BY <2>2 DEF Callback, ReceiveResponse, LoseResponse, ThinkingTick, gatewayVars
    <2>3. CASE Thinking(w, m)
      BY <1>2, <2>3 DEF Thinking, ReceiveThinking, ThinkingRejected, gatewayVars
    <2> QED BY <1>3, <2>1, <2>2, <2>3 DEF JobStep
  <1> QED BY <1>1, <1>2, <1>3 DEF WorkerRestart

(* The sockets of the whole system are those of SessionRegistry.           *)
LEMMA StepIsRegistryStep ==
    ASSUME TypeOK, [Next]_vars
    PROVE  [RegistryNext]_registryVars
  <1>1. ASSUME NEW p \in Pages, PageStep(p) PROVE [RegistryNext]_registryVars
    <2>0. socketOf[p] \in Sockets \cup {NoSocket} /\ home[p] \in Sessions
      BY DEF TypeOK
    <2>1. CASE Load(p)
      BY <2>0, <2>1 DEF Load, RegistryNext
    <2>2. CASE Disconnect(p)
      <3>1. socketOf[p] # NoSocket
        BY <2>2 DEF Disconnect, TypeOK
      <3> QED BY <2>0, <2>2, <3>1 DEF Disconnect, RegistryNext
    <2>3. ASSUME NEW k \in Sockets, Connect(p, k) PROVE RegistryNext
      BY <2>0, <2>3 DEF Connect, RegistryNext
    <2>4. CASE \/ EndSpinner(p) \/ Clear(p) \/ ClearConversation(p) \/ ClearAnswered(p)
               \/ \E m \in Messages : Say(p, m)
      BY <2>4 DEF EndSpinner, Clear, ClearConversation, ClearAnswered, Say, gatewayVars
    <2> QED BY <1>1, <2>1, <2>2, <2>3, <2>4 DEF PageStep
  <1>2. ASSUME NEW k \in Sockets, NoticeDisconnect(k) PROVE RegistryNext
    BY <1>2 DEF NoticeDisconnect, RegistryNext
  <1>3. CASE GatewayRestart
    BY <1>3 DEF GatewayRestart, RegistryNext
  <1>4. CASE UNCHANGED vars
    BY <1>4 DEF vars, gatewayVars
  <1> QED BY <1>1, <1>2, <1>3, <1>4, RegistryUntouched DEF Next, PageStep, JobStep

-----------------------------------------------------------------------------
(* No step gives a page another session.                                   *)
LEMMA HomeIsKept == ASSUME [Next]_vars PROVE home' = home
  <1>1. ASSUME NEW p \in Pages, PageStep(p) PROVE home' = home
    BY <1>1 DEF PageStep, Load, Connect, Disconnect, EndSpinner, Clear, ClearConversation,
       ClearAnswered, Say, browserVars
  <1>2. ASSUME NEW m \in Messages, Gateway(m) \/ Api(m) PROVE home' = home
    BY <1>2 DEF Gateway, ReceiveMessage, LoseMessage, PostAnswered, PostFails, Api,
       ApiAccepts, ApiFails, browserVars
  <1>3. ASSUME NEW w \in Workers, Dies(w) PROVE home' = home
    BY <1>3 DEF Dies, browserVars
  <1>4. ASSUME NEW w \in Workers, NEW m \in Messages, JobStep(w, m) PROVE home' = home
    <2>1. CASE Reserve(w, m) \/ Worker(w, m) \/ ThinkingTick(w, m)
      BY <2>1 DEF Reserve, Worker, Start, Generate, Finish, ThinkingTick, browserVars
    <2>2. CASE Callback(w, m)
      BY <2>2 DEF Callback, ReceiveResponse, LoseResponse, browserVars
    <2>3. CASE Thinking(w, m)
      BY <1>3, <2>3 DEF Thinking, ReceiveThinking, ThinkingRejected
    <2> QED BY <1>4, <2>1, <2>2, <2>3 DEF JobStep
  <1>5. CASE GatewayRestart \/ (\E k \in Sockets : NoticeDisconnect(k)) \/ UNCHANGED vars
    BY <1>5 DEF GatewayRestart, NoticeDisconnect, browserVars, vars
  <1> QED BY <1>1, <1>2, <1>3, <1>4, <1>5 DEF Next, PageStep, JobStep, WorkerRestart

(* What changes no connection leaves the pages with their sockets.         *)
Connected == <<conn, socketOf, registryVars>>

LEMMA ConnectedKept ==
    ASSUME \/ \E p \in Pages : \/ EndSpinner(p) \/ Clear(p) \/ ClearConversation(p)
                               \/ ClearAnswered(p) \/ \E m \in Messages : Say(p, m)
           \/ \E m \in Messages : Gateway(m) \/ Api(m)
           \/ \E w \in Workers : WorkerRestart(w)
           \/ \E w \in Workers, m \in Messages : JobStep(w, m)
    PROVE  UNCHANGED Connected
  <1> USE DEF Connected, browserVars, gatewayVars, pageVars, screenVars
  <1>1. ASSUME NEW p \in Pages, \/ EndSpinner(p) \/ Clear(p) \/ ClearConversation(p)
                                \/ ClearAnswered(p) \/ \E m \in Messages : Say(p, m)
        PROVE  UNCHANGED Connected
    BY <1>1 DEF EndSpinner, Clear, ClearConversation, ClearAnswered, Say, ThinkingTimeout,
       ClickClear, ClearMessages, ClearFails
  <1>2. ASSUME NEW m \in Messages, Gateway(m) \/ Api(m) PROVE UNCHANGED Connected
    BY <1>2 DEF Gateway, ReceiveMessage, LoseMessage, PostAnswered, PostFails, Api,
       ApiAccepts, ApiFails
  <1>3. ASSUME NEW w \in Workers, Dies(w) PROVE UNCHANGED Connected
    BY <1>3 DEF Dies
  <1>4. ASSUME NEW w \in Workers, NEW m \in Messages, JobStep(w, m)
        PROVE  UNCHANGED Connected
    <2>1. CASE Reserve(w, m) \/ Worker(w, m) \/ ThinkingTick(w, m)
      BY <2>1 DEF Reserve, Worker, Start, Generate, Finish, ThinkingTick
    <2>2. CASE Callback(w, m)
      BY <2>2 DEF Callback, ReceiveResponse, LoseResponse, ShowMessage
    <2>3. CASE Thinking(w, m)
      BY <1>3, <2>3 DEF Thinking, ReceiveThinking, ThinkingRejected, ShowThinking
    <2> QED BY <1>4, <2>1, <2>2, <2>3 DEF JobStep
  <1> QED BY <1>1, <1>2, <1>3, <1>4 DEF WorkerRestart

SocketTypes ==
    /\ conn \in [Pages -> {"closed", "disconnected", "connected"}]
    /\ socketOf \in [Pages -> Sockets \cup {NoSocket}]
    /\ \A p \in Pages : conn[p] = "connected" <=> socketOf[p] # NoSocket

(* Connections come and go together with the sockets of the pages.         *)
LEMMA SocketsStep ==
    ASSUME TypeOK, IInv, SocketsAgree, [Next]_vars
    PROVE  SocketTypes' /\ SocketsAgree'
  <1>0. /\ SocketTypes /\ home' = home /\ home \in [Pages -> Sessions]
        /\ NoSocket \notin Sockets
    BY HomeIsKept, RegistryAssumption DEF TypeOK, PageTypeOK, SocketTypes
  <1>r. /\ link \in [Sockets -> {"new", "open", "closing", "closed"}]
        /\ session \in [Sockets -> Sessions \cup {NoSession}]
    BY DEF TypeOK, RegistryTypeOK
  <1>1. CASE UNCHANGED Connected
    BY <1>0, <1>1 DEF Connected, registryVars, SocketTypes, SocketsAgree
  <1>2. ASSUME NEW p \in Pages, Load(p) PROVE SocketTypes' /\ SocketsAgree'
    <2>1. /\ conn' = [q \in Pages |-> IF q \in {p} THEN "disconnected" ELSE conn[q]]
          /\ socketOf' = [socketOf EXCEPT ![p] = NoSocket]
      BY <1>2 DEF Load, LoadPage, SetConnectionStatus
    <2>2. /\ session' = session
          /\ \A k \in Sockets : k # socketOf[p] => link'[k] = link[k]
      BY <1>2, <1>r DEF Load, registryVars, BrowserLeaves
    <2>3. SocketTypes'
      BY <1>0, <2>1 DEF SocketTypes
    <2>4. SocketsAgree'
      BY <1>0, <2>1, <2>2 DEF SocketTypes, SocketsAgree
    <2> QED BY <2>3, <2>4
  <1>3. ASSUME NEW p \in Pages, Disconnect(p) PROVE SocketTypes' /\ SocketsAgree'
    <2>1. /\ conn' = [q \in Pages |-> IF q \in {p} THEN "disconnected" ELSE conn[q]]
          /\ socketOf' = [socketOf EXCEPT ![p] = NoSocket]
      BY <1>3 DEF Disconnect, SetConnectionStatus
    <2>2. /\ session' = session
          /\ \A k \in Sockets : k # socketOf[p] => link'[k] = link[k]
      BY <1>3, <1>r DEF Disconnect, BrowserLeaves
    <2>3. SocketTypes'
      BY <1>0, <2>1 DEF SocketTypes
    <2>4. SocketsAgree'
      BY <1>0, <2>1, <2>2 DEF SocketTypes, SocketsAgree
    <2> QED BY <2>3, <2>4
  <1>4. ASSUME NEW p \in Pages, NEW k \in Sockets, Connect(p, k)
        PROVE  SocketTypes' /\ SocketsAgree'
    <2>1. /\ conn' = [q \in Pages |-> IF q \in {p} THEN "connected" ELSE conn[q]]
          /\ socketOf' = [socketOf EXCEPT ![p] = k]
      BY <1>4 DEF Connect, SetConnectionStatus
    <2>2. /\ link[k] = "new" /\ link'[k] = "open" /\ session'[k] = home[p]
          /\ \A l \in Sockets \ {k} : link'[l] = link[l] /\ session'[l] = session[l]
      BY <1>4, <1>r DEF Connect, HandleConnection
    <2>3. \A q \in Pages : socketOf[q] # k
      BY <1>0, <2>2 DEF SocketsAgree
    <2>4. SocketTypes'
      BY <1>0, <2>1 DEF SocketTypes
    <2>5. SocketsAgree'
      BY <1>0, <2>1, <2>2, <2>3 DEF SocketTypes, SocketsAgree
    <2> QED BY <2>4, <2>5
  <1>5. ASSUME NEW k \in Sockets, NoticeDisconnect(k) PROVE SocketTypes' /\ SocketsAgree'
    <2>1. /\ conn' = conn /\ socketOf' = socketOf /\ session' = session
          /\ link[k] = "closing" /\ \A l \in Sockets \ {k} : link'[l] = link[l]
      BY <1>5, <1>r DEF NoticeDisconnect, HandleDisconnect, browserVars, pageVars
    <2>2. SocketsAgree'
      BY <1>0, <2>1 DEF SocketTypes, SocketsAgree
    <2> QED BY <1>0, <2>1, <2>2 DEF SocketTypes
  <1>6. CASE GatewayRestart
    <2>1. /\ socketOf' = [p \in Pages |-> NoSocket]
          /\ conn' = [q \in Pages |-> IF q \in {p \in Pages : conn[p] = "connected"}
                                      THEN "disconnected" ELSE conn[q]]
      BY <1>6 DEF GatewayRestart, SetConnectionStatus
    <2> QED BY <1>0, <2>1 DEF SocketTypes, SocketsAgree
  <1>7. CASE UNCHANGED vars
    BY <1>1, <1>7 DEF vars, browserVars, gatewayVars, pageVars, Connected
  <1> QED BY <1>1, <1>2, <1>3, <1>4, <1>5, <1>6, <1>7, ConnectedKept DEF Next, JobStep

-----------------------------------------------------------------------------
(* Who touches no message on its way to assistant-api.                     *)
LEMMA PostKept ==
    ASSUME \/ \E p \in Pages : \/ Disconnect(p) \/ EndSpinner(p) \/ Clear(p)
                               \/ ClearConversation(p) \/ ClearAnswered(p)
           \/ \E k \in Sockets : NoticeDisconnect(k)
           \/ \E w \in Workers : WorkerRestart(w)
           \/ \E w \in Workers, m \in Messages : JobStep(w, m)
    PROVE  UNCHANGED postVars
  <1>1. ASSUME NEW p \in Pages, \/ Disconnect(p) \/ EndSpinner(p) \/ Clear(p)
                                \/ ClearConversation(p) \/ ClearAnswered(p)
        PROVE  UNCHANGED postVars
    BY <1>1 DEF Disconnect, EndSpinner, Clear, ClearConversation, ClearAnswered
  <1>2. ASSUME NEW w \in Workers, Dies(w) PROVE UNCHANGED postVars
    BY <1>2 DEF Dies
  <1>3. ASSUME NEW w \in Workers, NEW m \in Messages, JobStep(w, m)
        PROVE  UNCHANGED postVars
    <2>1. CASE Reserve(w, m) \/ Worker(w, m) \/ ThinkingTick(w, m)
      BY <2>1 DEF Reserve, Worker, Start, Generate, Finish, ThinkingTick
    <2>2. CASE Callback(w, m)
      BY <2>2 DEF Callback, ReceiveResponse, LoseResponse
    <2>3. CASE Thinking(w, m)
      BY <1>2, <2>3 DEF Thinking, ReceiveThinking, ThinkingRejected
    <2> QED BY <1>3, <2>1, <2>2, <2>3 DEF JobStep
  <1> QED BY <1>1, <1>2, <1>3 DEF NoticeDisconnect, WorkerRestart

PostTypes ==
    /\ post \in [Messages -> Stages]
    /\ posting \in SUBSET Messages
    /\ author \in [Messages -> Pages \cup {NoPage}]
    /\ carrier \in [Messages -> Sockets \cup {NoSocket}]
    /\ \A m \in Messages : post[m] = "wire" => carrier[m] # NoSocket

(* A message is typed once, and goes its way from there.                   *)
LEMMA PostStep ==
    ASSUME TypeOK, AuthorsAgree, [Next]_vars
    PROVE  /\ PostTypes' /\ AuthorsAgree'
           /\ \A m \in Messages : post[m] # "unsaid" =>
                 post'[m] # "unsaid" /\ author'[m] = author[m]
  <1> DEFINE Stays == \A m \in Messages : post[m] # "unsaid" =>
                         post'[m] # "unsaid" /\ author'[m] = author[m]
             Goal == PostTypes' /\ AuthorsAgree' /\ Stays
  <1>0. /\ PostTypes /\ NoSocket \notin Sockets /\ NoPage \notin Pages
        /\ socketOf \in [Pages -> Sockets \cup {NoSocket}]
        /\ \A p \in Pages : conn[p] = "connected" <=> socketOf[p] # NoSocket
    BY RegistryAssumption, ChatAssumption DEF TypeOK, PostTypes
  <1>1. CASE UNCHANGED postVars
    BY <1>0, <1>1 DEF postVars, PostTypes, AuthorsAgree
  <1>2. ASSUME author' = author, carrier' \in [Messages -> Sockets \cup {NoSocket}],
               posting' \in SUBSET Messages, post' \in [Messages -> Stages],
               \A m \in Messages :
                  \/ post'[m] = post[m] /\ (post[m] = "wire" => carrier'[m] = carrier[m])
                  \/ post[m] # "unsaid" /\ post'[m] \notin {"unsaid", "wire"}
        PROVE  Goal
    BY <1>0, <1>2 DEF PostTypes, AuthorsAgree
  <1>3. ASSUME NEW p \in Pages, Load(p) PROVE Goal
    <2>1. /\ author' = author /\ carrier' = carrier /\ posting' = posting
          /\ post' = [m \in Messages |->
                        IF author[m] = p /\ post[m] = "buffered" THEN "lost" ELSE post[m]]
      BY <1>3 DEF Load
    <2> QED BY <1>0, <1>2, <2>1 DEF PostTypes, Stages
  <1>4. CASE GatewayRestart
    <2>1. /\ author' = author /\ carrier' = carrier /\ posting' = posting
          /\ post' = [m \in Messages |-> IF post[m] = "forwarding" THEN "lost" ELSE post[m]]
      BY <1>4 DEF GatewayRestart
    <2> QED BY <1>0, <1>2, <2>1 DEF PostTypes, Stages
  <1>5. ASSUME NEW m \in Messages, Gateway(m) PROVE Goal
    <2>1. /\ author' = author /\ post[m] # "unsaid"
          /\ carrier' = carrier \/ carrier' = [carrier EXCEPT ![m] = NoSocket]
          /\ posting' = posting \/ posting' = posting \cup {m}
          /\ \E to \in {"forwarding", "error", "lost", "accepted"} :
                post' = [post EXCEPT ![m] = to]
      BY <1>5 DEF Gateway, ReceiveMessage, LoseMessage, PostAnswered, PostFails
    <2>2. /\ post' \in [Messages -> Stages] /\ posting' \in SUBSET Messages
          /\ carrier' \in [Messages -> Sockets \cup {NoSocket}]
      BY <1>0, <2>1 DEF PostTypes, Stages
    <2>3. /\ post'[m] \notin {"unsaid", "wire"}
          /\ \A n \in Messages \ {m} : post'[n] = post[n] /\ carrier'[n] = carrier[n]
      BY <1>0, <2>1 DEF PostTypes
    <2> QED BY <1>2, <2>1, <2>2, <2>3
  <1>9. ASSUME NEW m \in Messages, Api(m) PROVE Goal
    <2>1. /\ UNCHANGED <<post, author, carrier>> /\ posting' = posting \ {m}
      BY <1>9 DEF Api, ApiAccepts, ApiFails
    <2> QED BY <1>0, <1>2, <2>1 DEF PostTypes
  <1>6. ASSUME NEW p \in Pages, NEW k \in Sockets, Connect(p, k) PROVE Goal
    <2> DEFINE sent == {m \in Messages : author[m] = p /\ post[m] = "buffered"}
    <2>1. /\ author' = author /\ posting' = posting
          /\ post' = [m \in Messages |-> IF m \in sent THEN "wire" ELSE post[m]]
          /\ carrier' = [m \in Messages |-> IF m \in sent THEN k ELSE carrier[m]]
      BY <1>6 DEF Connect
    <2>2. PostTypes'
      BY <1>0, <2>1 DEF PostTypes, Stages
    <2>3. AuthorsAgree' /\ Stays
      BY <1>0, <2>1 DEF PostTypes, AuthorsAgree
    <2> QED BY <2>2, <2>3
  <1>7. ASSUME NEW p \in Pages, NEW m \in Messages, Say(p, m) PROVE Goal
    <2>1. /\ post[m] = "unsaid" /\ posting' = posting
          /\ author' = [author EXCEPT ![m] = p]
          /\ carrier' = [carrier EXCEPT ![m] = socketOf[p]]
          /\ post' = [post EXCEPT ![m] = IF conn[p] = "connected" THEN "wire" ELSE "buffered"]
      BY <1>7 DEF Say
    <2>2. PostTypes'
      <3>1. /\ post' \in [Messages -> Stages] /\ posting' \in SUBSET Messages
            /\ author' \in [Messages -> Pages \cup {NoPage}]
            /\ carrier' \in [Messages -> Sockets \cup {NoSocket}]
        BY <1>0, <2>1 DEF PostTypes, Stages
      <3>2. \A n \in Messages : post'[n] = "wire" => carrier'[n] # NoSocket
        BY <1>0, <2>1 DEF PostTypes
      <3> QED BY <3>1, <3>2 DEF PostTypes
    <2>3. AuthorsAgree' /\ Stays
      BY <1>0, <2>1 DEF PostTypes, AuthorsAgree
    <2> QED BY <2>2, <2>3
  <1>8. CASE UNCHANGED vars
    BY <1>1, <1>8 DEF vars
  <1> QED BY <1>1, <1>3, <1>4, <1>5, <1>6, <1>7, <1>8, <1>9, PostKept DEF Next, JobStep

-----------------------------------------------------------------------------
JobTypes ==
    /\ Queue!TypeOK
    /\ task \in [Workers -> Tasks]
    /\ timers \in SUBSET (Workers \X Messages)
    /\ thinking \in SUBSET (Workers \X Messages)
    /\ responses \in SUBSET (Workers \X Messages)

(* The state of the queue is one in which only held jobs have a holder.    *)
HoldersAgree ==
    /\ Queue!TypeOK
    /\ \A m \in Messages : \A w \in Workers : holder[m] = w => status[m] = "held"

(* What workers do to the queue makes no job new or old.                   *)
LEMMA QueueStep ==
    ASSUME HoldersAgree, NEW w \in Workers, NEW m \in Messages,
           \/ UNCHANGED queueVars
           \/ Queue!Reserve(w, m) \/ Queue!Complete(w, m)
           \/ Queue!Requeue(w, m) \/ Queue!Lose(w, m)
    PROVE  /\ HoldersAgree'
           /\ \A n \in Messages : status'[n] = "new" <=> status[n] = "new"
           /\ \A n \in Messages \ {m} : status'[n] = status[n]
           /\ status[m] \in {"new", "lost", "done"} => status'[m] = status[m]
  <1> USE ChatAssumption DEF HoldersAgree, Queue!TypeOK, Queue!Status, Queue!NoWorker
  <1>1. CASE UNCHANGED queueVars
    BY <1>1 DEF queueVars
  <1>2. CASE Queue!Reserve(w, m)
    BY <1>2 DEF Queue!Reserve
  <1>3. ASSUME NEW to \in {"done", "queued", "lost"}, Queue!Release(w, m, to)
        PROVE  /\ HoldersAgree'
               /\ \A n \in Messages : status'[n] = "new" <=> status[n] = "new"
               /\ \A n \in Messages \ {m} : status'[n] = status[n]
               /\ status[m] \in {"new", "lost", "done"} => status'[m] = status[m]
    BY <1>3 DEF Queue!Release
  <1> QED BY <1>1, <1>2, <1>3 DEF Queue!Complete, Queue!Requeue, Queue!Lose

(* A worker that dies loses the job it holds.                              *)
LEMMA DeathStep ==
    ASSUME HoldersAgree, NEW w \in Workers, Dies(w)
    PROVE  /\ HoldersAgree'
           /\ \A n \in Messages : status'[n] = "new" <=> status[n] = "new"
           /\ \A n \in Messages : status'[n] = status[n] \/ status'[n] = "lost"
  <1> USE ChatAssumption DEF HoldersAgree, Queue!TypeOK, Queue!Status, Queue!NoWorker
  <1>1. /\ status' = [m \in Messages |-> IF holder[m] = w THEN "lost" ELSE status[m]]
        /\ holder' = [m \in Messages |-> IF holder[m] = w THEN "no_worker" ELSE holder[m]]
    BY DEF Dies
  <1> QED BY <1>1

(* What a step of the job m at worker w leaves alone: the other jobs, and  *)
(* everything before the queue.                                            *)
JobEffect(w, m) ==
    /\ JobTypes' /\ HoldersAgree'
    /\ UNCHANGED postVars
    /\ answered \subseteq answered' /\ answered' \subseteq answered \cup {m}
    /\ \A n \in Messages : status'[n] = "new" <=> status[n] = "new"
    /\ \A n \in Messages \ {m} : \A v \in Workers :
          <<v, n>> \in responses' <=> <<v, n>> \in responses
    /\ \A v \in Workers : <<v, m>> \in responses' \/ m \in answered' =>
          \/ status[m] = "held" \/ m \in answered \/ \E u \in Workers : <<u, m>> \in responses

LEMMA JobEffects ==
    ASSUME JobTypes, HoldersAgree, NEW w \in Workers, NEW m \in Messages,
           Reserve(w, m) \/ Worker(w, m) \/ Callback(w, m)
    PROVE  JobEffect(w, m) /\ \A n \in Messages \ {m} : status'[n] = status[n]
  <1>0. /\ task \in [Workers -> Tasks]
        /\ timers \in SUBSET (Workers \X Messages)
        /\ thinking \in SUBSET (Workers \X Messages)
        /\ responses \in SUBSET (Workers \X Messages)
        /\ <<w, m>> \in Workers \X Messages
    BY DEF JobTypes
  <1>1. ASSUME NEW to \in Tasks, Goto(w, to) PROVE task' \in [Workers -> Tasks]
    BY <1>0, <1>1 DEF Goto
  <1>2. /\ "idle" \in Tasks /\ "starting" \in Tasks /\ "generating" \in Tasks
        /\ "responding" \in Tasks /\ "saving" \in Tasks
    BY DEF Tasks
  <1>3. CASE Reserve(w, m)
    <2>1. /\ HoldersAgree'
          /\ \A n \in Messages : status'[n] = "new" <=> status[n] = "new"
          /\ \A n \in Messages \ {m} : status'[n] = status[n]
      BY <1>3, QueueStep DEF Reserve
    <2>2. UNCHANGED <<postVars, answered, timers, thinking, responses>>
      BY <1>3 DEF Reserve, gatewayVars
    <2>3. task' \in [Workers -> Tasks]
      BY <1>1, <1>2, <1>3 DEF Reserve
    <2> QED BY <1>0, <2>1, <2>2, <2>3 DEF JobEffect, JobTypes, HoldersAgree
  <1>4. CASE Start(w, m)
    <2>1. /\ HoldersAgree'
          /\ \A n \in Messages : status'[n] = "new" <=> status[n] = "new"
          /\ \A n \in Messages \ {m} : status'[n] = status[n]
      BY <1>4, QueueStep DEF Start
    <2>2. UNCHANGED <<postVars, answered, thinking, responses>>
      BY <1>4 DEF Start, gatewayVars
    <2>3. task' \in [Workers -> Tasks]
      BY <1>1, <1>2, <1>4 DEF Start
    <2>4. timers' \in SUBSET (Workers \X Messages)
      BY <1>0, <1>4 DEF Start
    <2> QED BY <1>0, <2>1, <2>2, <2>3, <2>4 DEF JobEffect, JobTypes, HoldersAgree
  <1>5. CASE Generate(w, m)
    <2>1. /\ HoldersAgree'
          /\ \A n \in Messages : status'[n] = "new" <=> status[n] = "new"
          /\ \A n \in Messages \ {m} : status'[n] = status[n]
      BY <1>5, QueueStep DEF Generate
    <2>2. UNCHANGED <<postVars, answered, thinking>>
      BY <1>5 DEF Generate, gatewayVars
    <2>3. task' \in [Workers -> Tasks]
      BY <1>1, <1>2, <1>5 DEF Generate
    <2>4. /\ timers' \in SUBSET (Workers \X Messages)
          /\ responses' \in SUBSET (Workers \X Messages)
          /\ responses' \subseteq responses \cup {<<w, m>>} /\ responses \subseteq responses'
      BY <1>0, <1>5 DEF Generate
    <2>5. status[m] = "held"
      BY <1>5 DEF Generate, HoldersAgree
    <2> QED BY <1>0, <2>1, <2>2, <2>3, <2>4, <2>5 DEF JobEffect, JobTypes, HoldersAgree
  <1>6. CASE Finish(w, m)
    <2>1. /\ HoldersAgree'
          /\ \A n \in Messages : status'[n] = "new" <=> status[n] = "new"
          /\ \A n \in Messages \ {m} : status'[n] = status[n]
      BY <1>6, QueueStep DEF Finish
    <2>2. UNCHANGED <<postVars, answered, timers, thinking, responses>>
      BY <1>6 DEF Finish, gatewayVars
    <2>3. task' \in [Workers -> Tasks]
      BY <1>1, <1>2, <1>6 DEF Finish
    <2> QED BY <1>0, <2>1, <2>2, <2>3 DEF JobEffect, JobTypes, HoldersAgree
  <1>7. ASSUME ResponseOk(w, m) \/ ResponseFails(w, m)
        PROVE  /\ HoldersAgree'
               /\ \A n \in Messages : status'[n] = "new" <=> status[n] = "new"
               /\ \A n \in Messages \ {m} : status'[n] = status[n]
               /\ task' \in [Workers -> Tasks]
    <2>1. UNCHANGED queueVars \/ Queue!Requeue(w, m)
      BY <1>7 DEF ResponseOk, ResponseFails, queueVars
    <2>2. task' = task \/ Goto(w, "saving") \/ Goto(w, "idle")
      BY <1>7 DEF ResponseOk, ResponseFails
    <2> QED BY <1>0, <1>1, <1>2, <2>1, <2>2, QueueStep
  <1>8. CASE ReceiveResponse(w, m) \/ LoseResponse(w, m)
    <2>1. /\ <<w, m>> \in responses
          /\ responses' = responses \ {<<w, m>>}
          /\ UNCHANGED <<postVars, timers, thinking>>
          /\ answered' \in {answered, answered \cup {m}}
      BY <1>8 DEF ReceiveResponse, LoseResponse, gatewayVars
    <2>2. ResponseOk(w, m) \/ ResponseFails(w, m)
      BY <1>8 DEF ReceiveResponse, LoseResponse
    <2> QED BY <1>0, <1>7, <2>1, <2>2 DEF JobEffect, JobTypes, HoldersAgree
  <1> QED BY <1>3, <1>4, <1>5, <1>6, <1>8 DEF Worker, Callback

(* The steps that touch no job and no worker.                              *)
EarlySteps ==
    \/ \E p \in Pages : PageStep(p)
    \/ \E k \in Sockets : NoticeDisconnect(k)
    \/ GatewayRestart
    \/ \E m \in Messages : Gateway(m) \/ ApiFails(m)

LEMMA JobsKept ==
    ASSUME EarlySteps PROVE UNCHANGED <<queueVars, workerVars, answered>>
  <1>1. ASSUME NEW p \in Pages, PageStep(p)
        PROVE  UNCHANGED <<queueVars, workerVars, answered>>
    BY <1>1 DEF PageStep, Load, Connect, Disconnect, EndSpinner, Clear, ClearConversation,
       ClearAnswered, Say, gatewayVars
  <1>2. ASSUME NEW m \in Messages, Gateway(m) \/ ApiFails(m)
        PROVE  UNCHANGED <<queueVars, workerVars, answered>>
    BY <1>2 DEF Gateway, ReceiveMessage, LoseMessage, PostAnswered, PostFails, ApiFails,
       gatewayVars
  <1> QED BY <1>1, <1>2 DEF EarlySteps, NoticeDisconnect, GatewayRestart, gatewayVars

(* Where they take a message that is posted, or post one.                  *)
LEMMA PostGoesOn ==
    ASSUME TypeOK, EarlySteps
    PROVE  \A m \in Messages :
              /\ post[m] \in Posted => post'[m] \in Posted
              /\ post'[m] = "accepted" => post[m] = "accepted" \/ status[m] # "new"
              /\ m \in posting' => m \in posting \/ (post[m] = "wire" /\ post'[m] \in Posted)
  <1> DEFINE Goal ==
               \A m \in Messages :
                  /\ post[m] \in Posted => post'[m] \in Posted
                  /\ post'[m] = "accepted" => post[m] = "accepted" \/ status[m] # "new"
                  /\ m \in posting' =>
                        m \in posting \/ (post[m] = "wire" /\ post'[m] \in Posted)
  <1>0. post \in [Messages -> Stages] /\ posting \in SUBSET Messages
    BY DEF TypeOK
  <1>1. ASSUME NEW p \in Pages, Load(p) PROVE Goal
    BY <1>0, <1>1 DEF Load, Posted
  <1>2. ASSUME NEW p \in Pages, NEW k \in Sockets, Connect(p, k) PROVE Goal
    BY <1>0, <1>2 DEF Connect, Posted
  <1>3. ASSUME NEW p \in Pages, NEW n \in Messages, Say(p, n) PROVE Goal
    BY <1>0, <1>3 DEF Say, Posted
  <1>4. CASE GatewayRestart
    BY <1>0, <1>4 DEF GatewayRestart, Posted
  <1>5. ASSUME NEW n \in Messages, Gateway(n) \/ ApiFails(n) PROVE Goal
    <2>1. CASE ReceiveMessage(n) \/ LoseMessage(n)
      BY <1>0, <2>1 DEF ReceiveMessage, LoseMessage, Posted
    <2>2. CASE PostAnswered(n) \/ PostFails(n) \/ ApiFails(n)
      BY <1>0, <2>2 DEF PostAnswered, PostFails, ApiFails, Posted
    <2> QED BY <1>5, <2>1, <2>2 DEF Gateway
  <1>6. CASE UNCHANGED postVars
    BY <1>6 DEF postVars
  <1> QED BY <1>1, <1>2, <1>3, <1>4, <1>5, <1>6, PostKept DEF EarlySteps, PageStep

LEMMA JobsStep ==
    ASSUME TypeOK, JobsAgree, [Next]_vars
    PROVE  JobTypes' /\ JobsAgree' /\ answered \subseteq answered'
  <1> DEFINE Goal == JobTypes' /\ JobsAgree' /\ answered \subseteq answered'
  <1>0. JobTypes /\ HoldersAgree /\ post \in [Messages -> Stages]
    BY DEF TypeOK, JobTypes, HoldersAgree, JobsAgree
  <1>1. CASE EarlySteps
    <2>1. UNCHANGED <<queueVars, workerVars, answered>>
      BY <1>1, JobsKept
    <2>2. \A m \in Messages :
             /\ post[m] \in Posted => post'[m] \in Posted
             /\ post'[m] = "accepted" => post[m] = "accepted" \/ status[m] # "new"
             /\ m \in posting' => m \in posting \/ (post[m] = "wire" /\ post'[m] \in Posted)
      BY <1>1, PostGoesOn
    <2>3. \A m \in Messages : post[m] = "wire" => status[m] = "new"
      BY DEF JobsAgree, Posted
    <2>4. JobTypes'
      BY <1>0, <2>1 DEF JobTypes, Queue!TypeOK, queueVars, workerVars
    <2>5. JobsAgree'
      BY <2>1, <2>2, <2>3 DEF JobsAgree, queueVars, workerVars
    <2> QED BY <2>1, <2>4, <2>5
  <1>2. ASSUME NEW m \in Messages, ApiAccepts(m) PROVE Goal
    <2>1. /\ status[m] = "new" /\ status' = [status EXCEPT ![m] = "queued"]
          /\ holder' = holder /\ answered' = answered
          /\ post' = post /\ m \in posting /\ posting' = posting \ {m}
          /\ task' = task /\ timers' = timers /\ thinking' = thinking
          /\ responses' = responses
      BY <1>2 DEF ApiAccepts, Queue!Enqueue, gatewayVars, workerVars
    <2>2. JobTypes'
      BY <1>0, <2>1 DEF JobTypes, Queue!TypeOK, Queue!Status
    <2>3. JobsAgree'
      BY <1>0, <2>1 DEF JobsAgree, HoldersAgree, Queue!TypeOK
    <2> QED BY <2>1, <2>2, <2>3
  <1>3. ASSUME NEW w \in Workers, NEW m \in Messages,
               Reserve(w, m) \/ Worker(w, m) \/ Callback(w, m)
        PROVE  Goal
    <2>1. JobEffect(w, m)
      BY <1>0, <1>3, JobEffects
    <2>2. JobsAgree'
      <3> SUFFICES ASSUME NEW n \in Messages
                   PROVE  /\ status'[n] # "new" \/ n \in posting' => post'[n] \in Posted
                          /\ n \in posting' => status'[n] = "new"
                          /\ post'[n] = "accepted" => status'[n] # "new"
                          /\ n \in answered' => status'[n] # "new"
                          /\ \A v \in Workers : <<v, n>> \in responses' => status'[n] # "new"
                          /\ \A v \in Workers : holder'[n] = v => status'[n] = "held"
        BY DEF JobsAgree
      <3>1. /\ post' = post /\ posting' = posting
            /\ status'[n] = "new" <=> status[n] = "new"
        BY <2>1 DEF JobEffect, postVars
      <3>2. \A v \in Workers : holder'[n] = v => status'[n] = "held"
        BY <2>1 DEF JobEffect, HoldersAgree
      <3>3. CASE n # m
        BY <2>1, <3>1, <3>2, <3>3 DEF JobEffect, JobsAgree
      <3>4. CASE n = m
        <4>1. ASSUME NEW v \in Workers, <<v, m>> \in responses' \/ m \in answered'
              PROVE  status[m] # "new"
          BY <2>1, <4>1 DEF JobEffect, JobsAgree
        <4>2. m \in answered' => status[m] # "new"
          BY <1>3, <4>1
        <4> QED BY <3>1, <3>2, <3>4, <4>1, <4>2 DEF JobsAgree
      <3> QED BY <3>3, <3>4
    <2> QED BY <2>1, <2>2 DEF JobEffect
  <1>4. ASSUME NEW w \in Workers, Dies(w), thinking' \subseteq thinking PROVE Goal
    <2>1. /\ HoldersAgree'
          /\ \A n \in Messages : status'[n] = "new" <=> status[n] = "new"
      BY <1>0, <1>4, DeathStep
    <2>2. /\ post' = post /\ posting' = posting
          /\ answered' = answered /\ responses' = responses
          /\ timers' \subseteq timers /\ Goto(w, "idle")
      BY <1>4 DEF Dies, postVars, gatewayVars
    <2>3. task' \in [Workers -> Tasks]
      BY <1>0, <2>2 DEF Goto, JobTypes, Tasks
    <2>4. JobTypes'
      BY <1>0, <1>4, <2>1, <2>2, <2>3 DEF JobTypes, HoldersAgree
    <2>5. JobsAgree'
      BY <1>0, <2>1, <2>2 DEF JobsAgree, HoldersAgree
    <2> QED BY <2>2, <2>4, <2>5
  <1>5. ASSUME NEW w \in Workers, NEW m \in Messages,
               ThinkingTick(w, m) \/ ReceiveThinking(w, m)
        PROVE  Goal
    <2>1. /\ UNCHANGED <<post, posting, queueVars, task, timers, responses, answered>>
          /\ thinking' \in SUBSET (Workers \X Messages)
      BY <1>0, <1>5 DEF ThinkingTick, ReceiveThinking, gatewayVars, postVars, JobTypes
    <2> QED BY <1>0, <2>1 DEF JobTypes, JobsAgree, Queue!TypeOK, queueVars
  <1>6. CASE UNCHANGED vars
    BY <1>0, <1>6 DEF vars, queueVars, workerVars, gatewayVars, postVars, JobTypes, JobsAgree,
       Queue!TypeOK
  <1>7. ASSUME NEW w \in Workers, WorkerRestart(w) PROVE Goal
    BY <1>4, <1>7 DEF WorkerRestart
  <1>8. ASSUME NEW w \in Workers, NEW m \in Messages, ThinkingRejected(w, m) PROVE Goal
    BY <1>4, <1>8 DEF ThinkingRejected
  <1> QED
    BY <1>1, <1>2, <1>3, <1>5, <1>6, <1>7, <1>8 DEF EarlySteps, Next, PageStep, Api, Thinking

-----------------------------------------------------------------------------
(* Who changes no screen and no history file.                              *)
Screens == <<shown, thinkingMessage, thinkingTimer, clearing, history>>

LEMMA ScreensKept ==
    ASSUME \/ \E p \in Pages : \/ Disconnect(p) \/ \E k \in Sockets : Connect(p, k)
                               \/ \E m \in Messages : Say(p, m)
           \/ \E k \in Sockets : NoticeDisconnect(k)
           \/ \E m \in Messages : Gateway(m) \/ Api(m)
           \/ \E w \in Workers : WorkerRestart(w)
           \/ \E w \in Workers, m \in Messages :
                 \/ Reserve(w, m) \/ Worker(w, m) \/ LoseResponse(w, m)
                 \/ ThinkingTick(w, m) \/ ThinkingRejected(w, m)
    PROVE  UNCHANGED Screens
  <1> USE DEF Screens, browserVars, gatewayVars, pageVars, screenVars
  <1>1. ASSUME NEW p \in Pages, \/ Disconnect(p) \/ \E k \in Sockets : Connect(p, k)
                                \/ \E m \in Messages : Say(p, m)
        PROVE  UNCHANGED Screens
    BY <1>1 DEF Disconnect, Connect, Say
  <1>2. ASSUME NEW m \in Messages, Gateway(m) \/ Api(m) PROVE UNCHANGED Screens
    BY <1>2 DEF Gateway, ReceiveMessage, LoseMessage, PostAnswered, PostFails, Api,
       ApiAccepts, ApiFails
  <1>3. ASSUME NEW w \in Workers, Dies(w) PROVE UNCHANGED Screens
    BY <1>3 DEF Dies
  <1>4. ASSUME NEW w \in Workers, NEW m \in Messages,
               \/ Reserve(w, m) \/ Worker(w, m) \/ LoseResponse(w, m)
               \/ ThinkingTick(w, m) \/ ThinkingRejected(w, m)
        PROVE  UNCHANGED Screens
    <2>1. CASE Reserve(w, m) \/ Worker(w, m) \/ ThinkingTick(w, m)
      BY <2>1 DEF Reserve, Worker, Start, Generate, Finish, ThinkingTick
    <2>2. CASE LoseResponse(w, m) \/ ThinkingRejected(w, m)
      BY <1>3, <2>2 DEF LoseResponse, ThinkingRejected
    <2> QED BY <1>4, <2>1, <2>2
  <1>5. ASSUME NEW k \in Sockets, NoticeDisconnect(k) PROVE UNCHANGED Screens
    BY <1>5 DEF NoticeDisconnect
  <1> QED BY <1>1, <1>2, <1>3, <1>4, <1>5 DEF WorkerRestart

ScreenTypes ==
    /\ shown \in [Pages -> SUBSET Messages]
    /\ thinkingMessage \in [Pages -> BOOLEAN]
    /\ thinkingTimer \in [Pages -> BOOLEAN]
    /\ clearing \in [Pages -> {"no", "sent", "erased"}]
    /\ history \in [Sessions -> SUBSET Messages]

(* The pages an emit reaches are of the session it is meant for.           *)
LEMMA ReachedIsOwn ==
    ASSUME TypeOK, IInv, SocketsAgree, NEW s \in Sessions
    PROVE  \A p \in Reached(s) : p \in Pages /\ home[p] = s
  BY DEF Reached, SocketsAgree, IInv, RegistryInv, EntryIsLive

(* A reply for m belongs where m does.                                     *)
OwnReply(m, s) == m \in answered' /\ post[m] # "unsaid" /\ home[author[m]] = s

(* What a page or a file shows after a step was there, comes from the file *)
(* of the session, or is a reply to a message of the session.              *)
LEMMA RepliesStep ==
    ASSUME TypeOK, IInv, SocketsAgree, AuthorsAgree, JobsAgree, RepliesAreOwn, [Next]_vars
    PROVE  /\ ScreenTypes'
           /\ \A p \in Pages : \A m \in shown'[p] : OwnReply(m, home[p])
           /\ \A s \in Sessions : \A m \in history'[s] : OwnReply(m, s)
  <1> DEFINE Goal ==
               /\ ScreenTypes'
               /\ \A p \in Pages : \A m \in shown'[p] : OwnReply(m, home[p])
               /\ \A s \in Sessions : \A m \in history'[s] : OwnReply(m, s)
  <1>0. ScreenTypes /\ home \in [Pages -> Sessions]
    BY DEF TypeOK, PageTypeOK, ScreenTypes
  <1>a. answered \subseteq answered' /\ \A m \in Messages : m \in answered => post[m] # "unsaid"
    BY JobsStep DEF JobsAgree, Posted
  <1>b. /\ \A p \in Pages : \A m \in shown[p] : OwnReply(m, home[p])
        /\ \A s \in Sessions : \A m \in history[s] : OwnReply(m, s)
    BY <1>0, <1>a DEF RepliesAreOwn, OwnReply, ScreenTypes
  <1>1. CASE UNCHANGED Screens
    BY <1>0, <1>1, <1>b DEF Screens, ScreenTypes
  <1>2. ASSUME NEW p \in Pages, Load(p) PROVE Goal
    <2>1. /\ shown' = [shown EXCEPT ![p] = history[home[p]]]
          /\ thinkingTimer' = [q \in Pages |-> q \notin {p} /\ thinkingTimer[q]]
          /\ thinkingMessage' = [q \in Pages |-> q \notin {p} /\ thinkingMessage[q]]
          /\ clearing' = [clearing EXCEPT ![p] = "no"]
          /\ history' = history
      BY <1>2 DEF Load, LoadPage, ClearThinking
    <2>2. ScreenTypes'
      BY <1>0, <2>1 DEF ScreenTypes
    <2> QED BY <1>0, <1>b, <2>1, <2>2 DEF ScreenTypes
  <1>3. CASE GatewayRestart
    <2>1. UNCHANGED <<screenVars, history>> /\ clearing' = [p \in Pages |-> "no"]
      BY <1>3 DEF GatewayRestart
    <2> QED BY <1>0, <1>b, <2>1 DEF ScreenTypes, screenVars
  <1>4. ASSUME NEW p \in Pages, EndSpinner(p) PROVE Goal
    <2>1. /\ UNCHANGED <<shown, clearing, history>>
          /\ thinkingTimer' = [q \in Pages |-> q \notin {p} /\ thinkingTimer[q]]
          /\ thinkingMessage' = [q \in Pages |-> q \notin {p} /\ thinkingMessage[q]]
      BY <1>4 DEF EndSpinner, ThinkingTimeout, ClearThinking, gatewayVars
    <2> QED BY <1>0, <1>b, <2>1 DEF ScreenTypes
  <1>5. ASSUME NEW p \in Pages, Clear(p) PROVE Goal
    <2>1. UNCHANGED <<screenVars, history>> /\ clearing' = [clearing EXCEPT ![p] = "sent"]
      BY <1>5 DEF Clear, ClickClear, gatewayVars
    <2> QED BY <1>0, <1>b, <2>1 DEF ScreenTypes, screenVars
  <1>6. ASSUME NEW p \in Pages, ClearConversation(p) PROVE Goal
    <2>1. /\ UNCHANGED screenVars
          /\ clearing' = [clearing EXCEPT ![p] = "erased"]
          /\ history' = [history EXCEPT ![home[p]] = {}]
      BY <1>6 DEF ClearConversation
    <2> QED BY <1>0, <1>b, <2>1 DEF ScreenTypes, screenVars
  <1>7. ASSUME NEW p \in Pages, ClearAnswered(p) PROVE Goal
    <2>1. CASE ClearMessages(p) /\ UNCHANGED history
      <3>1. /\ clearing' = [clearing EXCEPT ![p] = "no"]
            /\ thinkingTimer' = [q \in Pages |-> q \notin {p} /\ thinkingTimer[q]]
            /\ thinkingMessage' = [q \in Pages |-> q \notin {p} /\ thinkingMessage[q]]
            /\ shown' = [shown EXCEPT ![p] = {}]
        BY <2>1 DEF ClearMessages, ClearThinking
      <3> QED BY <1>0, <1>b, <2>1, <3>1 DEF ScreenTypes
    <2>2. CASE ClearFails(p) /\ UNCHANGED history
      <3>1. UNCHANGED screenVars /\ clearing' = [clearing EXCEPT ![p] = "no"]
        BY <2>2 DEF ClearFails
      <3> QED BY <1>0, <1>b, <2>2, <3>1 DEF ScreenTypes, screenVars
    <2> QED BY <1>7, <2>1, <2>2 DEF ClearAnswered, gatewayVars
  <1>8. ASSUME NEW w \in Workers, NEW m \in Messages, ReceiveResponse(w, m) PROVE Goal
    <2> DEFINE s == SessionOf(m)
    <2>1. post[m] # "unsaid" /\ author[m] \in Pages /\ s \in Sessions
      <3>1. <<w, m>> \in responses
        BY <1>8 DEF ReceiveResponse
      <3> QED BY <1>0, <3>1 DEF JobsAgree, Posted, AuthorsAgree, SessionOf
    <2>2. /\ history' = [history EXCEPT ![s] = @ \cup {m}]
          /\ answered' = answered \cup {m}
          /\ shown' = [p \in Pages |-> IF p \in Reached(s) THEN shown[p] \cup {m} ELSE shown[p]]
          /\ thinkingTimer' = [q \in Pages |-> q \notin Reached(s) /\ thinkingTimer[q]]
          /\ thinkingMessage' = [q \in Pages |-> q \notin Reached(s) /\ thinkingMessage[q]]
          /\ clearing' = clearing
      BY <1>8 DEF ReceiveResponse, ShowMessage, ClearThinking
    <2>3. ScreenTypes'
      BY <1>0, <2>2 DEF ScreenTypes
    <2>4. OwnReply(m, s)
      BY <2>1, <2>2 DEF OwnReply, SessionOf
    <2>5. \A p \in Reached(s) : home[p] = s
      BY <2>1, ReachedIsOwn
    <2>6. \A p \in Pages : \A n \in shown'[p] : OwnReply(n, home[p])
      <3> SUFFICES ASSUME NEW p \in Pages, NEW n \in shown'[p] PROVE OwnReply(n, home[p])
        OBVIOUS
      <3> HIDE DEF s
      <3>1. n \in shown[p] \/ (p \in Reached(s) /\ n = m)
        BY <2>2
      <3> QED BY <1>b, <2>4, <2>5, <3>1
    <2>7. \A t \in Sessions : \A n \in history'[t] : OwnReply(n, t)
      <3> SUFFICES ASSUME NEW t \in Sessions, NEW n \in history'[t] PROVE OwnReply(n, t)
        OBVIOUS
      <3> HIDE DEF s
      <3>1. n \in history[t] \/ (t = s /\ n = m)
        BY <1>0, <2>2 DEF ScreenTypes
      <3> QED BY <1>b, <2>4, <3>1
    <2> QED BY <2>3, <2>6, <2>7
  <1>9. ASSUME NEW w \in Workers, NEW m \in Messages, ReceiveThinking(w, m) PROVE Goal
    <2>1. /\ UNCHANGED <<shown, clearing, history>>
          /\ thinkingMessage' = [p \in Pages |-> p \in Reached(SessionOf(m)) \/ thinkingMessage[p]]
          /\ thinkingTimer' = [p \in Pages |-> p \in Reached(SessionOf(m)) \/ thinkingTimer[p]]
      BY <1>9 DEF ReceiveThinking, ShowThinking, gatewayVars
    <2> QED BY <1>0, <1>b, <2>1 DEF ScreenTypes
  <1>10. CASE UNCHANGED vars
    BY <1>1, <1>10 DEF vars, browserVars, gatewayVars, pageVars, Screens
  <1> QED
    BY <1>1, <1>2, <1>3, <1>4, <1>5, <1>6, <1>7, <1>8, <1>9, <1>10, ScreensKept
    DEF Next, Callback, Thinking

(* Only the final callback of a message answers it.                        *)
LEMMA AnsweredStep ==
    ASSUME [Next]_vars
    PROVE  \/ answered' = answered
           \/ \E w \in Workers, m \in Messages :
                 ReceiveResponse(w, m) /\ answered' = answered \cup {m}
  <1>1. ASSUME NEW w \in Workers, NEW m \in Messages, JobStep(w, m), ~ReceiveResponse(w, m)
        PROVE  answered' = answered
    <2>1. CASE Reserve(w, m) \/ Worker(w, m) \/ LoseResponse(w, m) \/ ThinkingTick(w, m)
      BY <2>1 DEF Reserve, Worker, Start, Generate, Finish, LoseResponse, ThinkingTick,
         gatewayVars
    <2>2. CASE Thinking(w, m)
      BY <2>2 DEF Thinking, ReceiveThinking, ThinkingRejected, Dies, gatewayVars
    <2> QED BY <1>1, <2>1, <2>2 DEF JobStep, Callback
  <1>2. ASSUME NEW w \in Workers, NEW m \in Messages, ReceiveResponse(w, m)
        PROVE  answered' = answered \cup {m}
    BY <1>2 DEF ReceiveResponse
  <1>3. ASSUME NEW m \in Messages, ApiAccepts(m) PROVE answered' = answered
    BY <1>3 DEF ApiAccepts, gatewayVars
  <1>4. ASSUME NEW w \in Workers, WorkerRestart(w) PROVE answered' = answered
    BY <1>4 DEF WorkerRestart, Dies, gatewayVars
  <1>5. CASE UNCHANGED vars
    BY <1>5 DEF vars, gatewayVars
  <1> QED
    BY <1>1, <1>2, <1>3, <1>4, <1>5, JobsKept DEF EarlySteps, Next, PageStep, JobStep, Api

-----------------------------------------------------------------------------
(* Faults and clicks stay within their bounds.                             *)
LEMMA CountsStep ==
    ASSUME TypeOK, [Next]_vars
    PROVE  faults' \in 0..MaxFaults /\ clears' \in 0..MaxClears
  <1> DEFINE Goal == faults' \in 0..MaxFaults /\ clears' \in 0..MaxClears
  <1>0. /\ MaxFaults \in Nat /\ MaxClears \in Nat
        /\ faults \in 0..MaxFaults /\ clears \in 0..MaxClears
    BY ChatAssumption DEF TypeOK
  <1>1. ASSUME (faults' = faults \/ Fault) /\ clears' = clears PROVE Goal
    BY <1>0, <1>1 DEF Fault
  <1>2. ASSUME NEW p \in Pages, PageStep(p), ~Clear(p) PROVE Goal
    BY <1>1, <1>2 DEF PageStep, Load, Disconnect, EndSpinner, ClearConversation,
       ClearAnswered, Connect, Say
  <1>3. ASSUME NEW p \in Pages, Clear(p) PROVE Goal
    BY <1>0, <1>3 DEF Clear
  <1>4. ASSUME NEW m \in Messages, Gateway(m) \/ Api(m) PROVE Goal
    BY <1>1, <1>4 DEF Gateway, ReceiveMessage, LoseMessage, PostAnswered, PostFails, Api,
       ApiAccepts, ApiFails
  <1>5. ASSUME NEW w \in Workers, Dies(w) PROVE Goal
    BY <1>1, <1>5 DEF Dies
  <1>6. ASSUME NEW w \in Workers, NEW m \in Messages, JobStep(w, m) PROVE Goal
    <2>1. CASE Reserve(w, m) \/ ThinkingTick(w, m) \/ ReceiveThinking(w, m)
      BY <1>1, <2>1 DEF Reserve, ThinkingTick, ReceiveThinking
    <2>2. CASE Worker(w, m)
      BY <1>1, <2>2 DEF Worker, Start, Generate, Finish
    <2>3. CASE Callback(w, m)
      BY <1>1, <2>3 DEF Callback, ReceiveResponse, LoseResponse, ResponseOk, ResponseFails
    <2>4. CASE ThinkingRejected(w, m)
      BY <1>5, <2>4 DEF ThinkingRejected
    <2> QED BY <1>6, <2>1, <2>2, <2>3, <2>4 DEF JobStep, Thinking
  <1>7. CASE GatewayRestart \/ (\E k \in Sockets : NoticeDisconnect(k)) \/ UNCHANGED vars
    BY <1>1, <1>7 DEF GatewayRestart, NoticeDisconnect, vars
  <1> QED BY <1>2, <1>3, <1>4, <1>5, <1>6, <1>7 DEF Next, PageStep, JobStep, WorkerRestart

LEMMA ChatStep == ChatInv /\ [Next]_vars => ChatInv'
  <1> SUFFICES ASSUME ChatInv, [Next]_vars PROVE ChatInv'
    OBVIOUS
  <1>0. TypeOK /\ IInv /\ SocketsAgree /\ AuthorsAgree /\ JobsAgree /\ RepliesAreOwn
    BY DEF ChatInv
  <1>1. IInv' /\ RegistryTypeOK'
    <2>1. IInv'
      BY <1>0, StepIsRegistryStep, RegistryStep
    <2> QED BY <2>1 DEF IInv, RegistryInv
  <1>2. SocketTypes' /\ SocketsAgree' /\ home' = home
    BY <1>0, SocketsStep, HomeIsKept
  <1>3. /\ PostTypes' /\ AuthorsAgree'
        /\ \A m \in Messages : post[m] # "unsaid" => author'[m] = author[m]
    BY <1>0, PostStep
  <1>4. JobTypes' /\ JobsAgree'
    BY <1>0, JobsStep
  <1>5. /\ ScreenTypes'
        /\ \A p \in Pages : \A m \in shown'[p] : OwnReply(m, home[p])
        /\ \A s \in Sessions : \A m \in history'[s] : OwnReply(m, s)
    BY <1>0, RepliesStep
  <1>6. TypeOK'
    <2>1. PageTypeOK'
      BY <1>2, <1>5 DEF PageTypeOK, SocketTypes, ScreenTypes
    <2>2. home' \in [Pages -> Sessions]
      BY <1>0, <1>2 DEF TypeOK
    <2>3. answered' \in SUBSET Messages
      <3>1. answered' \subseteq answered \/ \E m \in Messages : answered' = answered \cup {m}
        BY AnsweredStep
      <3> QED BY <1>0, <3>1 DEF TypeOK
    <2>4. faults' \in 0..MaxFaults /\ clears' \in 0..MaxClears
      BY <1>0, CountsStep
    <2> QED BY <1>1, <1>2, <1>3, <1>4, <1>5, <2>1, <2>2, <2>3, <2>4
            DEF TypeOK, SocketTypes, PostTypes, JobTypes, ScreenTypes
  <1>7. RepliesAreOwn'
    <2>1. \A p \in Pages : \A m \in shown'[p] : m \in Messages
      BY <1>5 DEF ScreenTypes
    <2>2. \A s \in Sessions : \A m \in history'[s] : m \in Messages
      BY <1>5 DEF ScreenTypes
    <2> QED BY <1>2, <1>3, <1>5, <2>1, <2>2 DEF RepliesAreOwn, OwnReply
  <1> QED BY <1>1, <1>2, <1>3, <1>4, <1>6, <1>7 DEF ChatInv

LEMMA ChatInitInv == Init => ChatInv
  <1> SUFFICES ASSUME Init PROVE ChatInv
    OBVIOUS
  <1>1. IInv /\ RegistryTypeOK
    BY RegistryInitInv DEF Init, IInv, RegistryInv
  <1>2. PageTypeOK
    BY DEF Init, PageInit, PageTypeOK
  <1>3. Queue!TypeOK
    BY DEF Init, Queue!Init, Queue!TypeOK, Queue!Status
  <1>4. TypeOK
    BY <1>1, <1>2, <1>3, ChatAssumption DEF Init, PageInit, TypeOK, Stages, Tasks
  <1>5. SocketsAgree /\ AuthorsAgree /\ RepliesAreOwn
    BY DEF Init, PageInit, SocketsAgree, AuthorsAgree, RepliesAreOwn
  <1>6. JobsAgree
    BY ChatAssumption DEF Init, JobsAgree, Queue!Init, Queue!NoWorker
  <1> QED BY <1>1, <1>4, <1>5, <1>6 DEF ChatInv

(* Through every interleaving of pages, gateway, queue and workers, with   *)
(* reconnects, restarts, failing POSTs and late callbacks: a page's socket *)
(* is its own, what was answered with 202 is a job, a job is a message     *)
(* that was posted, and what a page or a history file shows was answered   *)
(* and belongs to its session.                                             *)
THEOREM ChatInvariantHolds == Spec => []ChatInv
  BY ChatInitInv, ChatStep, PTL DEF Spec

(* Every variable of the whole system has its type, and a page shows       *)
(* "connected" exactly while it has a socket.                              *)
THEOREM ChatTypeCorrect == Spec => []TypeOK
  <1>1. ChatInv => TypeOK
    BY DEF ChatInv
  <1> QED BY <1>1, ChatInvariantHolds, PTL

(* The whole system moves the session map of gateway-web by its own        *)
(* handlers only, so that what is proved of the map holds in it.           *)
THEOREM SystemImplementsRegistry == Spec => RegistrySpec
  <1>1. Init => RegistryInit
    BY DEF Init
  <1>2. TypeOK /\ [Next]_vars => [RegistryNext]_registryVars
    BY StepIsRegistryStep
  <1> QED BY <1>1, <1>2, ChatTypeCorrect, PTL DEF Spec, RegistrySpec

-----------------------------------------------------------------------------
(* Phase as a table: at most one line of it applies to a message.          *)
PhaseIsTable ==
    \A m \in Messages :
        /\ m \in answered => Phase(m) = "answered"
        /\ m \notin answered =>
              /\ post[m] = "unsaid" => Phase(m) = "unsaid"
              /\ post[m] \in {"buffered", "wire"} => Phase(m) = "said"
              /\ post[m] \in {"forwarding", "accepted"} =>
                    Phase(m) = IF Gone(m) THEN "lost" ELSE "kept"
              /\ post[m] = "error" =>
                    Phase(m) = IF Unqueued(m) THEN "refused"
                               ELSE IF Gone(m) THEN "lost" ELSE "denied"
              /\ post[m] = "lost" =>
                    Phase(m) = IF Unqueued(m) \/ Gone(m) THEN "lost" ELSE "kept"

LEMMA PhaseTable == PhaseIsTable
  BY DEF PhaseIsTable, Phase

LEMMA PhaseTableNext == PhaseIsTable'
  BY PhaseTable, PTL

(* What the pages show after a step is what Chat allows.                   *)
LEMMA PagesShowOwnAnswers ==
    ASSUME ChatInv'
    PROVE  Abstract!PagesShowAnswers /\ Abstract!OwnSessionOnly
  <1>1. shown' \in [Pages -> SUBSET Messages] /\ RepliesAreOwn' /\ PhaseIsTable'
    BY PhaseTableNext DEF ChatInv, TypeOK, PageTypeOK
  <1>2. \A p \in Pages : \A m \in shown'[p] :
            m \in Messages /\ Phase(m)' = "answered" /\ home'[author'[m]] = home'[p]
    BY <1>1 DEF RepliesAreOwn, PhaseIsTable
  <1>3. shown' \in [Pages -> SUBSET {m \in Messages : [n \in Messages |-> Phase(n)'][m] = "answered"}]
    BY <1>1, <1>2
  <1> QED BY <1>2, <1>3 DEF Abstract!PagesShowAnswers, Abstract!OwnSessionOnly

(* The three kinds of step that Chat knows: a message moves on,            *)
LEMMA StepMovesOne ==
    ASSUME ChatInv', author' = author, home' = home, NEW m \in Messages,
           \A n \in Messages \ {m} : Phase(n)' = Phase(n),
           \/ Phase(m) = "said" /\ Phase(m)' = "kept"
           \/ Phase(m) \in {"kept", "denied"} /\ Phase(m)' = "answered"
           \/ Phase(m) = "kept" /\ Phase(m)' = "denied"
           \/ Phase(m) \in Abstract!Open /\ Phase(m)' = "refused"
    PROVE  Abstract!Next
  <1>1. [n \in Messages |-> Phase(n)'] =
            [[n \in Messages |-> Phase(n)] EXCEPT ![m] = Phase(m)']
    OBVIOUS
  <1>2. Abstract!Keep(m) \/ Abstract!Answer(m) \/ Abstract!Deny(m) \/ Abstract!Refuse(m)
    BY <1>1 DEF Abstract!Keep, Abstract!Answer, Abstract!Deny, Abstract!Refuse, Abstract!Become
  <1> QED BY <1>2, PagesShowOwnAnswers DEF Abstract!Next

(* a message is typed,                                                     *)
LEMMA StepSaysOne ==
    ASSUME ChatInv', home' = home, NEW m \in Messages, NEW p \in Pages,
           author' = [author EXCEPT ![m] = p],
           \A n \in Messages \ {m} : Phase(n)' = Phase(n),
           Phase(m) = "unsaid", Phase(m)' = "said"
    PROVE  Abstract!Next
  <1>1. [n \in Messages |-> Phase(n)'] =
            [[n \in Messages |-> Phase(n)] EXCEPT ![m] = "said"]
    OBVIOUS
  <1>2. Abstract!Say(m, p)
    BY <1>1 DEF Abstract!Say
  <1> QED BY <1>2, PagesShowOwnAnswers DEF Abstract!Next

(* or some messages are lost, if any.                                      *)
LEMMA StepLosesSome ==
    ASSUME ChatInv', author' = author, home' = home,
           \A m \in Messages : \/ Phase(m)' = Phase(m)
                               \/ Phase(m) \in Abstract!Open /\ Phase(m)' = "lost"
    PROVE  Abstract!Next
  <1> DEFINE S == {m \in Messages : Phase(m)' # Phase(m)}
  <1>1. [m \in Messages |-> Phase(m)'] =
            [m \in Messages |-> IF m \in S THEN "lost"
                                ELSE [n \in Messages |-> Phase(n)][m]]
    OBVIOUS
  <1>2. \A m \in S : [n \in Messages |-> Phase(n)][m] \in Abstract!Open
    OBVIOUS
  <1>3. Abstract!Lose(S)
    BY <1>1, <1>2 DEF Abstract!Lose
  <1>4. S \in SUBSET Messages
    OBVIOUS
  <1> QED BY <1>3, <1>4, PagesShowOwnAnswers DEF Abstract!Next

-----------------------------------------------------------------------------
(* Before the queue: a message whose post stays keeps its phase.           *)
LEMMA PhaseFollowsPost ==
    ASSUME UNCHANGED <<queueVars, workerVars, answered>>, NEW m \in Messages,
           post'[m] = post[m], m \in posting' <=> m \in posting
    PROVE  Phase(m)' = Phase(m)
  BY DEF Phase, Unqueued, Gone, queueVars, workerVars

LEMMA EarlyStep ==
    ASSUME ChatInv, ChatInv', [Next]_vars, EarlySteps PROVE Abstract!Next
  <1>0. /\ UNCHANGED <<queueVars, workerVars, answered>> /\ home' = home
        /\ PhaseIsTable /\ PhaseIsTable'
        /\ post \in [Messages -> Stages] /\ author \in [Messages -> Pages \cup {NoPage}]
        /\ \A m \in Messages : post[m] \notin Posted =>
              m \notin answered /\ m \notin posting /\ status[m] = "new"
    BY JobsKept, HomeIsKept, PhaseTable, PhaseTableNext DEF ChatInv, TypeOK, JobsAgree
  <1>a. \A m \in Messages : post'[m] = post[m] /\ (m \in posting' <=> m \in posting)
            => Phase(m)' = Phase(m)
    BY <1>0, PhaseFollowsPost
  <1>b. \A m \in Messages : post[m] \in {"buffered", "wire"} =>
            /\ Phase(m) = "said" /\ Unqueued(m)
            /\ m \notin posting' => Unqueued(m)' /\ m \notin answered'
    BY <1>0 DEF PhaseIsTable, Posted, Unqueued, queueVars
  <1>c. \A m \in Messages : (Gone(m)' <=> Gone(m)) /\ (Gone(m) => ~Unqueued(m))
    BY <1>0 DEF Gone, Unqueued, queueVars, workerVars
  <1>1. CASE UNCHANGED postVars
    BY <1>0, <1>1, <1>a, StepLosesSome DEF postVars
  <1>2. ASSUME NEW p \in Pages, Load(p) PROVE Abstract!Next
    <2>1. /\ author' = author /\ posting' = posting
          /\ post' = [m \in Messages |->
                        IF author[m] = p /\ post[m] = "buffered" THEN "lost" ELSE post[m]]
      BY <1>2 DEF Load
    <2>2. \A m \in Messages : \/ Phase(m)' = Phase(m)
                              \/ Phase(m) = "said" /\ Phase(m)' = "lost"
      <3> SUFFICES ASSUME NEW m \in Messages, post'[m] = "lost", post[m] = "buffered"
                   PROVE  Phase(m) = "said" /\ Phase(m)' = "lost"
        BY <1>a, <2>1
      <3>1. m \notin posting
        BY <1>0 DEF Posted
      <3> QED BY <1>0, <1>b, <2>1, <3>1 DEF PhaseIsTable
    <2> QED BY <1>0, <2>1, <2>2, StepLosesSome DEF Abstract!Open
  <1>3. ASSUME NEW p \in Pages, NEW k \in Sockets, Connect(p, k) PROVE Abstract!Next
    <2>1. /\ author' = author /\ posting' = posting
          /\ \A m \in Messages : \/ post'[m] = post[m]
                                 \/ post'[m] = "wire" /\ post[m] = "buffered"
      BY <1>0, <1>3 DEF Connect
    <2>2. \A m \in Messages : Phase(m)' = Phase(m)
      BY <1>0, <1>a, <2>1 DEF PhaseIsTable
    <2> QED BY <1>0, <2>1, <2>2, StepLosesSome
  <1>4. ASSUME NEW p \in Pages, NEW m \in Messages, Say(p, m) PROVE Abstract!Next
    <2>1. /\ post[m] = "unsaid" /\ author' = [author EXCEPT ![m] = p]
          /\ post'[m] \in {"buffered", "wire"} /\ posting' = posting
          /\ \A n \in Messages \ {m} : post'[n] = post[n]
      BY <1>0, <1>4 DEF Say
    <2>2. m \notin answered
      BY <1>0, <2>1 DEF Posted
    <2>3. Phase(m) = "unsaid" /\ Phase(m)' = "said"
      BY <1>0, <2>1, <2>2 DEF PhaseIsTable
    <2> QED BY <1>0, <1>a, <2>1, <2>3, StepSaysOne
  <1>5. CASE GatewayRestart
    <2>1. /\ author' = author /\ posting' = posting
          /\ \A m \in Messages : \/ post'[m] = post[m]
                                 \/ post'[m] = "lost" /\ post[m] = "forwarding"
      BY <1>0, <1>5 DEF GatewayRestart
    <2>2. ASSUME NEW m \in Messages, post'[m] = "lost", post[m] = "forwarding"
          PROVE  \/ Phase(m)' = Phase(m)
                 \/ Phase(m) = "kept" /\ Phase(m)' = "lost"
      BY <1>0, <1>c, <2>2 DEF PhaseIsTable
    <2> QED BY <1>0, <1>a, <2>1, <2>2, StepLosesSome DEF Abstract!Open
  <1>6. ASSUME NEW m \in Messages, ReceiveMessage(m) \/ LoseMessage(m) PROVE Abstract!Next
    <2>1. /\ author' = author /\ post[m] = "wire"
          /\ \A n \in Messages \ {m} : post'[n] = post[n] /\ (n \in posting' <=> n \in posting)
          /\ \/ post'[m] = "forwarding" /\ m \in posting'
             \/ post'[m] \in {"error", "lost"} /\ posting' = posting
      BY <1>0, <1>6 DEF ReceiveMessage, LoseMessage
    <2>2. m \notin answered' /\ m \notin posting /\ Phase(m) = "said" /\ ~Gone(m)'
      BY <1>0, <1>b, <1>c, <2>1 DEF Posted
    <2>3. CASE post'[m] = "lost"
      <3>1. Phase(m)' = "lost"
        BY <1>0, <1>b, <2>1, <2>2, <2>3 DEF PhaseIsTable
      <3> QED BY <1>0, <1>a, <2>1, <2>2, <3>1, StepLosesSome DEF Abstract!Open
    <2>4. CASE post'[m] \in {"forwarding", "error"}
      <3>1. Phase(m)' \in {"kept", "refused"}
        BY <1>0, <1>b, <2>1, <2>2, <2>4 DEF PhaseIsTable
      <3> QED BY <1>0, <1>a, <2>1, <2>2, <3>1, StepMovesOne DEF Abstract!Open
    <2> QED BY <2>1, <2>3, <2>4
  <1>7. ASSUME NEW m \in Messages, PostAnswered(m) \/ PostFails(m) PROVE Abstract!Next
    <2>1. /\ author' = author /\ post[m] = "forwarding" /\ posting' = posting
          /\ \A n \in Messages \ {m} : post'[n] = post[n]
          /\ post'[m] \in {"accepted", "error"}
      BY <1>0, <1>7 DEF PostAnswered, PostFails
    <2>0. Unqueued(m)' <=> Unqueued(m)
      BY <1>0, <2>1 DEF Unqueued, queueVars
    <2>2. \/ Phase(m)' = Phase(m)
          \/ Phase(m) = "kept" /\ Phase(m)' \in {"denied", "refused"}
      BY <1>0, <1>c, <2>0, <2>1 DEF PhaseIsTable
    <2> QED BY <1>0, <1>a, <2>1, <2>2, StepMovesOne, StepLosesSome DEF Abstract!Open
  <1>8. ASSUME NEW m \in Messages, ApiFails(m) PROVE Abstract!Next
    <2>1. /\ author' = author /\ post' = post /\ m \in posting
          /\ m \notin posting' /\ \A n \in Messages \ {m} : n \in posting' <=> n \in posting
      BY <1>8 DEF ApiFails
    <2>2. post[m] \in Posted /\ ~Unqueued(m) /\ Unqueued(m)' /\ ~Gone(m)
      BY <1>0, <2>1 DEF Unqueued, Gone, ChatInv, JobsAgree, queueVars
    <2>3. \/ Phase(m)' = Phase(m)
          \/ Phase(m) = "kept" /\ Phase(m)' = "lost"
          \/ Phase(m) = "denied" /\ Phase(m)' = "refused"
      BY <1>0, <1>c, <2>1, <2>2 DEF PhaseIsTable, Posted
    <2> QED BY <1>0, <1>a, <2>1, <2>3, StepMovesOne, StepLosesSome DEF Abstract!Open
  <1> QED
    BY <1>1, <1>2, <1>3, <1>4, <1>5, <1>6, <1>7, <1>8, PostKept
    DEF EarlySteps, PageStep, Gateway

(* What is in the queue stands like what is on its way there.              *)
LEMMA AcceptStep ==
    ASSUME ChatInv, ChatInv', [Next]_vars, NEW m \in Messages, ApiAccepts(m)
    PROVE  Abstract!Next
  <1>0. home' = home /\ status \in [Messages -> Queue!Status]
    BY HomeIsKept DEF ChatInv, TypeOK, Queue!TypeOK
  <1>1. /\ m \in posting /\ posting' = posting \ {m} /\ post' = post
        /\ status[m] = "new" /\ status' = [status EXCEPT ![m] = "queued"]
        /\ answered' = answered /\ responses' = responses /\ author' = author
    BY DEF ApiAccepts, Queue!Enqueue, gatewayVars, workerVars
  <1>2. \A n \in Messages :
            (Unqueued(n)' <=> Unqueued(n)) /\ (Gone(n)' <=> Gone(n))
    BY <1>0, <1>1 DEF Unqueued, Gone
  <1>3. \A n \in Messages : Phase(n)' = Phase(n)
    BY <1>1, <1>2 DEF Phase
  <1> QED BY <1>0, <1>1, <1>3, StepLosesSome

-----------------------------------------------------------------------------
(* A lost job stays lost, and is not answered.                             *)
LEMMA LostIsFinal ==
    ASSUME HoldersAgree, NEW w \in Workers, NEW m \in Messages,
           Reserve(w, m) \/ Worker(w, m) \/ Callback(w, m)
    PROVE  status[m] = "lost" => status'[m] = "lost"
  <1>1. CASE Reserve(w, m) \/ Worker(w, m)
    BY <1>1, QueueStep DEF Reserve, Worker, Start, Generate, Finish
  <1>2. CASE Callback(w, m)
    <2>1. UNCHANGED queueVars \/ Queue!Requeue(w, m)
      BY <1>2 DEF Callback, ReceiveResponse, LoseResponse, ResponseOk, ResponseFails,
         queueVars
    <2> QED BY <2>1, QueueStep
  <1> QED BY <1>1, <1>2

(* A step at or behind the queue that answers no message.                  *)
LEMMA LateStep ==
    ASSUME ChatInv, ChatInv', [Next]_vars,
           UNCHANGED <<postVars, answered>>,
           \A m \in Messages : status'[m] = "new" <=> status[m] = "new",
           \A m \in Messages : Gone(m) /\ m \notin answered => Gone(m)'
    PROVE  Abstract!Next
  <1>0. /\ PhaseIsTable /\ PhaseIsTable' /\ home' = home
        /\ post' = post /\ answered' = answered /\ author' = author
        /\ post \in [Messages -> Stages]
        /\ \A m \in Messages : Unqueued(m)' <=> Unqueued(m)
    BY HomeIsKept, PhaseTable, PhaseTableNext DEF ChatInv, TypeOK, postVars, Unqueued
  <1>1. ASSUME NEW m \in Messages
        PROVE  \/ Phase(m)' = Phase(m)
               \/ Phase(m) \in Abstract!Open /\ Phase(m)' = "lost"
    <2>1. CASE m \in answered \/ post[m] \notin Posted
      BY <1>0, <2>1 DEF PhaseIsTable, Stages, Posted
    <2>2. CASE m \notin answered /\ post[m] \in Posted
      <3>1. Gone(m) => Gone(m)'
        BY <2>2
      <3> QED BY <1>0, <2>2, <3>1 DEF PhaseIsTable, Posted, Abstract!Open
    <2> QED BY <2>1, <2>2
  <1> QED BY <1>0, <1>1, StepLosesSome

LEMMA WorkStep ==
    ASSUME ChatInv, ChatInv', [Next]_vars, NEW w \in Workers, NEW m \in Messages,
           Reserve(w, m) \/ Worker(w, m) \/ Callback(w, m)
    PROVE  Abstract!Next
  <1>0. JobTypes /\ HoldersAgree /\ PhaseIsTable /\ PhaseIsTable' /\ home' = home
    BY HomeIsKept, PhaseTable, PhaseTableNext
    DEF ChatInv, TypeOK, JobTypes, HoldersAgree, JobsAgree
  <1>1. /\ JobEffect(w, m)
        /\ \A n \in Messages \ {m} : status'[n] = status[n]
        /\ status[m] = "lost" => status'[m] = "lost"
    BY <1>0, JobEffects, LostIsFinal
  <1>2. /\ UNCHANGED postVars
        /\ answered' = answered \/ (m \notin answered /\ answered' = answered \cup {m})
        /\ \A n \in Messages \ {m} : Gone(n)' <=> Gone(n)
        /\ \A n \in Messages : status'[n] = "new" <=> status[n] = "new"
    BY <1>1 DEF JobEffect, Gone
  <1>3. CASE answered' = answered
    <2>1. Gone(m) /\ m \notin answered => Gone(m)'
      BY <1>1, <1>3 DEF JobEffect, Gone
    <2> QED BY <1>2, <1>3, <2>1, LateStep
  <1>4. CASE m \notin answered /\ answered' = answered \cup {m}
    <2>1. <<w, m>> \in responses
      <3>1. ReceiveResponse(w, m)
        BY <1>4 DEF Reserve, Worker, Start, Generate, Finish, Callback, LoseResponse, gatewayVars
      <3> QED BY <3>1 DEF ReceiveResponse
    <2>2. post[m] \in Posted /\ ~Unqueued(m) /\ ~Gone(m)
      BY <2>1 DEF ChatInv, JobsAgree, Unqueued, Gone
    <2>3. Phase(m) \in {"kept", "denied"} /\ Phase(m)' = "answered"
      BY <1>0, <1>4, <2>2 DEF PhaseIsTable, Posted
    <2>4. \A n \in Messages \ {m} : Phase(n)' = Phase(n)
      <3> SUFFICES ASSUME NEW n \in Messages \ {m} PROVE Phase(n)' = Phase(n)
        OBVIOUS
      <3>1. post' = post /\ posting' = posting
        BY <1>2 DEF postVars
      <3>2. Unqueued(n)' <=> Unqueued(n)
        BY <1>2, <3>1 DEF Unqueued
      <3>3. n \in answered' <=> n \in answered
        BY <1>4
      <3>4. Gone(n)' <=> Gone(n)
        BY <1>2
      <3>5. post[n] \in Stages
        BY DEF ChatInv, TypeOK
      <3> QED BY <1>0, <3>1, <3>2, <3>3, <3>4, <3>5 DEF PhaseIsTable, Stages
    <2>5. author' = author
      BY <1>2 DEF postVars
    <2> QED BY <1>0, <2>3, <2>4, <2>5, StepMovesOne
  <1> QED BY <1>2, <1>3, <1>4

LEMMA DeathOrThinkingStep ==
    ASSUME ChatInv, ChatInv', [Next]_vars, NEW w \in Workers,
           Dies(w) \/ \E m \in Messages : ThinkingTick(w, m) \/ ReceiveThinking(w, m)
    PROVE  Abstract!Next
  <1>1. CASE Dies(w)
    <2>1. \A n \in Messages : /\ status'[n] = status[n] \/ status'[n] = "lost"
                              /\ status'[n] = "new" <=> status[n] = "new"
      <3>1. HoldersAgree
        BY DEF ChatInv, TypeOK, HoldersAgree, JobsAgree
      <3> QED BY <1>1, <3>1, DeathStep
    <2>2. UNCHANGED <<postVars, answered>> /\ responses' = responses
      BY <1>1 DEF Dies, gatewayVars
    <2> QED BY <2>1, <2>2, LateStep DEF Gone
  <1>2. ASSUME NEW m \in Messages, ThinkingTick(w, m) \/ ReceiveThinking(w, m)
        PROVE  Abstract!Next
    <2>1. UNCHANGED <<postVars, answered, status, responses>>
      BY <1>2 DEF ThinkingTick, ReceiveThinking, gatewayVars, queueVars
    <2> QED BY <2>1, LateStep DEF Gone
  <1> QED BY <1>1, <1>2

(* Every step of the whole system is one of Chat or leaves it alone: the   *)
(* promise to the user holds for any number of pages, sessions, messages,  *)
(* workers, reconnects, clears, failing calls and restarts, and for a POST *)
(* that is queued though its sender is told of an error.                   *)
THEOREM SystemImplementsChat == Spec => ImplementsChat
  <1>1. Init => Abstract!Init
    <2> SUFFICES ASSUME Init PROVE Abstract!Init
      OBVIOUS
    <2>1. \A m \in Messages : Phase(m) = "unsaid"
      BY ChatInitInv, PhaseTable DEF Init, PhaseIsTable
    <2> QED BY <2>1 DEF Init, PageInit, Abstract!Init
  <1>2. ChatInv /\ ChatInv' /\ [Next]_vars => [Abstract!Next]_(Abstract!vars)
    <2> SUFFICES ASSUME ChatInv, ChatInv', [Next]_vars
                 PROVE  Abstract!Next \/ UNCHANGED Abstract!vars
      OBVIOUS
    <2>1. CASE UNCHANGED vars
      <3>1. UNCHANGED <<queueVars, workerVars, answered, post, posting, author, home, shown>>
        BY <2>1 DEF vars, browserVars, gatewayVars, pageVars, postVars
      <3>2. \A m \in Messages : Phase(m)' = Phase(m)
        BY <3>1, PhaseFollowsPost
      <3> QED BY <3>1, <3>2 DEF Abstract!vars
    <2>2. ASSUME NEW w \in Workers, NEW m \in Messages, JobStep(w, m) PROVE Abstract!Next
      BY <2>2, WorkStep, DeathOrThinkingStep DEF JobStep, Thinking, ThinkingRejected
    <2>3. ASSUME NEW w \in Workers, WorkerRestart(w) PROVE Abstract!Next
      BY <2>3, DeathOrThinkingStep DEF WorkerRestart
    <2> QED
      BY <2>1, <2>2, <2>3, EarlyStep, AcceptStep DEF EarlySteps, Next, PageStep, JobStep, Api
  <1> QED
    BY <1>1, <1>2, ChatInvariantHolds, PTL DEF Spec, ImplementsChat, Abstract!Spec

-----------------------------------------------------------------------------
(* The queue in the whole system                                           *)

(* A worker is at work on the one job it holds, and waits for the answer   *)
(* to a callback only while that callback is under way.                    *)
WorkersGoOn ==
    /\ \A m, n \in Messages : holder[m] = holder[n] => m = n \/ holder[m] = Queue!NoWorker
    /\ \A w \in Workers : task[w] # "idle" <=> \E m \in Messages : holder[m] = w
    /\ \A w \in Workers, m \in Messages :
          task[w] = "responding" /\ holder[m] = w => <<w, m>> \in responses

(* The worker goes on with the job it holds, or gives it up.               *)
LEMMA GoesOn ==
    ASSUME JobTypes, WorkersGoOn, NEW w \in Workers, NEW m \in Messages, holder[m] = w,
           NEW t \in Tasks, Goto(w, t),
           responses \ {<<w, m>>} \subseteq responses',
           \/ /\ holder' = holder /\ t # "idle"
              /\ t = "responding" => <<w, m>> \in responses'
           \/ holder' = [holder EXCEPT ![m] = Queue!NoWorker] /\ t = "idle"
    PROVE  WorkersGoOn'
  <1>0. /\ task \in [Workers -> Tasks] /\ w # Queue!NoWorker
        /\ holder \in [Messages -> Workers \cup {Queue!NoWorker}]
        /\ \A n \in Messages : holder[n] = w => n = m
        /\ Queue!NoWorker \notin Workers
    BY ChatAssumption DEF JobTypes, Queue!TypeOK, Queue!NoWorker, WorkersGoOn
  <1>1. /\ task'[w] = t /\ \A v \in Workers \ {w} : task'[v] = task[v]
        /\ \A n \in Messages \ {m} : holder'[n] = holder[n]
        /\ holder'[m] = IF t = "idle" THEN Queue!NoWorker ELSE w
    BY <1>0 DEF Goto
  <1>2. ASSUME NEW v \in Workers
        PROVE  task'[v] # "idle" <=> \E n \in Messages : holder'[n] = v
    <2>1. CASE v = w
      BY <1>0, <1>1, <2>1
    <2>2. CASE v # w
      <3>1. task[v] # "idle" <=> \E n \in Messages : holder[n] = v
        BY DEF WorkersGoOn
      <3>2. \A n \in Messages : holder'[n] = v <=> holder[n] = v
        BY <1>0, <1>1, <2>2
      <3> QED BY <1>1, <2>2, <3>1, <3>2
    <2> QED BY <2>1, <2>2
  <1>3. ASSUME NEW v \in Workers, NEW n \in Messages,
               task'[v] = "responding", holder'[n] = v
        PROVE  <<v, n>> \in responses'
    <2>1. CASE n = m
      BY <1>0, <1>1, <1>3, <2>1
    <2>2. CASE n # m
      <3>1. holder[n] = v /\ v # w
        BY <1>0, <1>1, <1>3, <2>2
      <3>2. <<v, n>> \in responses /\ <<v, n>> # <<w, m>>
        BY <1>1, <1>3, <2>2, <3>1 DEF WorkersGoOn
      <3> QED BY <3>2
    <2> QED BY <2>1, <2>2
  <1>4. \A n, o \in Messages : holder'[n] = holder'[o] => n = o \/ holder'[n] = Queue!NoWorker
    BY <1>0, <1>1 DEF WorkersGoOn
  <1> QED BY <1>2, <1>3, <1>4 DEF WorkersGoOn

LEMMA WorkersStep ==
    ASSUME JobTypes, HoldersAgree, WorkersGoOn, NEW w \in Workers, NEW m \in Messages,
           Reserve(w, m) \/ Worker(w, m) \/ Callback(w, m)
    PROVE  WorkersGoOn' /\ (Queue!Next \/ UNCHANGED queueVars)
  <1>0. /\ task \in [Workers -> Tasks] /\ w # Queue!NoWorker
        /\ holder \in [Messages -> Workers \cup {Queue!NoWorker}]
        /\ Queue!NoWorker \notin Workers
    BY ChatAssumption DEF JobTypes, Queue!TypeOK, Queue!NoWorker
  <1>1. Queue!Reserve(w, m) \/ Queue!Complete(w, m) \/ Queue!Requeue(w, m) \/ Queue!Lose(w, m)
            => Queue!Next
    BY DEF Queue!Next
  <1>2. Queue!Complete(w, m) \/ Queue!Requeue(w, m) \/ Queue!Lose(w, m)
            => holder[m] = w /\ holder' = [holder EXCEPT ![m] = Queue!NoWorker]
    BY DEF Queue!Complete, Queue!Requeue, Queue!Lose, Queue!Release
  <1>3. CASE Reserve(w, m)
    <2>1. /\ task[w] = "idle" /\ task' = [task EXCEPT ![w] = "starting"]
          /\ responses' = responses /\ Queue!Reserve(w, m)
      BY <1>3 DEF Reserve, Goto
    <2>2. /\ \A n \in Messages : holder[n] # w
          /\ holder' = [holder EXCEPT ![m] = w]
          /\ holder[m] \notin Workers
      BY <1>0, <2>1 DEF Queue!Reserve, HoldersAgree
    <2>3. \A v \in Workers : task'[v] # "idle" <=> \E n \in Messages : holder'[n] = v
      BY <1>0, <2>1, <2>2 DEF WorkersGoOn
    <2>4. \A n, o \in Messages : holder'[n] = holder'[o] => n = o \/ holder'[n] = Queue!NoWorker
      BY <1>0, <2>2 DEF WorkersGoOn
    <2>5. \A v \in Workers, n \in Messages :
             task'[v] = "responding" /\ holder'[n] = v => <<v, n>> \in responses'
      BY <1>0, <2>1, <2>2 DEF WorkersGoOn
    <2> QED BY <1>1, <2>1, <2>3, <2>4, <2>5 DEF WorkersGoOn
  <1>4. CASE Start(w, m) \/ Generate(w, m) \/ Finish(w, m)
    <2>1. /\ holder[m] = w /\ responses \subseteq responses'
          /\ \/ /\ UNCHANGED queueVars
                /\ \/ Goto(w, "generating")
                   \/ Goto(w, "responding") /\ <<w, m>> \in responses'
             \/ /\ Goto(w, "idle")
                /\ Queue!Complete(w, m) \/ Queue!Requeue(w, m) \/ Queue!Lose(w, m)
      BY <1>4 DEF Start, Generate, Finish
    <2>2. /\ "idle" \in Tasks /\ "generating" \in Tasks /\ "responding" \in Tasks
      BY DEF Tasks
    <2>3. WorkersGoOn'
      BY <1>2, <2>1, <2>2, GoesOn DEF queueVars
    <2> QED BY <1>1, <2>1, <2>3
  <1>5. CASE ReceiveResponse(w, m) \/ LoseResponse(w, m)
    <2>1. responses' = responses \ {<<w, m>>} /\ (ResponseOk(w, m) \/ ResponseFails(w, m))
      BY <1>5 DEF ReceiveResponse, LoseResponse
    <2>2. CASE task[w] = "responding" /\ holder[m] = w
      <3>1. \/ UNCHANGED queueVars /\ Goto(w, "saving")
            \/ Queue!Requeue(w, m) /\ Goto(w, "idle")
        BY <2>1, <2>2 DEF ResponseOk, ResponseFails
      <3>2. "idle" \in Tasks /\ "saving" \in Tasks
        BY DEF Tasks
      <3> QED BY <1>1, <1>2, <2>1, <2>2, <3>1, <3>2, GoesOn DEF queueVars
    <2>3. CASE ~(task[w] = "responding" /\ holder[m] = w)
      <3>1. UNCHANGED <<task, queueVars>>
        BY <2>1, <2>3 DEF ResponseOk, ResponseFails
      <3> QED BY <2>1, <2>3, <3>1 DEF WorkersGoOn, queueVars
    <2> QED BY <2>2, <2>3
  <1> QED BY <1>3, <1>4, <1>5 DEF Worker, Callback

LEMMA WorkerDies ==
    ASSUME JobTypes, HoldersAgree, WorkersGoOn, NEW w \in Workers, Dies(w)
    PROVE  WorkersGoOn' /\ (Queue!Next \/ UNCHANGED queueVars)
  <1>0. /\ task \in [Workers -> Tasks] /\ w # Queue!NoWorker
        /\ status \in [Messages -> Queue!Status]
        /\ holder \in [Messages -> Workers \cup {Queue!NoWorker}]
        /\ Queue!NoWorker \notin Workers
    BY ChatAssumption DEF JobTypes, Queue!TypeOK, Queue!NoWorker
  <1>1. /\ status' = [m \in Messages |-> IF holder[m] = w THEN "lost" ELSE status[m]]
        /\ holder' = [m \in Messages |-> IF holder[m] = w THEN Queue!NoWorker ELSE holder[m]]
        /\ task' = [task EXCEPT ![w] = "idle"] /\ responses' = responses
    BY DEF Dies, Goto
  <1>2. WorkersGoOn'
    <2>1. ASSUME NEW v \in Workers
          PROVE  task'[v] # "idle" <=> \E n \in Messages : holder'[n] = v
      <3>1. CASE v = w
        BY <1>0, <1>1, <3>1
      <3>2. CASE v # w
        <4>1. \A n \in Messages : holder'[n] = v <=> holder[n] = v
          BY <1>0, <1>1, <3>2
        <4> QED BY <1>0, <1>1, <3>2, <4>1 DEF WorkersGoOn
      <3> QED BY <3>1, <3>2
    <2>2. \A n, o \in Messages : holder'[n] = holder'[o] => n = o \/ holder'[n] = Queue!NoWorker
      BY <1>0, <1>1 DEF WorkersGoOn
    <2>3. \A v \in Workers, n \in Messages :
             task'[v] = "responding" /\ holder'[n] = v => <<v, n>> \in responses'
      BY <1>0, <1>1 DEF WorkersGoOn
    <2> QED BY <2>1, <2>2, <2>3 DEF WorkersGoOn
  <1>3. CASE \E m \in Messages : holder[m] = w
    <2>1. PICK m \in Messages : holder[m] = w
      BY <1>3
    <2>2. status[m] = "held" /\ \A n \in Messages : holder[n] = w => n = m
      BY <1>0, <2>1 DEF HoldersAgree, WorkersGoOn
    <2>3. Queue!Lose(w, m)
      BY <1>0, <1>1, <2>1, <2>2 DEF Queue!Lose, Queue!Release
    <2> QED BY <1>2, <2>3 DEF Queue!Next
  <1>4. CASE \A m \in Messages : holder[m] # w
    BY <1>0, <1>1, <1>2, <1>4 DEF queueVars
  <1> QED BY <1>3, <1>4

LEMMA QueueFollows ==
    ASSUME ChatInv, WorkersGoOn, [Next]_vars
    PROVE  WorkersGoOn' /\ (Queue!Next \/ UNCHANGED queueVars)
  <1>0. JobTypes /\ HoldersAgree
    BY DEF ChatInv, TypeOK, JobTypes, HoldersAgree, JobsAgree
  <1>1. ASSUME UNCHANGED <<queueVars, task, responses>>
        PROVE  WorkersGoOn' /\ (Queue!Next \/ UNCHANGED queueVars)
    BY <1>1 DEF WorkersGoOn, queueVars
  <1>2. CASE EarlySteps
    BY <1>1, <1>2, JobsKept DEF workerVars
  <1>3. ASSUME NEW m \in Messages, ApiAccepts(m)
        PROVE  WorkersGoOn' /\ (Queue!Next \/ UNCHANGED queueVars)
    <2>1. Queue!Enqueue(m) /\ UNCHANGED <<task, responses>>
      BY <1>3 DEF ApiAccepts, workerVars
    <2>2. holder' = holder
      BY <2>1 DEF Queue!Enqueue
    <2> QED BY <2>1, <2>2 DEF WorkersGoOn, Queue!Next
  <1>4. ASSUME NEW w \in Workers, NEW m \in Messages,
               ThinkingTick(w, m) \/ ReceiveThinking(w, m)
        PROVE  WorkersGoOn' /\ (Queue!Next \/ UNCHANGED queueVars)
    BY <1>1, <1>4 DEF ThinkingTick, ReceiveThinking
  <1>5. CASE UNCHANGED vars
    BY <1>1, <1>5 DEF vars, workerVars
  <1> QED
    BY <1>0, <1>2, <1>3, <1>4, <1>5, WorkersStep, WorkerDies
    DEF EarlySteps, Next, PageStep, Api, Thinking, ThinkingRejected, WorkerRestart

LEMMA WorkersInit == Init => WorkersGoOn
  BY ChatAssumption DEF Init, WorkersGoOn, Queue!Init, Queue!NoWorker

(* Through late and lost callbacks, retries and dying workers, a job that  *)
(* is held is one its worker is at work on, a worker holds one job, and    *)
(* none waits for the answer to a callback that is no longer under way:    *)
(* whatever fails, no job is stuck in the queue as held.                   *)
THEOREM HeldJobsGoOn == Spec => []WorkersGoOn
  <1>1. ChatInv /\ WorkersGoOn /\ [Next]_vars => WorkersGoOn'
    BY QueueFollows
  <1> QED BY <1>1, WorkersInit, ChatInvariantHolds, PTL DEF Spec

(* The seam of the composition: whatever pages, gateway and callbacks do,  *)
(* the queue of the whole system goes through JobLifecycle, which both     *)
(* adapters and the worker with its files are shown to implement.          *)
THEOREM SystemImplementsQueue == Spec => Queue!Spec
  <1>1. Init => Queue!Init
    BY DEF Init
  <1>2. ChatInv /\ WorkersGoOn /\ [Next]_vars => [Queue!Next]_(Queue!vars)
    BY QueueFollows DEF queueVars, Queue!vars
  <1> QED BY <1>1, <1>2, ChatInvariantHolds, HeldJobsGoOn, PTL DEF Spec, Queue!Spec

-----------------------------------------------------------------------------
(* The spinners of the pages                                               *)

SpinnersAreTimed == \A p \in Pages : thinkingMessage[p] => thinkingTimer[p]

(* Who ends a spinner ends its timer with it, and who shows one sets it.   *)
LEMMA SpinnersStep ==
    ASSUME TypeOK, SpinnersAreTimed, [Next]_vars
    PROVE  SpinnersAreTimed'
  <1>1. ASSUME NEW P \in SUBSET Pages, ClearThinking(P) PROVE SpinnersAreTimed'
    BY <1>1 DEF ClearThinking, SpinnersAreTimed
  <1>2. ASSUME UNCHANGED <<thinkingMessage, thinkingTimer>> PROVE SpinnersAreTimed'
    BY <1>2 DEF SpinnersAreTimed
  <1>3. ASSUME NEW p \in Pages, Load(p) \/ EndSpinner(p) PROVE SpinnersAreTimed'
    BY <1>1, <1>3 DEF Load, LoadPage, EndSpinner, ThinkingTimeout
  <1>4. ASSUME NEW p \in Pages, Clear(p) \/ ClearConversation(p) \/ ClearAnswered(p)
        PROVE  SpinnersAreTimed'
    BY <1>1, <1>2, <1>4
    DEF Clear, ClickClear, ClearConversation, ClearAnswered, ClearMessages, ClearFails, screenVars
  <1>5. ASSUME NEW w \in Workers, NEW m \in Messages, ReceiveResponse(w, m)
        PROVE  SpinnersAreTimed'
    <2>1. Reached(SessionOf(m)) \in SUBSET Pages
      BY DEF Reached
    <2>2. ClearThinking(Reached(SessionOf(m)))
      BY <1>5 DEF ReceiveResponse, ShowMessage
    <2> QED BY <1>1, <2>1, <2>2
  <1>6. ASSUME NEW w \in Workers, NEW m \in Messages, ReceiveThinking(w, m)
        PROVE  SpinnersAreTimed'
    BY <1>6 DEF ReceiveThinking, ShowThinking, SpinnersAreTimed
  <1>7. CASE UNCHANGED Screens \/ GatewayRestart \/ UNCHANGED vars
    BY <1>2, <1>7 DEF Screens, GatewayRestart, vars, browserVars, pageVars, screenVars
  <1> QED
    BY <1>3, <1>4, <1>5, <1>6, <1>7, ScreensKept DEF Next, PageStep, Callback, Thinking

(* However late a thinking callback comes, and whatever reply, reload or   *)
(* clear meets it, a page that shows the spinner has its timeout running:  *)
(* no spinner depends on a reply that may never come to go away.           *)
THEOREM SpinnersHaveTimers == Spec => []SpinnersAreTimed
  <1>1. Init => SpinnersAreTimed
    BY DEF Init, PageInit, SpinnersAreTimed
  <1> QED BY <1>1, SpinnersStep, ChatTypeCorrect, PTL DEF Spec
=============================================================================
