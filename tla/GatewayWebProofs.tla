-------------------------- MODULE GatewayWebProofs --------------------------
(***************************************************************************)
(* gateway-web for any number of sessions, sockets and handlers: its       *)
(* sockets are those of SessionRegistry; nothing is forwarded or shown     *)
(* before it is stored; replies and history files stay in their session;   *)
(* an empty file has a writer or a failure.                                *)
(***************************************************************************)
EXTENDS GatewayWeb, SessionRegistryProofs, SequenceTheorems

(* What a handler knows about itself once it has begun.                    *)
HandlersKnow ==
    /\ \A h \in Handlers : pc[h] = "new" <=> home[h] = NoSession
    /\ \A h \in Handlers : pc[h] = "new" => base[h] = <<>>
    /\ \A p \in Posts : pc[p] # "new" => about[p] = p
    /\ \A c \in Callbacks : pc[c] # "new" => about[c] \in queued /\ home[c] = home[about[c]]
    /\ \A p \in queued : pc[p] # "new"

(* A handler that forwards or delivers has written its entry.              *)
StoredFirst ==
    /\ StoredBeforeForwarded
    /\ \A h \in Handlers : pc[h] \in {"sending", "delivering"} => h \in stored

(* A socket has a session for good when it has connected, a handler when it*)
(* has begun.                                                              *)
SocketsKnow ==
    /\ RightSession
    /\ \A k \in Sockets : \A c \in shown[k] : home[c] # NoSession
    /\ \A k \in Sockets : link[k] = "new" <=> session[k] = NoSession

(* The messages t are those of session s.                                  *)
Genuine(s, t) ==
    \A i \in 1..Len(t) :
        /\ home[t[i].post] = s
        /\ t[i].role = "assistant" => t[i].post \in queued

(* What a handler has read is as genuine as the file it read.              *)
AllGenuine ==
    /\ HistoryIsGenuine
    /\ \A h \in Handlers : Genuine(home[h], base[h])

GatewayInv ==
    TypeOK /\ HandlersKnow /\ StoredFirst /\ SocketsKnow /\ AllGenuine /\ EmptyFileHasWriter

-----------------------------------------------------------------------------
(* What the three kinds of handlers do to the registry: nothing.           *)
LEMMA HandlersKeepRegistry ==
    ASSUME \/ \E p \in Posts, k \in Sockets : ReceiveMessage(p, k)
           \/ \E c \in Callbacks, p \in Posts : ReceiveCallback(c, p)
           \/ \E x \in Clears, s \in Sessions : ReceiveClear(x, s)
           \/ \E h \in Handlers : Store(h) \/ Finish(h)
           \/ \E p \in Posts : ApiAccepts(p)
    PROVE  UNCHANGED registryVars
  BY DEF ReceiveMessage, ReceiveCallback, ReceiveClear, Begin, Store, Finish, ApiAccepts,
         ReadConversation, ReadFails, OpenFile, WriteFile, WriteFails, ApiAnswers, Deliver

(* The sockets of gateway-web are those of SessionRegistry.                *)
LEMMA StepIsRegistryStep == [Next]_vars => [RegistryNext]_registryVars
  <1> SUFFICES ASSUME [Next]_vars PROVE [RegistryNext]_registryVars
    OBVIOUS
  <1>1. CASE Socket
    BY <1>1 DEF Socket, RegistryNext
  <1>2. CASE Restart
    BY <1>2 DEF Restart, RegistryNext
  <1>3. CASE UNCHANGED vars
    BY <1>3 DEF vars
  <1> QED BY <1>1, <1>2, <1>3, HandlersKeepRegistry DEF Next

(* Whatever the handlers of messages, callbacks and clears do in between,  *)
(* the map of sockets is maintained by connections and disconnections      *)
(* alone, so that what is proved of SessionRegistry holds in gateway-web.  *)
THEOREM GatewayImplementsRegistry == Spec => RegistrySpec
  <1>1. Init => RegistryInit
    BY DEF Init
  <1> QED BY <1>1, StepIsRegistryStep, PTL DEF Spec, RegistrySpec

-----------------------------------------------------------------------------
(* Handlers are of one kind, and the markers are none of them.             *)
LEMMA Kinds ==
    /\ Posts \subseteq Handlers /\ Callbacks \subseteq Handlers /\ Clears \subseteq Handlers
    /\ \A h \in Handlers : h \in Posts \/ h \in Callbacks \/ h \in Clears
    /\ Posts \cap Callbacks = {} /\ Posts \cap Clears = {} /\ Callbacks \cap Clears = {}
    /\ NoPost \notin Posts /\ NoSession \notin Sessions /\ NoSocket \notin Sockets
  BY GatewayAssumption, RegistryAssumption DEF Handlers

(* LastMessages keeps the type and invents no message.                     *)
LEMMA LastMessagesFacts ==
    ASSUME NEW t \in Seq(Message)
    PROVE  /\ LastMessages(t) \in Seq(Message)
           /\ \A i \in 1..Len(LastMessages(t)) :
                 \E j \in 1..Len(t) : LastMessages(t)[i] = t[j]
  <1> DEFINE m == IF Len(t) > MaxMessages THEN Len(t) - MaxMessages + 1 ELSE 1
  <1>1. m \in 1..Len(t) + 1 /\ Len(t) \in Nat
    BY GatewayAssumption, LenProperties
  <1>2. LastMessages(t) = SubSeq(t, m, Len(t))
    BY DEF LastMessages
  <1> HIDE DEF m
  <1>3. /\ SubSeq(t, m, Len(t)) \in Seq(Message)
        /\ Len(SubSeq(t, m, Len(t))) = IF m <= Len(t) THEN Len(t) - m + 1 ELSE 0
        /\ \A i \in 1..Len(t) - m + 1 : SubSeq(t, m, Len(t))[i] = t[m + i - 1]
    BY <1>1, SubSeqProperties
  <1>4. ASSUME NEW i \in 1..Len(SubSeq(t, m, Len(t)))
        PROVE  \E j \in 1..Len(t) : SubSeq(t, m, Len(t))[i] = t[j]
    <2>1. i \in 1..Len(t) - m + 1 /\ m + i - 1 \in 1..Len(t)
      BY <1>1, <1>3, <1>4
    <2> QED BY <1>3, <2>1
  <1> QED BY <1>2, <1>3, <1>4

(* The entry of a handler that is not a clear is a message.                *)
LEMMA EntryIsMessage ==
    ASSUME TypeOK, HandlersKnow, NEW h \in Handlers \ Clears, pc[h] # "new"
    PROVE  /\ Entry(h) \in Message
           /\ home[Entry(h).post] = home[h]
           /\ Entry(h).role = "assistant" => Entry(h).post \in queued
  BY Kinds DEF TypeOK, HandlersKnow, Entry, Message

(* What a handler writes is well typed and genuine.                        *)
LEMMA NextHistoryFacts ==
    ASSUME TypeOK, HandlersKnow, AllGenuine, NEW h \in Handlers, pc[h] # "new"
    PROVE  NextHistory(h) \in Seq(Message) /\ Genuine(home[h], NextHistory(h))
  <1>1. CASE h \in Clears
    BY <1>1 DEF NextHistory, Genuine
  <1>2. CASE h \notin Clears
    <2> DEFINE e == Entry(h)
               t == Append(base[h], e)
    <2>1. base[h] \in Seq(Message) /\ e \in Message
      BY <1>2, EntryIsMessage DEF TypeOK
    <2>2. home[e.post] = home[h] /\ (e.role = "assistant" => e.post \in queued)
      BY <1>2, EntryIsMessage
    <2>3. Genuine(home[h], base[h])
      BY DEF AllGenuine
    <2>4. NextHistory(h) = LastMessages(t)
      BY <1>2 DEF NextHistory
    <2> HIDE DEF e
    <2>5. t \in Seq(Message) /\ Genuine(home[h], t)
      BY <2>1, <2>2, <2>3, AppendProperties DEF Genuine
    <2> HIDE DEF t
    <2> QED BY <2>4, <2>5, LastMessagesFacts DEF Genuine
  <1> QED BY <1>1, <1>2

-----------------------------------------------------------------------------
LEMMA TypeInit == Init => TypeOK
  <1> SUFFICES ASSUME Init PROVE TypeOK
    OBVIOUS
  <1>1. RegistryTypeOK
    BY DEF Init, RegistryInit, RegistryTypeOK
  <1>2. "new" \in Awaits /\ <<>> \in Seq(Message)
    BY DEF Awaits
  <1>3. base \in [Handlers -> Seq(Message)] /\ history \in [Sessions -> Seq(Message)]
    BY <1>2 DEF Init
  <1> QED BY <1>1, <1>2, <1>3 DEF Init, TypeOK

(* A step of Begin keeps the types if its session and its message are of   *)
(* theirs.                                                                 *)
LEMMA BeginKeepsType ==
    ASSUME TypeOK, NEW h \in Handlers, NEW await \in Awaits,
           NEW p \in Posts \cup {NoPost}, NEW s \in Sessions, Begin(h, await, p, s)
    PROVE  TypeOK'
  BY DEF Begin, Goto, TypeOK, registryVars, historyVars, RegistryTypeOK

(* The step of each handler keeps the types.                               *)
LEMMA TypeStep ==
    ASSUME TypeOK, HandlersKnow, SocketsKnow, AllGenuine, RegistryTypeOK', Next
    PROVE  TypeOK'
  <1>1. CASE Socket
    BY <1>1 DEF Socket, TypeOK, handlerVars, historyVars
  <1>2. CASE Restart
    <2>1. /\ pc' \in [Handlers -> Awaits] /\ base' \in [Handlers -> Seq(Message)]
          /\ interrupted' \in BOOLEAN
      BY <1>2 DEF Restart, TypeOK, Awaits
    <2> QED BY <1>2, <2>1 DEF Restart, TypeOK, historyVars
  <1>3. ASSUME NEW p \in Posts, NEW k \in Sockets, ReceiveMessage(p, k) PROVE TypeOK'
    <2>1. session[k] \in Sessions
      BY <1>3 DEF ReceiveMessage, SocketsKnow, TypeOK, RegistryTypeOK
    <2>2. \A await \in {"reading", "error"} : await \in Awaits
      BY DEF Awaits
    <2> QED BY <1>3, <2>1, <2>2, BeginKeepsType, Kinds DEF ReceiveMessage
  <1>4. ASSUME NEW c \in Callbacks, NEW p \in Posts, ReceiveCallback(c, p) PROVE TypeOK'
    <2>1. home[p] \in Sessions
      BY <1>4, Kinds DEF ReceiveCallback, HandlersKnow, TypeOK
    <2>2. \A await \in {"reading", "undelivered"} : await \in Awaits
      BY DEF Awaits
    <2> QED BY <1>4, <2>1, <2>2, BeginKeepsType, Kinds DEF ReceiveCallback
  <1>5. ASSUME NEW x \in Clears, NEW s \in Sessions, ReceiveClear(x, s) PROVE TypeOK'
    <2>1. "opening" \in Awaits
      BY DEF Awaits
    <2> QED BY <1>5, <2>1, BeginKeepsType, Kinds DEF ReceiveClear
  <1>6. ASSUME NEW h \in Handlers, ReadConversation(h) PROVE TypeOK'
    <2>1. home[h] \in Sessions
      BY <1>6 DEF ReadConversation, HandlersKnow, TypeOK
    <2>2. base' \in [Handlers -> Seq(Message)] /\ pc' \in [Handlers -> Awaits]
      BY <1>6, <2>1 DEF ReadConversation, Goto, TypeOK, Awaits
    <2> QED BY <1>6, <2>2 DEF ReadConversation, TypeOK, historyVars
  <1>7. ASSUME NEW h \in Handlers, ReadFails(h) PROVE TypeOK'
    <2>1. pc' \in [Handlers -> Awaits]
      BY <1>7 DEF ReadFails, Goto, TypeOK, Awaits
    <2> QED BY <1>7, <2>1 DEF ReadFails, TypeOK, historyVars
  <1>8. ASSUME NEW h \in Handlers, OpenFile(h) PROVE TypeOK'
    <2>1. /\ pc' \in [Handlers -> Awaits]
          /\ file' \in [Sessions -> {"whole", "empty", "damaged"}]
      BY <1>8 DEF OpenFile, Goto, TypeOK, Awaits
    <2> QED BY <1>8, <2>1 DEF OpenFile, TypeOK
  <1>9. ASSUME NEW h \in Handlers, WriteFile(h) PROVE TypeOK'
    <2>1. NextHistory(h) \in Seq(Message)
      BY <1>9, NextHistoryFacts DEF WriteFile
    <2>2. base' \in [Handlers -> Seq(Message)]
      BY <1>9 DEF WriteFile, TypeOK
    <2>6. history' \in [Sessions -> Seq(Message)]
      <3>1. history' = [history EXCEPT ![home[h]] = NextHistory(h)]
        BY <1>9 DEF WriteFile
      <3>2. history \in [Sessions -> Seq(Message)]
        BY DEF TypeOK
      <3> QED BY <2>1, <3>1, <3>2
    <2>3. file' \in [Sessions -> {"whole", "empty", "damaged"}]
      <3>1. PICK result \in {"whole", "damaged"} :
               file' = [file EXCEPT ![home[h]] = result]
        BY <1>9 DEF WriteFile
      <3> QED BY <3>1 DEF TypeOK
    <2>4. pc' \in [Handlers -> Awaits]
      <3>1. PICK await \in {"sending", "delivering", "ok"} : Goto(h, await)
        BY <1>9, Kinds DEF WriteFile
      <3> QED BY <3>1 DEF Goto, TypeOK, Awaits
    <2>5. stored' \in SUBSET Handlers
      BY <1>9 DEF WriteFile, TypeOK
    <2> QED BY <1>9, <2>2, <2>3, <2>4, <2>5, <2>6 DEF WriteFile, TypeOK
  <1>10. ASSUME NEW h \in Handlers, WriteFails(h) PROVE TypeOK'
    <2>1. /\ pc' \in [Handlers -> Awaits] /\ base' \in [Handlers -> Seq(Message)]
          /\ interrupted' \in BOOLEAN
      BY <1>10 DEF WriteFails, Goto, TypeOK, Awaits
    <2> QED BY <1>10, <2>1 DEF WriteFails, TypeOK, historyVars
  <1>11. ASSUME NEW p \in Posts, ApiAccepts(p) PROVE TypeOK'
    BY <1>11 DEF ApiAccepts, TypeOK, handlerVars, historyVars
  <1>12. ASSUME NEW p \in Posts, ApiAnswers(p) PROVE TypeOK'
    <2>1. pc' \in [Handlers -> Awaits]
      BY <1>12 DEF ApiAnswers, Goto, TypeOK, Awaits
    <2> QED BY <1>12, <2>1 DEF ApiAnswers, TypeOK, historyVars
  <1>13. ASSUME NEW c \in Callbacks, Deliver(c) PROVE TypeOK'
    <2> DEFINE k == sessions[home[c]]
    <2>1. \/ Goto(c, "undelivered") /\ shown' = shown
          \/ Goto(c, "ok") /\ shown' = [shown EXCEPT ![k] = @ \cup {c}]
      BY <1>13 DEF Deliver
    <2>2. pc' \in [Handlers -> Awaits]
      BY <2>1 DEF Goto, TypeOK, Awaits
    <2>3. shown \in [Sockets -> SUBSET Callbacks]
      BY DEF TypeOK
    <2> HIDE DEF k
    <2>4. shown' \in [Sockets -> SUBSET Callbacks]
      BY <2>1, <2>3
    <2> QED BY <1>13, <2>2, <2>4 DEF Deliver, TypeOK, historyVars
  <1> QED BY <1>1, <1>2, <1>3, <1>4, <1>5, <1>6, <1>7, <1>8, <1>9, <1>10, <1>11, <1>12,
             <1>13 DEF Next, Store, Finish

-----------------------------------------------------------------------------
(* The steps of handlers that have begun, and of the sockets.              *)
Proceed ==
    \/ Socket \/ Restart
    \/ \E h \in Handlers : Store(h) \/ Finish(h)
    \/ \E p \in Posts : ApiAccepts(p)

(* They leave what the handlers are about and their sessions alone.        *)
LEMMA ProceedFacts ==
    ASSUME TypeOK, Proceed
    PROVE  /\ home' = home /\ about' = about /\ queued \subseteq queued'
           /\ \A h \in Handlers : pc'[h] = "new" <=> pc[h] = "new"
           /\ \A h \in Handlers : pc[h] = "new" => base'[h] = base[h] \/ base'[h] = <<>>
           /\ \A p \in queued' \ queued : pc[p] # "new"
  <1> USE DEF TypeOK
  <1>1. CASE Socket
    BY <1>1 DEF Socket, handlerVars
  <1>2. CASE Restart
    BY <1>2 DEF Restart, InProgress
  <1>3. ASSUME NEW h \in Handlers, Store(h)
        PROVE  /\ home' = home /\ about' = about /\ queued' = queued
               /\ pc[h] # "new" /\ pc'[h] # "new"
               /\ \A g \in Handlers \ {h} : pc'[g] = pc[g] /\ base'[g] = base[g]
    <2>1. CASE ReadConversation(h) \/ ReadFails(h) \/ OpenFile(h) \/ WriteFails(h)
      BY <2>1 DEF ReadConversation, ReadFails, OpenFile, WriteFails, Goto
    <2>2. CASE WriteFile(h)
      <3>1. PICK await \in {"sending", "delivering", "ok"} : Goto(h, await)
        BY <2>2, Kinds DEF WriteFile
      <3> QED BY <2>2, <3>1 DEF WriteFile, Goto
    <2> QED BY <1>3, <2>1, <2>2 DEF Store
  <1>4. ASSUME NEW h \in Handlers, Finish(h)
        PROVE  /\ home' = home /\ about' = about /\ queued' = queued /\ base' = base
               /\ pc[h] # "new" /\ pc'[h] # "new"
               /\ \A g \in Handlers \ {h} : pc'[g] = pc[g]
    BY <1>4 DEF Finish, ApiAnswers, Deliver, Goto
  <1>5. ASSUME NEW p \in Posts, ApiAccepts(p)
        PROVE  /\ home' = home /\ about' = about /\ queued' = queued \cup {p}
               /\ pc' = pc /\ base' = base /\ pc[p] # "new"
    BY <1>5 DEF ApiAccepts, handlerVars
  <1> QED BY <1>1, <1>2, <1>3, <1>4, <1>5 DEF Proceed

(* How the three kinds of handlers begin.                                  *)
Starts(h) ==
    /\ pc[h] = "new" /\ pc'[h] \in {"reading", "opening", "error", "undelivered"}
    /\ home'[h] \in Sessions
    /\ \A g \in Handlers \ {h} : pc'[g] = pc[g] /\ home'[g] = home[g] /\ about'[g] = about[g]
    /\ h \in Posts => about'[h] = h
    /\ h \in Callbacks => about'[h] \in queued /\ home'[h] = home[about'[h]]
    /\ UNCHANGED <<registryVars, base, historyVars, queued, shown, interrupted>>

LEMMA StartFacts ==
    ASSUME TypeOK, HandlersKnow, SocketsKnow, Next, ~Proceed
    PROVE  \E h \in Handlers : Starts(h)
  <1> USE DEF TypeOK
  <1>1. ASSUME NEW p \in Posts, NEW k \in Sockets, ReceiveMessage(p, k) PROVE Starts(p)
    <2>1. session[k] \in Sessions
      BY <1>1 DEF ReceiveMessage, SocketsKnow, RegistryTypeOK
    <2> QED BY <1>1, <2>1, Kinds DEF ReceiveMessage, Begin, Goto, Starts
  <1>2. ASSUME NEW c \in Callbacks, NEW p \in Posts, ReceiveCallback(c, p) PROVE Starts(c)
    <2>1. home[p] \in Sessions
      BY <1>2, Kinds DEF ReceiveCallback, HandlersKnow
    <2> QED BY <1>2, <2>1, Kinds DEF ReceiveCallback, Begin, Goto, Starts
  <1>3. ASSUME NEW x \in Clears, NEW s \in Sessions, ReceiveClear(x, s) PROVE Starts(x)
    BY <1>3, Kinds DEF ReceiveClear, Begin, Goto, Starts
  <1> QED BY <1>1, <1>2, <1>3, Kinds DEF Next, Proceed

(* What a handler has once learned about itself stays so.                  *)
LEMMA KnowStep ==
    ASSUME TypeOK, HandlersKnow, SocketsKnow, Next
    PROVE  /\ HandlersKnow'
           /\ \A h \in Handlers : home[h] # NoSession => home'[h] = home[h]
           /\ queued \subseteq queued'
  <1> USE Kinds DEF HandlersKnow
  <1>0. queued \subseteq Posts
    BY DEF TypeOK
  <1>1. CASE Proceed
    <2>1. /\ home' = home /\ about' = about /\ queued \subseteq queued'
          /\ \A h \in Handlers : pc'[h] = "new" <=> pc[h] = "new"
          /\ \A h \in Handlers : pc[h] = "new" => base'[h] = base[h] \/ base'[h] = <<>>
          /\ \A p \in queued' \ queued : pc[p] # "new"
      BY <1>1, ProceedFacts
    <2>2. queued' \subseteq Posts
      BY <1>0, <1>1 DEF Proceed, Socket, Restart, Store, Finish, ApiAccepts, ReadConversation,
         ReadFails, OpenFile, WriteFile, WriteFails, ApiAnswers, Deliver
    <2> QED BY <1>0, <2>1, <2>2
  <1>2. CASE ~Proceed
    <2>1. PICK h \in Handlers : Starts(h)
      BY <1>2, StartFacts
    <2>2. /\ pc[h] = "new" /\ pc'[h] # "new" /\ home'[h] # NoSession
          /\ \A g \in Handlers \ {h} :
                pc'[g] = pc[g] /\ home'[g] = home[g] /\ about'[g] = about[g]
          /\ h \in Posts => about'[h] = h
          /\ h \in Callbacks => about'[h] \in queued /\ home'[h] = home[about'[h]]
          /\ queued' = queued /\ base' = base
      BY <2>1 DEF Starts
    <2>3. h \notin queued /\ home[h] = NoSession
      BY <2>2
    <2>4. \A c \in Callbacks : pc'[c] # "new" =>
             about'[c] \in queued /\ about'[c] # h /\ home'[c] = home'[about'[c]]
      BY <1>0, <2>2, <2>3
    <2> QED BY <1>0, <2>2, <2>3, <2>4
  <1> QED BY <1>1, <1>2

-----------------------------------------------------------------------------
LEMMA StoredStep ==
    ASSUME TypeOK, HandlersKnow, SocketsKnow, StoredFirst, Next
    PROVE  StoredFirst'
  <1> USE Kinds DEF TypeOK, StoredFirst, StoredBeforeForwarded
  <1>1. ASSUME stored \subseteq stored', queued' = queued, shown' = shown,
               \A h \in Handlers : pc'[h] \in {"sending", "delivering"} =>
                  pc'[h] = pc[h] \/ h \in stored'
        PROVE  StoredFirst'
    BY <1>1
  <1>2. CASE ~Proceed
    <2>1. PICK h \in Handlers : Starts(h)
      BY <1>2, StartFacts
    <2>2. /\ \A g \in Handlers : pc'[g] \in {"sending", "delivering"} => pc'[g] = pc[g]
          /\ stored' = stored /\ queued' = queued /\ shown' = shown
      BY <2>1 DEF Starts, historyVars
    <2> QED BY <1>1, <2>2
  <1>3. CASE Socket \/ Restart
    <2>1. /\ \A g \in Handlers : pc'[g] \in {"sending", "delivering"} => pc'[g] = pc[g]
          /\ stored' = stored /\ queued' = queued /\ shown' = shown
      BY <1>3 DEF Socket, Restart, handlerVars, historyVars
    <2> QED BY <1>1, <2>1
  <1>4. ASSUME NEW h \in Handlers, Store(h) PROVE StoredFirst'
    <2>1. CASE ReadConversation(h) \/ ReadFails(h) \/ OpenFile(h) \/ WriteFails(h)
      <3>1. /\ \A g \in Handlers : pc'[g] \in {"sending", "delivering"} => pc'[g] = pc[g]
            /\ stored' = stored /\ queued' = queued /\ shown' = shown
        BY <2>1 DEF ReadConversation, ReadFails, OpenFile, WriteFails, Goto, historyVars
      <3> QED BY <1>1, <3>1
    <2>2. CASE WriteFile(h)
      <3>1. PICK await : Goto(h, await)
        BY <2>2 DEF WriteFile
      <3>2. /\ stored' = stored \cup {h} /\ queued' = queued /\ shown' = shown
            /\ \A g \in Handlers \ {h} : pc'[g] = pc[g]
        BY <2>2, <3>1 DEF WriteFile, Goto
      <3> QED BY <1>1, <3>2
    <2> QED BY <1>4, <2>1, <2>2 DEF Store
  <1>5. ASSUME NEW p \in Posts, ApiAnswers(p) PROVE StoredFirst'
    <2>1. /\ \A g \in Handlers : pc'[g] \in {"sending", "delivering"} => pc'[g] = pc[g]
          /\ stored' = stored /\ queued' = queued /\ shown' = shown
      BY <1>5 DEF ApiAnswers, Goto, historyVars
    <2> QED BY <1>1, <2>1
  <1>6. ASSUME NEW c \in Callbacks, Deliver(c) PROVE StoredFirst'
    <2>1. c \in stored
      BY <1>6 DEF Deliver
    <2>2. /\ \A g \in Handlers : pc'[g] \in {"sending", "delivering"} => pc'[g] = pc[g]
          /\ stored' = stored /\ queued' = queued
      BY <1>6 DEF Deliver, Goto, historyVars
    <2>3. \A k \in Sockets : shown'[k] \subseteq shown[k] \cup {c}
      BY <1>6 DEF Deliver
    <2> QED BY <2>1, <2>2, <2>3
  <1>7. ASSUME NEW p \in Posts, ApiAccepts(p) PROVE StoredFirst'
    BY <1>7 DEF ApiAccepts, handlerVars, historyVars
  <1> QED BY <1>2, <1>3, <1>4, <1>5, <1>6, <1>7 DEF Proceed, Finish

(* A reply goes to the registered socket, which is one of its session.     *)
LEMMA SocketsStep ==
    ASSUME TypeOK, HandlersKnow, SocketsKnow, EntryIsLive, Next
    PROVE  SocketsKnow'
  <1> USE Kinds DEF SocketsKnow
  <1>0. /\ \A h \in Handlers : home[h] # NoSession => home'[h] = home[h]
        /\ \A k \in Sockets : \A c \in shown[k] :
              /\ c \in Callbacks /\ home[c] # NoSession
              /\ session[k] = home[c] /\ home[c] = home[about[c]]
              /\ about[c] \in Handlers /\ pc[c] # "new"
    BY KnowStep DEF RightSession, TypeOK, HandlersKnow
  <1>1. ASSUME \A h \in Handlers : pc[h] # "new" => about'[h] = about[h],
               \A k \in Sockets : session[k] # NoSession => session'[k] = session[k],
               \A k \in Sockets : link'[k] = "new" <=> session'[k] = NoSession,
               \A k \in Sockets : \A c \in shown'[k] \ shown[k] :
                  /\ session'[k] = home'[c] /\ home'[c] = home'[about'[c]]
                  /\ home'[c] # NoSession
        PROVE  SocketsKnow'
    BY <1>0, <1>1 DEF RightSession
  <1>2. CASE ~Proceed
    <2>1. PICK h \in Handlers : Starts(h)
      BY <1>2, StartFacts
    <2>2. /\ pc[h] = "new" /\ \A g \in Handlers \ {h} : about'[g] = about[g]
          /\ shown' = shown /\ session' = session /\ link' = link
      BY <2>1 DEF Starts, registryVars
    <2> QED BY <1>1, <2>2
  <1>3. CASE Socket
    <2>1. about' = about /\ shown' = shown
      BY <1>3 DEF Socket, handlerVars
    <2>2. /\ \A k \in Sockets : session[k] # NoSession => session'[k] = session[k]
          /\ \A k \in Sockets : link'[k] = "new" <=> session'[k] = NoSession
      <3>1. CASE \E k \in Sockets, s \in Sessions : HandleConnection(k, s)
        BY <3>1 DEF HandleConnection, TypeOK, RegistryTypeOK
      <3>2. CASE \E k \in Sockets : BrowserLeaves(k) \/ HandleDisconnect(k)
        BY <3>2 DEF BrowserLeaves, HandleDisconnect, TypeOK, RegistryTypeOK
      <3> QED BY <1>3, <3>1, <3>2 DEF Socket
    <2> QED BY <1>1, <2>1, <2>2
  <1>4. CASE Restart
    <2>1. /\ about' = about /\ shown' = shown /\ session' = session
          /\ \A k \in Sockets : link'[k] = "new" <=> link[k] = "new"
      BY <1>4 DEF Restart, RegistryRestart
    <2> QED BY <1>1, <2>1
  <1>5. ASSUME NEW c \in Callbacks, Deliver(c) PROVE SocketsKnow'
    <2>1. /\ about' = about /\ home' = home /\ session' = session /\ link' = link
          /\ pc[c] # "new"
      BY <1>5 DEF Deliver, registryVars
    <2>2. home[c] \in Sessions /\ home[c] = home[about[c]]
      BY <2>1 DEF HandlersKnow, TypeOK
    <2>3. CASE shown' = shown
      BY <1>1, <2>1, <2>3
    <2>4. CASE shown' # shown
      <3>1. /\ sessions[home[c]] # NoSocket
            /\ shown' = [shown EXCEPT ![sessions[home[c]]] = @ \cup {c}]
        BY <1>5, <2>4 DEF Deliver
      <3>2. session[sessions[home[c]]] = home[c]
        BY <2>2, <3>1 DEF EntryIsLive
      <3>3. \A k \in Sockets : \A d \in shown'[k] \ shown[k] : d = c /\ session[k] = home[c]
        BY <3>1, <3>2 DEF TypeOK
      <3> QED BY <1>1, <2>1, <2>2, <3>3
    <2> QED BY <2>3, <2>4
  <1>6. ASSUME \/ \E h \in Handlers : Store(h)
               \/ \E p \in Posts : ApiAccepts(p) \/ ApiAnswers(p)
        PROVE  SocketsKnow'
    <2>1. about' = about /\ shown' = shown /\ session' = session /\ link' = link
      BY <1>6 DEF Store, ReadConversation, ReadFails, OpenFile, WriteFile, WriteFails,
         ApiAccepts, ApiAnswers, registryVars, handlerVars
    <2> QED BY <1>1, <2>1
  <1> QED BY <1>2, <1>3, <1>4, <1>5, <1>6 DEF Proceed, Finish

-----------------------------------------------------------------------------
(* Genuine messages stay so: handlers keep their session.                  *)
LEMMA GenuineStays ==
    ASSUME TypeOK, HandlersKnow, SocketsKnow, Next,
           NEW s \in Sessions, NEW t \in Seq(Message), Genuine(s, t)
    PROVE  Genuine(s, t)'
  <1> SUFFICES ASSUME NEW i \in 1..Len(t)
               PROVE  /\ home'[t[i].post] = s
                      /\ t[i].role = "assistant" => t[i].post \in queued'
    BY DEF Genuine
  <1>1. t[i] \in Message
    BY ElementOfSeq
  <1>2. t[i].post \in Handlers
    BY <1>1, Kinds DEF Message
  <1>3. home[t[i].post] = s /\ (t[i].role = "assistant" => t[i].post \in queued)
    BY DEF Genuine
  <1> QED BY <1>2, <1>3, KnowStep, Kinds

(* Files and what was read of them change together with genuine messages.  *)
LEMMA GenuineStep ==
    ASSUME TypeOK, HandlersKnow, SocketsKnow, AllGenuine, Next
    PROVE  AllGenuine'
  <1> USE Kinds
  <1>0. /\ history \in [Sessions -> Seq(Message)] /\ base \in [Handlers -> Seq(Message)]
        /\ \A h \in Handlers : pc[h] = "new" \/ home[h] \in Sessions
        /\ \A h \in Handlers : home[h] \in Sessions => home'[h] = home[h]
    BY KnowStep DEF TypeOK, HandlersKnow
  <1>1. /\ \A s \in Sessions : Genuine(s, history[s])
        /\ \A h \in Handlers : Genuine(home[h], base[h])
    BY DEF AllGenuine, HistoryIsGenuine, Genuine
  <1>2. ASSUME NEW t, t = <<>>, NEW s
        PROVE  Genuine(s, t)
    BY <1>2 DEF Genuine
  <1>3. ASSUME \A s \in Sessions :
                  \E t \in Seq(Message) : history'[s] = t /\ Genuine(s, t),
               \A h \in Handlers :
                  \/ base'[h] = base[h] \/ base'[h] = <<>>
                  \/ pc[h] # "new" /\ base'[h] = history[home[h]]
        PROVE  AllGenuine'
    <2>1. ASSUME NEW s \in Sessions
          PROVE  \A i \in 1..Len(history'[s]) :
                    LET m == history'[s][i] IN
                       /\ home'[m.post] = s
                       /\ m.role = "assistant" => m.post \in queued'
      <3>1. PICK t \in Seq(Message) : history'[s] = t /\ Genuine(s, t)
        BY <1>3
      <3>2. Genuine(s, t)'
        BY <3>1, GenuineStays
      <3> QED BY <3>1, <3>2 DEF Genuine
    <2>2. HistoryIsGenuine'
      BY <2>1 DEF HistoryIsGenuine
    <2>3. ASSUME NEW h \in Handlers PROVE Genuine(home[h], base[h])'
      <3>1. CASE base'[h] = <<>>
        BY <3>1 DEF Genuine
      <3>2. CASE base'[h] # <<>>
        <4>1. home[h] \in Sessions
          BY <1>0, <1>3, <3>2 DEF HandlersKnow
        <4>2. PICK t \in Seq(Message) : base'[h] = t /\ Genuine(home[h], t)
          BY <1>0, <1>1, <1>3, <3>2, <4>1
        <4>3. PICK s \in Sessions : s = home[h] /\ s = home'[h]
          BY <1>0, <4>1
        <4>4. Genuine(s, t)'
          BY <4>2, <4>3, GenuineStays
        <4> QED BY <4>2, <4>3, <4>4 DEF Genuine
      <3> QED BY <3>1, <3>2
    <2> QED BY <2>2, <2>3 DEF AllGenuine
  <1>4. ASSUME history' = history,
               \A h \in Handlers :
                  \/ base'[h] = base[h] \/ base'[h] = <<>>
                  \/ pc[h] # "new" /\ base'[h] = history[home[h]]
        PROVE  AllGenuine'
    BY <1>0, <1>1, <1>3, <1>4
  <1>5. CASE ~Proceed
    <2>1. history' = history /\ base' = base
      BY <1>5, StartFacts DEF Starts, historyVars
    <2> QED BY <1>4, <2>1
  <1>6. CASE Socket \/ Restart
    <2>1. history' = history /\ \A h \in Handlers : base'[h] = base[h] \/ base'[h] = <<>>
      BY <1>6 DEF Socket, Restart, handlerVars, historyVars
    <2> QED BY <1>4, <2>1
  <1>7. ASSUME NEW h \in Handlers, WriteFile(h) PROVE AllGenuine'
    <2>1. NextHistory(h) \in Seq(Message) /\ Genuine(home[h], NextHistory(h))
      BY <1>7, NextHistoryFacts DEF WriteFile
    <2>2. /\ history' = [history EXCEPT ![home[h]] = NextHistory(h)]
          /\ base' = [base EXCEPT ![h] = <<>>]
      BY <1>7 DEF WriteFile
    <2>3. \A s \in Sessions : history'[s] = IF s = home[h] THEN NextHistory(h) ELSE history[s]
      BY <1>0, <2>2
    <2>4. \A g \in Handlers : base'[g] = base[g] \/ base'[g] = <<>>
      BY <1>0, <2>2
    <2>5. \A s \in Sessions : \E t \in Seq(Message) : history'[s] = t /\ Genuine(s, t)
      BY <1>0, <1>1, <2>1, <2>3
    <2> QED BY <1>3, <2>4, <2>5
  <1>8. ASSUME NEW h \in Handlers,
               ReadConversation(h) \/ ReadFails(h) \/ OpenFile(h) \/ WriteFails(h)
        PROVE  AllGenuine'
    <2>1. /\ history' = history
          /\ \A g \in Handlers :
                \/ base'[g] = base[g] \/ base'[g] = <<>>
                \/ pc[g] # "new" /\ base'[g] = history[home[g]]
      BY <1>0, <1>8 DEF ReadConversation, ReadFails, OpenFile, WriteFails, historyVars
    <2> QED BY <1>4, <2>1
  <1>9. ASSUME NEW p \in Posts, ApiAccepts(p) \/ ApiAnswers(p) PROVE AllGenuine'
    <2>1. history' = history /\ base' = base
      BY <1>9 DEF ApiAccepts, ApiAnswers, handlerVars, historyVars
    <2> QED BY <1>4, <2>1
  <1>10. ASSUME NEW c \in Callbacks, Deliver(c) PROVE AllGenuine'
    <2>1. history' = history /\ base' = base
      BY <1>10 DEF Deliver, historyVars
    <2> QED BY <1>4, <2>1
  <1> QED BY <1>5, <1>6, <1>7, <1>8, <1>9, <1>10 DEF Proceed, Store, Finish

(* A file is emptied by a handler that goes on to write it or fails.       *)
LEMMA EmptyStep ==
    ASSUME TypeOK, HandlersKnow, SocketsKnow, EmptyFileHasWriter, Next
    PROVE  EmptyFileHasWriter'
  <1> USE DEF TypeOK
  <1>1. ASSUME interrupted => interrupted',
               \A s \in Sessions : file'[s] = "empty" =>
                  \/ file[s] = "empty" \/ interrupted'
                  \/ \E h \in Handlers : pc'[h] = "writing" /\ home'[h] = s,
               \A h \in Handlers : pc[h] = "writing" =>
                  \/ interrupted'
                  \/ pc'[h] = "writing" /\ home'[h] = home[h]
                  \/ file'[home[h]] # "empty"
        PROVE  EmptyFileHasWriter'
    <2> SUFFICES ASSUME NEW s \in Sessions, file'[s] = "empty", ~interrupted'
                 PROVE  \E h \in Handlers : pc'[h] = "writing" /\ home'[h] = s
      BY DEF EmptyFileHasWriter
    <2>1. CASE file[s] = "empty"
      <3>1. PICK h \in Handlers : pc[h] = "writing" /\ home[h] = s
        BY <1>1, <2>1 DEF EmptyFileHasWriter
      <3> QED BY <1>1, <3>1
    <2> QED BY <1>1, <2>1
  <1>2. CASE ~Proceed
    <2>1. PICK h \in Handlers : Starts(h)
      BY <1>2, StartFacts
    <2>2. /\ interrupted' = interrupted /\ file' = file
          /\ \A g \in Handlers : pc[g] = "writing" => pc'[g] = "writing" /\ home'[g] = home[g]
      BY <2>1 DEF Starts, historyVars
    <2> QED BY <1>1, <2>2
  <1>3. CASE Socket
    <2>1. UNCHANGED <<pc, home, file, interrupted>>
      BY <1>3 DEF Socket, handlerVars, historyVars
    <2> QED BY <1>1, <2>1
  <1>4. CASE Restart
    <2>1. /\ home' = home /\ file' = file /\ (interrupted => interrupted')
          /\ \A h \in Handlers : pc[h] = "writing" => interrupted'
      BY <1>4 DEF Restart, historyVars
    <2> QED BY <1>1, <2>1
  <1>5. ASSUME NEW h \in Handlers,
               ReadConversation(h) \/ ReadFails(h) \/ (Finish(h))
        PROVE  EmptyFileHasWriter'
    <2>1. /\ home' = home /\ file' = file /\ interrupted' = interrupted
          /\ pc[h] # "writing" /\ \A g \in Handlers \ {h} : pc'[g] = pc[g]
      BY <1>5 DEF ReadConversation, ReadFails, Finish, ApiAnswers, Deliver, Goto, historyVars
    <2> QED BY <1>1, <2>1
  <1>6. ASSUME NEW h \in Handlers, OpenFile(h) PROVE EmptyFileHasWriter'
    <2>1. /\ home' = home /\ interrupted' = interrupted
          /\ pc'[h] = "writing" /\ \A g \in Handlers \ {h} : pc'[g] = pc[g]
          /\ \A s \in Sessions \ {home[h]} : file'[s] = file[s]
      BY <1>6 DEF OpenFile, Goto
    <2> QED BY <1>1, <2>1
  <1>7. ASSUME NEW h \in Handlers, WriteFile(h) PROVE EmptyFileHasWriter'
    <2>1. home[h] \in Sessions
      BY <1>7 DEF WriteFile, HandlersKnow
    <2>2. PICK result \in {"whole", "damaged"} : file' = [file EXCEPT ![home[h]] = result]
      BY <1>7 DEF WriteFile
    <2>3. PICK await : Goto(h, await)
      BY <1>7 DEF WriteFile
    <2>4. home' = home /\ interrupted' = interrupted
      BY <1>7 DEF WriteFile
    <2>5. \A g \in Handlers \ {h} : pc'[g] = pc[g]
      BY <2>3 DEF Goto
    <2>6. /\ file'[home[h]] # "empty"
          /\ \A s \in Sessions \ {home[h]} : file'[s] = file[s]
      BY <2>1, <2>2
    <2> QED BY <1>1, <2>4, <2>5, <2>6
  <1>8. ASSUME NEW h \in Handlers, WriteFails(h) PROVE EmptyFileHasWriter'
    <2>1. /\ home' = home /\ file' = file /\ (interrupted => interrupted')
          /\ pc[h] = "writing" => interrupted'
          /\ \A g \in Handlers \ {h} : pc'[g] = pc[g]
      BY <1>8 DEF WriteFails, Goto, historyVars
    <2> QED BY <1>1, <2>1
  <1>9. ASSUME NEW p \in Posts, ApiAccepts(p) PROVE EmptyFileHasWriter'
    <2>1. UNCHANGED <<pc, home, file, interrupted>>
      BY <1>9 DEF ApiAccepts, handlerVars, historyVars
    <2> QED BY <1>1, <2>1
  <1> QED BY <1>2, <1>3, <1>4, <1>5, <1>6, <1>7, <1>8, <1>9 DEF Proceed, Store

-----------------------------------------------------------------------------
LEMMA GatewayInit == Init => GatewayInv
  <1> SUFFICES ASSUME Init PROVE GatewayInv
    OBVIOUS
  <1>1. TypeOK
    BY TypeInit
  <1>2. HandlersKnow /\ StoredFirst /\ SocketsKnow /\ EmptyFileHasWriter
    BY Kinds DEF Init, RegistryInit, HandlersKnow, StoredFirst, StoredBeforeForwarded,
       SocketsKnow, RightSession, EmptyFileHasWriter
  <1>3. AllGenuine
    BY DEF Init, AllGenuine, HistoryIsGenuine, Genuine
  <1> QED BY <1>1, <1>2, <1>3 DEF GatewayInv

LEMMA GatewayStep ==
    ASSUME GatewayInv, RegistryInv, RegistryInv', [Next]_vars
    PROVE  GatewayInv'
  <1>1. CASE Next
    BY <1>1, TypeStep, KnowStep, StoredStep, SocketsStep, GenuineStep, EmptyStep
    DEF GatewayInv, RegistryInv
  <1>2. CASE UNCHANGED vars
    <2> USE <1>2 DEF vars, registryVars, handlerVars, historyVars, GatewayInv
    <2>1. TypeOK'
      BY DEF TypeOK, RegistryTypeOK
    <2>2. HandlersKnow' /\ StoredFirst'
      BY DEF HandlersKnow, StoredFirst, StoredBeforeForwarded
    <2>3. SocketsKnow' /\ EmptyFileHasWriter'
      BY DEF SocketsKnow, RightSession, EmptyFileHasWriter
    <2>4. AllGenuine'
      BY DEF AllGenuine, HistoryIsGenuine, Genuine
    <2> QED BY <2>1, <2>2, <2>3, <2>4
  <1> QED BY <1>1, <1>2

(* The invariant of gateway-web, next to the one of its registry.          *)
THEOREM GatewayInvariantHolds == Spec => []GatewayInv
  BY GatewayInit, GatewayStep, GatewayImplementsRegistry, RegistryIsCorrect, PTL DEF Spec

(* Every variable has its type, for any number of handlers and sockets.    *)
THEOREM GatewayTypeCorrect == Spec => []TypeOK
  <1>1. GatewayInv => TypeOK
    BY DEF GatewayInv
  <1> QED BY <1>1, GatewayInvariantHolds, PTL

(* handleMessage awaits appendUserMessage before it calls assistant-api,   *)
(* and deliverAssistantResponse awaits the file before it emits, through   *)
(* every failure, restart and change of sockets.                           *)
THEOREM NothingIsForwardedUnstored == Spec => []StoredBeforeForwarded
  <1>1. GatewayInv => StoredBeforeForwarded
    BY DEF GatewayInv, StoredFirst
  <1> QED BY <1>1, GatewayInvariantHolds, PTL

(* sendAssistantMessage reaches no socket of another browser session.      *)
THEOREM RepliesStayInSession == Spec => []RightSession
  <1>1. GatewayInv => RightSession
    BY DEF GatewayInv, SocketsKnow
  <1> QED BY <1>1, GatewayInvariantHolds, PTL

(* However handlers overwrite each other, appendMessage leaves no message  *)
(* of another session, and no reply to what was not queued.                *)
THEOREM HistoriesAreGenuine == Spec => []HistoryIsGenuine
  <1>1. GatewayInv => HistoryIsGenuine
    BY DEF GatewayInv, AllGenuine
  <1> QED BY <1>1, GatewayInvariantHolds, PTL

(* writeFile leaves a truncated history file only while it runs, or when   *)
(* it failed or died.                                                      *)
THEOREM EmptyFilesAreExplained == Spec => []EmptyFileHasWriter
  <1>1. GatewayInv => EmptyFileHasWriter
    BY DEF GatewayInv
  <1> QED BY <1>1, GatewayInvariantHolds, PTL

-----------------------------------------------------------------------------
(* What the handlers of one session would keep if they took turns          *)

(* No two handlers are at work on the history file of one session.         *)
Storing == {"reading", "opening", "writing"}

OneStores ==
    \A g, h \in Handlers :
        pc[g] \in Storing /\ pc[h] \in Storing /\ home[g] = home[h] => g = h

(* Then from its read to its write a handler finds the file as it has read *)
(* or left it.                                                             *)
FileIsAsRead ==
    /\ \A h \in Handlers \ Clears :
          pc[h] \in {"opening", "writing"} => base[h] = history[home[h]]
    /\ \A h \in Handlers : pc[h] = "writing" => file[home[h]] = "empty"
    /\ \A s \in Sessions : file[s] # "damaged"

LEMMA AsReadInit == Init => FileIsAsRead
  BY DEF Init, FileIsAsRead

LEMMA AsReadStep ==
    ASSUME TypeOK, HandlersKnow, OneStores, FileIsAsRead, [Next]_vars
    PROVE  FileIsAsRead'
  <1> USE DEF TypeOK
  <1>1. ASSUME UNCHANGED <<history, file>>,
               \A h \in Handlers : pc'[h] \in {"opening", "writing"} =>
                  \/ pc'[h] = pc[h] /\ base'[h] = base[h] /\ home'[h] = home[h]
                  \/ h \in Clears /\ pc'[h] = "opening"
        PROVE  FileIsAsRead'
    BY <1>1 DEF FileIsAsRead
  <1>2. ASSUME NEW h \in Handlers, pc[h] \in Storing, home' = home,
               \A g \in Handlers \ {h} : pc'[g] = pc[g] /\ base'[g] = base[g],
               \A s \in Sessions \ {home[h]} :
                  history'[s] = history[s] /\ file'[s] = file[s],
               h \notin Clears /\ pc'[h] \in {"opening", "writing"}
                  => base'[h] = history'[home[h]],
               pc'[h] = "writing" => file'[home[h]] = "empty",
               file'[home[h]] # "damaged"
        PROVE  FileIsAsRead'
    <2>1. ASSUME NEW g \in Handlers \ {h}, pc[g] \in {"opening", "writing"}
          PROVE  home[g] \in Sessions \ {home[h]}
      BY <1>2, <2>1 DEF OneStores, Storing, HandlersKnow
    <2>2. ASSUME NEW g \in Handlers \ {h}
          PROVE  /\ g \notin Clears /\ pc'[g] \in {"opening", "writing"}
                        => base'[g] = history'[home'[g]]
                 /\ pc'[g] = "writing" => file'[home'[g]] = "empty"
      BY <1>2, <2>1 DEF FileIsAsRead
    <2> QED BY <1>2, <2>2 DEF FileIsAsRead
  <1>3. ASSUME NEW h \in Handlers, ReadConversation(h) \/ ReadFails(h) \/ WriteFails(h)
        PROVE  FileIsAsRead'
    <2>1. /\ pc[h] \in Storing /\ home' = home /\ UNCHANGED <<history, file>>
          /\ \A g \in Handlers \ {h} : pc'[g] = pc[g] /\ base'[g] = base[g]
          /\ pc'[h] = "opening" => base'[h] = history[home[h]]
          /\ pc'[h] \in {"opening", "error"} /\ home[h] \in Sessions
      BY <1>3 DEF ReadConversation, ReadFails, WriteFails, Goto, historyVars, Storing,
         HandlersKnow
    <2> QED BY <1>2, <2>1 DEF FileIsAsRead
  <1>4. ASSUME NEW h \in Handlers, OpenFile(h) PROVE FileIsAsRead'
    <2>1. /\ pc[h] = "opening" /\ home' = home /\ UNCHANGED <<history, base>>
          /\ pc' = [pc EXCEPT ![h] = "writing"]
          /\ file' = [file EXCEPT ![home[h]] = "empty"] /\ home[h] \in Sessions
      BY <1>4 DEF OpenFile, Goto, HandlersKnow
    <2>2. h \notin Clears => base[h] = history[home[h]]
      BY <2>1 DEF FileIsAsRead
    <2> QED BY <1>2, <2>1, <2>2 DEF Storing
  <1>5. ASSUME NEW h \in Handlers, WriteFile(h) PROVE FileIsAsRead'
    <2>1. /\ pc[h] = "writing" /\ home' = home /\ home[h] \in Sessions
          /\ file[home[h]] = "empty"
      BY <1>5 DEF WriteFile, HandlersKnow, FileIsAsRead
    <2>2. /\ file' = [file EXCEPT ![home[h]] = "whole"]
          /\ history' = [history EXCEPT ![home[h]] = NextHistory(h)]
          /\ base' = [base EXCEPT ![h] = <<>>]
      BY <1>5, <2>1 DEF WriteFile
    <2>3. PICK await \in {"sending", "delivering", "ok"} : Goto(h, await)
      BY <1>5, Kinds DEF WriteFile
    <2> QED BY <1>2, <2>1, <2>2, <2>3 DEF Goto, Storing
  <1>6. ASSUME NEW h \in Handlers, Finish(h) PROVE FileIsAsRead'
    <2>1. /\ UNCHANGED <<history, file, base, home>> /\ pc'[h] \notin {"opening", "writing"}
          /\ \A g \in Handlers \ {h} : pc'[g] = pc[g]
      BY <1>6 DEF Finish, ApiAnswers, Deliver, Goto, historyVars
    <2> QED BY <1>1, <2>1
  <1>7. ASSUME NEW h \in Handlers, NEW await \in {"reading", "error", "undelivered", "opening"},
               NEW p, NEW s, Begin(h, await, p, s), await = "opening" => h \in Clears
        PROVE  FileIsAsRead'
    <2>1. /\ UNCHANGED <<history, file, base>> /\ pc'[h] = await
          /\ \A g \in Handlers \ {h} : pc'[g] = pc[g] /\ home'[g] = home[g]
      BY <1>7 DEF Begin, Goto, historyVars
    <2> QED BY <1>1, <1>7, <2>1
  <1>8. CASE \/ \E p \in Posts, k \in Sockets : ReceiveMessage(p, k)
             \/ \E c \in Callbacks, p \in Posts : ReceiveCallback(c, p)
             \/ \E x \in Clears, s \in Sessions : ReceiveClear(x, s)
    BY <1>7, <1>8, Kinds DEF ReceiveMessage, ReceiveCallback, ReceiveClear
  <1>9. CASE Restart
    BY <1>1, <1>9 DEF Restart, InProgress, historyVars
  <1>10. CASE Socket \/ (\E p \in Posts : ApiAccepts(p)) \/ UNCHANGED vars
    BY <1>1, <1>10 DEF Socket, ApiAccepts, vars, handlerVars, historyVars
  <1> QED
    BY <1>3, <1>4, <1>5, <1>6, <1>8, <1>9, <1>10 DEF Next, Store

(* A write then adds its entry to what the file holds at that moment, or   *)
(* clears it.                                                              *)
WriteExtendsFile(s) ==
    \E h \in Handlers :
        /\ home[h] = s /\ stored' = stored \cup {h} /\ UNCHANGED <<home, about>>
        /\ history' = [history EXCEPT ![s] =
              IF h \in Clears THEN <<>> ELSE LastMessages(Append(@, Entry(h)))]

(* Only a write changes a history, and what is stored.                     *)
LEMMA OnlyWritesStore ==
    ASSUME TypeOK, HandlersKnow, FileIsAsRead, [Next]_vars
    PROVE  UNCHANGED <<history, stored>> \/ \E s \in Sessions : WriteExtendsFile(s)
  <1>1. CASE UNCHANGED <<history, stored>>
    BY <1>1
  <1>2. CASE ~UNCHANGED <<history, stored>>
    <2>1. PICK h \in Handlers : WriteFile(h)
      BY <1>2 DEF Next, Store, Finish, Socket, Restart, ReceiveMessage, ReceiveCallback,
         ReceiveClear, Begin, ReadConversation, ReadFails, OpenFile, WriteFails, ApiAnswers,
         Deliver, ApiAccepts, vars, historyVars
    <2>2. /\ pc[h] = "writing" /\ home[h] \in Sessions
          /\ stored' = stored \cup {h} /\ UNCHANGED <<home, about>>
          /\ history' = [history EXCEPT ![home[h]] = NextHistory(h)]
      BY <2>1 DEF WriteFile, HandlersKnow, TypeOK
    <2>3. NextHistory(h) = IF h \in Clears THEN <<>>
                           ELSE LastMessages(Append(history[home[h]], Entry(h)))
      BY <2>2 DEF NextHistory, FileIsAsRead
    <2> QED BY <2>2, <2>3 DEF WriteExtendsFile
  <1> QED BY <1>1, <1>2

(* The history files have room for one message more.                       *)
HasRoom == \A s \in Sessions : Len(history[s]) < MaxMessages

RepliesStay ==
    /\ \A h \in stored : pc[h] # "new"
    /\ ReplyIsPersisted

LEMMA RepliesInit == Init => RepliesStay
  BY DEF Init, RepliesStay, ReplyIsPersisted

(* A handler that has stored something has begun, and stays what it is.    *)
LEMMA StoredHandlersKept ==
    ASSUME TypeOK, HandlersKnow, SocketsKnow, RepliesStay, [Next]_vars
    PROVE  /\ \A h \in stored' : pc'[h] # "new"
           /\ \A h \in stored : home'[h] = home[h] /\ about'[h] = about[h]
  <1> USE DEF TypeOK, RepliesStay
  <1>1. CASE ~Proceed /\ Next
    <2>1. PICK h \in Handlers : Starts(h)
      BY <1>1, StartFacts
    <2> QED BY <2>1 DEF Starts, historyVars
  <1>2. CASE Proceed
    <2>1. /\ home' = home /\ about' = about
          /\ \A h \in Handlers : pc'[h] = "new" <=> pc[h] = "new"
      BY <1>2, ProceedFacts
    <2>2. \A h \in stored' \ stored : pc[h] # "new"
      BY <1>2 DEF Proceed, Socket, Restart, Store, ReadConversation, ReadFails, OpenFile,
         WriteFile, WriteFails, Finish, ApiAnswers, Deliver, ApiAccepts, historyVars
    <2>3. stored' \subseteq Handlers
      BY <1>2 DEF Proceed, Socket, Restart, Store, ReadConversation, ReadFails, OpenFile,
         WriteFile, WriteFails, Finish, ApiAnswers, Deliver, ApiAccepts, historyVars
    <2> QED BY <2>1, <2>2, <2>3
  <1>3. CASE UNCHANGED vars
    BY <1>3 DEF vars, handlerVars, historyVars
  <1> QED BY <1>1, <1>2, <1>3

(* With room, a message appended is the last one, and none is dropped.     *)
LEMMA AppendKeeps ==
    ASSUME NEW t \in Seq(Message), NEW e \in Message, Len(t) < MaxMessages
    PROVE  LastMessages(Append(t, e)) = Append(t, e)
  <1> DEFINE u == Append(t, e)
  <1>1. /\ u \in Seq(Message) /\ Len(u) = Len(t) + 1 /\ Len(t) \in Nat
    BY AppendProperties, LenProperties
  <1>2. MaxMessages \in Nat
    BY GatewayAssumption
  <1> HIDE DEF u
  <1>3. LastMessages(u) = SubSeq(u, 1, Len(u)) /\ Len(u) \in Nat /\ Len(u) >= 1
    <2>1. Len(u) \in Nat /\ Len(u) >= 1 /\ ~(Len(u) > MaxMessages)
      BY <1>1, <1>2
    <2> QED BY <2>1 DEF LastMessages
  <1>4. /\ SubSeq(u, 1, Len(u)) \in Seq(Message) /\ Len(SubSeq(u, 1, Len(u))) = Len(u)
        /\ \A i \in 1..Len(u) : SubSeq(u, 1, Len(u))[i] = u[i]
    BY <1>1, <1>3, SubSeqProperties
  <1>5. SubSeq(u, 1, Len(u)) = u
    BY <1>1, <1>4, SeqEqual
  <1> QED BY <1>3, <1>5 DEF u

LEMMA RepliesStep ==
    ASSUME TypeOK, HandlersKnow, SocketsKnow, FileIsAsRead, RepliesStay, Clears = {}, HasRoom,
           [Next]_vars
    PROVE  RepliesStay'
  <1>0. /\ \A h \in stored' : pc'[h] # "new"
        /\ \A h \in stored : home'[h] = home[h] /\ Entry(h)' = Entry(h)
    BY StoredHandlersKept DEF Entry
  <1>1. CASE UNCHANGED <<history, stored>>
    BY <1>0, <1>1 DEF RepliesStay, ReplyIsPersisted
  <1>2. ASSUME NEW s \in Sessions, WriteExtendsFile(s) PROVE RepliesStay'
    <2>1. PICK h \in Handlers :
             /\ home[h] = s /\ stored' = stored \cup {h} /\ UNCHANGED <<home, about>>
             /\ history' = [history EXCEPT ![s] = LastMessages(Append(@, Entry(h)))]
      BY <1>2 DEF WriteExtendsFile
    <2>2. pc[h] # "new"
      BY <2>1, RegistryAssumption DEF HandlersKnow
    <2>3. Entry(h) \in Message /\ history[s] \in Seq(Message) /\ Len(history[s]) < MaxMessages
      BY <2>2, EntryIsMessage DEF TypeOK, HasRoom
    <2>4. history'[s] = Append(history[s], Entry(h))
      BY <2>1, <2>3, AppendKeeps DEF TypeOK
    <2>5. /\ Len(history'[s]) = Len(history[s]) + 1 /\ Len(history[s]) \in Nat
          /\ \A i \in 1..Len(history[s]) : history'[s][i] = history[s][i]
          /\ history'[s][Len(history[s]) + 1] = Entry(h)
      BY <2>3, <2>4, AppendProperties, LenProperties
    <2>6. \A q \in Sessions \ {s} : history'[q] = history[q]
      BY <2>1 DEF TypeOK
    <2>7. ASSUME NEW c \in Callbacks, c \in stored'
          PROVE  \E i \in 1..Len(history'[home'[c]]) : history'[home'[c]][i] = Entry(c)'
      <3>1. home'[c] = home[c] /\ Entry(c)' = Entry(c)
        BY <2>1 DEF Entry
      <3>2. CASE c = h
        BY <2>1, <2>5, <3>1, <3>2
      <3>3. CASE c # h
        <4>1. PICK i \in 1..Len(history[home[c]]) : history[home[c]][i] = Entry(c)
          BY <2>1, <2>7, <3>3 DEF RepliesStay, ReplyIsPersisted
        <4>2. CASE home[c] = s
          <5>1. i \in 1..Len(history'[s]) /\ history'[s][i] = history[s][i]
            BY <2>5, <4>1, <4>2
          <5> QED BY <3>1, <4>1, <4>2, <5>1
        <4>3. CASE home[c] # s
          <5>1. home[c] \in Sessions
            BY <2>1, <2>7, <3>3, Kinds DEF HandlersKnow, RepliesStay, TypeOK
          <5> QED BY <2>6, <3>1, <4>1, <4>3, <5>1
        <4> QED BY <4>2, <4>3
      <3> QED BY <3>2, <3>3
    <2> QED BY <1>0, <2>7 DEF RepliesStay, ReplyIsPersisted
  <1> QED BY <1>1, <1>2, OnlyWritesStore

(* appendMessage is safe as long as the handlers of one session take turns *)
(* at its file: it then adds to what the file holds when it is written,    *)
(* and no file is damaged, through failing writes and restarts.  Nothing   *)
(* in gateway-web makes them take turns.                                   *)
THEOREM TurnsKeepHistory ==
    Spec /\ []OneStores =>
        /\ [](\A s \in Sessions : file[s] # "damaged")
        /\ [][\A s \in Sessions : history'[s] # history[s] => WriteExtendsFile(s)]_vars
  <1>1. GatewayInv /\ OneStores /\ FileIsAsRead /\ [Next]_vars => FileIsAsRead'
    BY AsReadStep DEF GatewayInv
  <1>2. FileIsAsRead => \A s \in Sessions : file[s] # "damaged"
    BY DEF FileIsAsRead
  <1>3. GatewayInv /\ FileIsAsRead /\ [Next]_vars =>
            [\A s \in Sessions : history'[s] # history[s] => WriteExtendsFile(s)]_vars
    <2> SUFFICES ASSUME GatewayInv, FileIsAsRead, [Next]_vars,
                        NEW s \in Sessions, history'[s] # history[s]
                 PROVE  WriteExtendsFile(s)
      OBVIOUS
    <2>1. PICK q \in Sessions : WriteExtendsFile(q)
      BY OnlyWritesStore DEF GatewayInv
    <2>2. \A r \in Sessions \ {q} : history'[r] = history[r]
      BY <2>1 DEF WriteExtendsFile, GatewayInv, TypeOK
    <2> QED BY <2>1, <2>2
  <1> QED BY <1>1, <1>2, <1>3, AsReadInit, GatewayInvariantHolds, PTL DEF Spec

(* Overlap is all that can cost a reply: if the handlers take turns, every *)
(* reply the gateway has stored stays in the history, until a clear or a   *)
(* full file removes it.                                                   *)
THEOREM TurnsKeepReplies ==
    ASSUME Clears = {}
    PROVE  Spec /\ []OneStores /\ []HasRoom => []ReplyIsPersisted
  <1>1. GatewayInv /\ OneStores /\ FileIsAsRead /\ [Next]_vars => FileIsAsRead'
    BY AsReadStep DEF GatewayInv
  <1>2. GatewayInv /\ FileIsAsRead /\ RepliesStay /\ HasRoom /\ [Next]_vars => RepliesStay'
    BY RepliesStep DEF GatewayInv
  <1>3. RepliesStay => ReplyIsPersisted
    BY DEF RepliesStay
  <1> QED BY <1>1, <1>2, <1>3, AsReadInit, RepliesInit, GatewayInvariantHolds, PTL DEF Spec
=============================================================================
