------------------------ MODULE AssistantWorkerProofs -----------------------
(***************************************************************************)
(* For any number of worker processes, jobs, chats and faults: the types,  *)
(* one job at a time per process, no timer left behind but by a drop, and  *)
(* nothing done or remembered that was not answered.                       *)
(***************************************************************************)
EXTENDS AssistantWorker, SequenceTheorems, TLAPS

(* A call under way has set the flag of its process.                       *)
FlagIsSet == \A r \in Runs : pc[r] # "off" => processing[ProcessOf(r)]

(* The awaits of a call that has a job.                                    *)
WithJob == Awaits \ {"off", "reserving", "syncing"}

(* A job is with one call, and the queue counts it as held.                *)
HeldByOne ==
    /\ \A r \in Runs : pc[r] \in WithJob => job[r] \in Jobs
    /\ \A r \in Runs : job[r] # NoJob => pc[r] \in WithJob /\ stage[job[r]] = "held"
    /\ \A r, s \in Runs : job[r] = job[s] /\ job[r] # NoJob => r = s

(* Every exchange of a conversation has been answered.                     *)
Answered(s) == \A i \in 1..Len(s) : answers[s[i].job] > 0

(* A call saves and finishes only what it has answered.                    *)
AnswersFirst ==
    /\ \A r \in Runs :
          pc[r] \in {"rereading", "readingWindow", "opening", "writing", "markingDone"}
              => answers[job[r]] > 0
    /\ \A r \in Runs : Answered(base[r])
    /\ \A c \in Conversations : Answered(messages[c])
    /\ \A j \in Jobs : stage[j] = "done" => answers[j] > 0

(* A thinking timer runs for a job its process is working on before the    *)
(* reply, or was left behind when a job was dropped.                       *)
OnlyDropsLeaveTimers ==
    \A w \in Workers : \A j \in timers[w] :
        \/ stage[j] = "dropped"
        \/ \E r \in Runs : /\ ProcessOf(r) = w /\ job[r] = j
                           /\ pc[r] \in {"readingConversation", "generating"}

WorkerInv ==
    /\ TypeOK /\ FlagIsSet /\ OneJobPerWorker
    /\ HeldByOne /\ OnlyDropsLeaveTimers /\ AnswersFirst

-----------------------------------------------------------------------------
LEMMA RunHasProcess == \A r \in Runs : ProcessOf(r) \in Workers
  BY DEF Runs, ProcessOf

(* LastMessages keeps the type.                                            *)
LEMMA LastMessagesType ==
    ASSUME NEW s \in Seq(Message)
    PROVE  /\ LastMessages(s) \in Seq(Message)
           /\ \A i \in 1..Len(LastMessages(s)) :
                 \E k \in 1..Len(s) : LastMessages(s)[i] = s[k]
  <1> DEFINE m == IF Len(s) > MemoryWindow THEN Len(s) - MemoryWindow + 1 ELSE 1
  <1>1. /\ m \in 1..(Len(s) + 1) /\ Len(s) \in Nat
    BY WorkerAssumption, LenProperties
  <1>2. LastMessages(s) = SubSeq(s, m, Len(s))
    BY DEF LastMessages
  <1> HIDE DEF m
  <1>3. /\ SubSeq(s, m, Len(s)) \in Seq(Message)
        /\ Len(SubSeq(s, m, Len(s))) = Len(s) - m + 1
        /\ \A i \in 1..(Len(s) - m + 1) : SubSeq(s, m, Len(s))[i] = s[m + i - 1]
    BY <1>1, SubSeqProperties
  <1>4. \A i \in 1..(Len(s) - m + 1) : m + i - 1 \in 1..Len(s)
    BY <1>1
  <1> QED BY <1>1, <1>2, <1>3, <1>4

(* What is written after an exchange was in the file or is the exchange.   *)
LEMMA WithExchangeType ==
    ASSUME NEW s \in Seq(Message), NEW j \in Jobs
    PROVE  /\ WithExchange(s, j) \in Seq(Message)
           /\ \A i \in 1..Len(WithExchange(s, j)) :
                 \/ WithExchange(s, j)[i].job = j
                 \/ \E k \in 1..Len(s) : WithExchange(s, j)[i] = s[k]
  <1> DEFINE x == <<[job |-> j, role |-> "user"], [job |-> j, role |-> "assistant"]>>
             t == s \o x
  <1>1. x \in Seq(Message) /\ Len(x) = 2 /\ x[1].job = j /\ x[2].job = j
    BY DEF Message
  <1>2. WithExchange(s, j) = LastMessages(t)
    BY DEF WithExchange
  <1> HIDE DEF x
  <1> HIDE DEF t
  <1>3. /\ t \in Seq(Message) /\ Len(t) = Len(s) + 2 /\ Len(s) \in Nat
        /\ \A i \in 1..Len(t) : t[i] = IF i <= Len(s) THEN s[i] ELSE x[i - Len(s)]
    <2>1. /\ s \o x \in Seq(Message) /\ Len(s \o x) = Len(s) + Len(x)
          /\ \A i \in 1..(Len(s) + Len(x)) :
                (s \o x)[i] = IF i <= Len(s) THEN s[i] ELSE x[i - Len(s)]
      BY <1>1, ConcatProperties
    <2>2. t = s \o x
      BY DEF t
    <2>3. Len(s) \in Nat
      BY LenProperties
    <2> QED BY <1>1, <2>1, <2>2, <2>3
  <1>4. \A i \in 1..Len(t) : t[i].job = j \/ \E k \in 1..Len(s) : t[i] = s[k]
    <2> TAKE i \in 1..Len(t)
    <2>1. CASE i <= Len(s)
      BY <2>1, <1>3
    <2>2. CASE ~(i <= Len(s))
      <3>1. i - Len(s) \in {1, 2}
        BY <2>2, <1>3
      <3> QED BY <3>1, <2>2, <1>1, <1>3
    <2> QED BY <2>1, <2>2
  <1> QED BY <1>2, <1>3, <1>4, LastMessagesType

-----------------------------------------------------------------------------
(* Every step keeps the types.                                             *)
LEMMA TypeStep ==
    ASSUME TypeOK, HeldByOne, Next
    PROVE  TypeOK'
  <1> USE DEF TypeOK, queueVars, processVars, callbackVars, fileVars, configVars, Goto, Fault
  <1>0. /\ \A r \in Runs : ProcessOf(r) \in Workers
        /\ \A r \in Runs : pc[r] \in WithJob => job[r] \in Jobs
        /\ MaxFaults \in Nat /\ MaxSaves \in Nat
    BY RunHasProcess, WorkerAssumption DEF HeldByOne
  <1>1. ASSUME NEW j \in Jobs, Enqueue(j) PROVE TypeOK'
    BY <1>1 DEF Enqueue, Stages
  <1>2. ASSUME NEW r \in Runs, Tick(r) PROVE TypeOK'
    BY <1>2 DEF Tick, Awaits
  <1>3. ASSUME NEW r \in Runs, ReserveNext(r) PROVE TypeOK'
    BY <1>3 DEF ReserveNext, Awaits, Stages
  <1>4. ASSUME NEW r \in Runs, ReserveNothing(r) PROVE TypeOK'
    BY <1>0, <1>4 DEF ReserveNothing, Awaits
  <1>5. ASSUME NEW r \in Runs, pc[r] \in WithJob, DropJob(r), faults' \in 0..MaxFaults,
                UNCHANGED <<processVars, callbackVars, fileVars, configVars>>
         PROVE  TypeOK'
    BY <1>0, <1>5 DEF DropJob, Awaits, Stages
  <1>28. ASSUME NEW r \in Runs, ReadConfig(r) PROVE TypeOK'
    BY <1>0, <1>28 DEF ReadConfig, Awaits, WithJob
  <1>6. ASSUME NEW r \in Runs, ReadConfigFails(r) PROVE TypeOK'
    <2>1. pc[r] \in WithJob /\ faults' \in 0..MaxFaults
      BY <1>0, <1>6 DEF ReadConfigFails, WithJob, Awaits
    <2> QED BY <1>6, <2>1, <1>5 DEF ReadConfigFails
  <1>7. ASSUME NEW r \in Runs, ReadConversation(r) PROVE TypeOK'
    BY <1>0, <1>7 DEF ReadConversation, Awaits
  <1>8. ASSUME NEW r \in Runs, ReadConversationFails(r) PROVE TypeOK'
    <2>1. pc[r] \in WithJob /\ faults' \in 0..MaxFaults
      BY <1>0, <1>8 DEF ReadConversationFails, WithJob, Awaits
    <2> QED BY <1>8, <2>1, <1>5 DEF ReadConversationFails
  <1>9. ASSUME NEW r \in Runs, GenerateReply(r) PROVE TypeOK'
    <2>1. pc' \in [Runs -> Awaits]
      BY <1>9 DEF GenerateReply, Awaits
    <2>3. faults' \in 0..MaxFaults
      <3>1. faults' = faults \/ Fault
        BY <1>9 DEF GenerateReply
      <3> QED BY <1>0, <3>1
    <2>2. timers' \in [Workers -> SUBSET Jobs]
      BY <1>0, <1>9 DEF GenerateReply, StopThinking
    <2> QED BY <1>9, <2>1, <2>2, <2>3 DEF GenerateReply
  <1>10. ASSUME NEW r \in Runs, SendResponse(r) PROVE TypeOK'
    <2>1. pc' \in [Runs -> Awaits]
      BY <1>10 DEF SendResponse, Awaits
    <2>3. faults' \in 0..MaxFaults
      <3>1. faults' = faults \/ Fault
        BY <1>10 DEF SendResponse
      <3> QED BY <1>0, <3>1
    <2>2. answers' \in [Jobs -> Nat]
      BY <1>0, <1>10 DEF SendResponse, Awaits, WithJob
    <2> QED BY <1>10, <2>1, <2>2, <2>3 DEF SendResponse
  <1>11. ASSUME NEW r \in Runs, RereadConversation(r) PROVE TypeOK'
    <2>1. FileOf(r) \in Conversations
      BY <1>0, <1>11, WorkerAssumption DEF RereadConversation, FileOf, Awaits, WithJob
    <2> QED BY <1>11, <2>1 DEF RereadConversation, Awaits
  <1>29. ASSUME NEW r \in Runs, ReadMemoryWindow(r) PROVE TypeOK'
    BY <1>29 DEF ReadMemoryWindow, Awaits
  <1>12. ASSUME NEW r \in Runs, RereadFails(r) PROVE TypeOK'
    <2>1. faults' \in 0..MaxFaults
      <3>1. faults' = faults \/ Fault
        BY <1>12 DEF RereadFails
      <3> QED BY <1>0, <3>1
    <2>2. pc' \in [Runs -> Awaits] /\ base' \in [Runs -> Seq(Message)]
      <3>1. <<>> \in Seq(Message)
        OBVIOUS
      <3> QED BY <1>12, <3>1 DEF RereadFails, Awaits
    <2> QED BY <1>12, <2>1, <2>2 DEF RereadFails
  <1>13. ASSUME NEW r \in Runs, OpenConversation(r) PROVE TypeOK'
    BY <1>0, <1>13 DEF OpenConversation, Awaits
  <1>14. ASSUME NEW r \in Runs, SaveFails(r) PROVE TypeOK'
    BY <1>0, <1>14 DEF SaveFails, Awaits
  <1>15. ASSUME NEW r \in Runs, MarkDone(r) PROVE TypeOK'
    BY <1>0, <1>15 DEF MarkDone, Awaits, Stages
  <1>16. ASSUME NEW r \in Runs, MarkDoneFails(r) PROVE TypeOK'
    <2>1. pc[r] \in WithJob /\ faults' \in 0..MaxFaults
      BY <1>0, <1>16 DEF MarkDoneFails, WithJob, Awaits
    <2> QED BY <1>16, <2>1, <1>5 DEF MarkDoneFails
  <1>17. ASSUME NEW r \in Runs, MarkFailed(r) PROVE TypeOK'
    BY <1>0, <1>17 DEF MarkFailed, Awaits, Stages
  <1>18. ASSUME NEW r \in Runs, SyncQueueDepth(r) PROVE TypeOK'
    BY <1>0, <1>18 DEF SyncQueueDepth, Awaits
  <1>19. ASSUME NEW r \in Runs, WriteConversation(r) PROVE TypeOK'
    <2> DEFINE w == WithExchange(base[r], job[r])
    <2>1. pc[r] \in WithJob /\ messages' = [messages EXCEPT ![FileOf(r)] = w]
      BY <1>19 DEF WriteConversation, WithJob, Awaits
    <2>2. w \in Seq(Message)
      BY <1>0, <2>1, WithExchangeType
    <2>3. file' \in [Conversations -> {"whole", "empty", "damaged"}]
      BY <1>19 DEF WriteConversation
    <2>4. pc' \in [Runs -> Awaits] /\ base' \in [Runs -> Seq(Message)]
      <3>1. <<>> \in Seq(Message)
        OBVIOUS
      <3> QED BY <1>19, <3>1 DEF WriteConversation, Awaits
    <2> HIDE DEF w
    <2>5. messages' \in [Conversations -> Seq(Message)]
      BY <2>1, <2>2
    <2> QED BY <1>19, <2>3, <2>4, <2>5 DEF WriteConversation
  <1>20. ASSUME NEW w \in Workers, Restart(w),
                faults' \in 0..MaxFaults, thinking' \in SUBSET (Workers \X Jobs)
         PROVE  TypeOK'
    <2>1. stage' \in [Jobs -> Stages]
      BY <1>20 DEF Restart, Stages
    <2>2. pc' \in [Runs -> Awaits]
      BY <1>20 DEF Restart, Awaits
    <2>3. job' \in [Runs -> Jobs \cup {NoJob}]
      BY <1>20 DEF Restart
    <2>4. base' \in [Runs -> Seq(Message)]
      BY <1>20 DEF Restart
    <2> QED BY <1>20, <2>1, <2>2, <2>3, <2>4 DEF Restart
  <1>21. ASSUME NEW w \in Workers, Crash(w) PROVE TypeOK'
    BY <1>0, <1>21, <1>20 DEF Crash
  <1>22. ASSUME NEW w \in Workers, Exit(w) PROVE TypeOK'
    BY <1>0, <1>22, <1>20 DEF Exit
  <1>23. ASSUME NEW w \in Workers, Stop(w) PROVE TypeOK'
    BY <1>0, <1>23 DEF Stop
  <1>24. ASSUME NEW w \in Workers, NEW j \in Jobs, ThinkingTick(w, j) PROVE TypeOK'
    BY <1>0, <1>24 DEF ThinkingTick
  <1>25. ASSUME NEW w \in Workers, NEW j \in Jobs, ThinkingArrives(w, j) PROVE TypeOK'
    BY <1>0, <1>25 DEF ThinkingArrives
  <1>26. ASSUME NEW w \in Workers, NEW j \in Jobs, ThinkingRejected(w, j) PROVE TypeOK'
    BY <1>0, <1>26, <1>20 DEF ThinkingRejected
  <1>27. CASE (\E w \in Workers : SaveConfig(w)) \/ ConfigSaved
    BY <1>0, <1>27 DEF SaveConfig, ConfigSaved
  <1> QED
    BY <1>1, <1>2, <1>3, <1>4, <1>28, <1>29, <1>6, <1>7, <1>8, <1>9, <1>10, <1>11,
       <1>12, <1>13, <1>14, <1>15, <1>16, <1>17, <1>18, <1>19, <1>21,
       <1>22, <1>23, <1>24, <1>25, <1>26, <1>27
    DEF Next, ProcessOnce, HandleMessage

-----------------------------------------------------------------------------
(* A call under way moves on, the others stay where they are.              *)
Moves(r) == pc[r] # "off" /\ \E await : pc' = [pc EXCEPT ![r] = await]

(* So does every step of processOnce behind the flag.                      *)
LEMMA ProcessOnceMoves ==
    ASSUME TypeOK, NEW r \in Runs, ProcessOnce(r)
    PROVE  Moves(r)
  <1> USE DEF Moves, Goto
  <1>1. CASE ReserveNext(r) \/ ReserveNothing(r)
    BY <1>1 DEF ReserveNext, ReserveNothing
  <1>2. CASE ReadConfig(r) \/ ReadConversation(r)
    BY <1>2 DEF ReadConfig, ReadConversation
  <1>3. CASE SendResponse(r) \/ GenerateReply(r)
    BY <1>3 DEF SendResponse, GenerateReply
  <1>4. CASE RereadConversation(r) \/ ReadMemoryWindow(r) \/ RereadFails(r)
    BY <1>4 DEF RereadConversation, ReadMemoryWindow, RereadFails
  <1>5. CASE OpenConversation(r) \/ WriteConversation(r)
    BY <1>5 DEF OpenConversation, WriteConversation
  <1>6. CASE SaveFails(r) \/ MarkDone(r)
    BY <1>6 DEF SaveFails, MarkDone
  <1>7. CASE MarkFailed(r) \/ SyncQueueDepth(r)
    BY <1>7 DEF MarkFailed, SyncQueueDepth
  <1>8. CASE ReadConfigFails(r) \/ ReadConversationFails(r) \/ MarkDoneFails(r)
    BY <1>8 DEF ReadConfigFails, ReadConversationFails, MarkDoneFails, DropJob
  <1> QED
    BY <1>1, <1>2, <1>3, <1>4, <1>5, <1>6, <1>7, <1>8
    DEF ProcessOnce, HandleMessage

(* Only Tick raises the flag, and only when it is down.                    *)
LEMMA FlagStep ==
    ASSUME TypeOK, FlagIsSet, OneJobPerWorker, Next
    PROVE  FlagIsSet' /\ OneJobPerWorker'
  <1> USE RunHasProcess DEF TypeOK, FlagIsSet, OneJobPerWorker
  <1>1. ASSUME NEW r \in Runs, Tick(r) PROVE FlagIsSet' /\ OneJobPerWorker'
    BY <1>1 DEF Tick, Goto
  <1>2. ASSUME NEW r \in Runs, ProcessOnce(r) PROVE FlagIsSet' /\ OneJobPerWorker'
    <2>1. Moves(r)
      BY <1>2, ProcessOnceMoves
    <2>2. CASE processing' = processing
      BY <2>1, <2>2 DEF Moves
    <2>3. CASE SyncQueueDepth(r)
      BY <2>3 DEF SyncQueueDepth, Goto
    <2>4. processing' = processing \/ SyncQueueDepth(r)
      BY <1>2 DEF ProcessOnce, HandleMessage, processVars, ReserveNext, ReserveNothing,
         ReadConfig, ReadConfigFails, ReadConversation, ReadConversationFails,
         GenerateReply, SendResponse, RereadConversation, ReadMemoryWindow, RereadFails,
         OpenConversation,
         WriteConversation, SaveFails, MarkDone, MarkDoneFails, MarkFailed
    <2> QED BY <2>2, <2>3, <2>4
  <1>3. ASSUME NEW w \in Workers, Restart(w) PROVE FlagIsSet' /\ OneJobPerWorker'
    BY <1>3 DEF Restart
  <1>4. ASSUME NEW w \in Workers, Crash(w) \/ Exit(w) PROVE FlagIsSet' /\ OneJobPerWorker'
    BY <1>3, <1>4 DEF Crash, Exit
  <1>5. ASSUME NEW w \in Workers, NEW j \in Jobs, ThinkingRejected(w, j)
        PROVE  FlagIsSet' /\ OneJobPerWorker'
    BY <1>3, <1>5 DEF ThinkingRejected
  <1>6. CASE pc' = pc /\ processing' = processing
    BY <1>6
  <1>7. ASSUME NEW w \in Workers,
               Stop(w) \/ \E j \in Jobs : ThinkingTick(w, j) \/ ThinkingArrives(w, j)
        PROVE  pc' = pc /\ processing' = processing
    BY <1>7 DEF Stop, ThinkingTick, ThinkingArrives, processVars
  <1>8. ASSUME (\E j \in Jobs : Enqueue(j)) \/ (\E w \in Workers : SaveConfig(w)) \/ ConfigSaved
        PROVE  pc' = pc /\ processing' = processing
    BY <1>8 DEF Enqueue, SaveConfig, ConfigSaved, processVars
  <1> QED
    BY <1>1, <1>2, <1>4, <1>5, <1>6, <1>7, <1>8 DEF Next

(* A call goes on with what it holds.                                      *)
Keeps(r) ==
    /\ UNCHANGED <<stage, job>>
    /\ \E await \in Awaits :
          /\ pc' = [pc EXCEPT ![r] = await]
          /\ await \in WithJob <=> pc[r] \in WithJob

(* A call gives its job back, or away.                                     *)
Releases(r) ==
    /\ pc[r] \in WithJob
    /\ \E st \in {"done", "queued", "dropped"} : stage' = [stage EXCEPT ![job[r]] = st]
    /\ job' = [job EXCEPT ![r] = NoJob]
    /\ pc' = [pc EXCEPT ![r] = "syncing"]

(* The steps of processOnce are of these two kinds, or reserve.            *)
LEMMA KeepsOrReleases ==
    ASSUME TypeOK, NEW r \in Runs, ProcessOnce(r)
    PROVE  ReserveNext(r) \/ Keeps(r) \/ Releases(r)
  <1> USE DEF Keeps, Goto, WithJob, Awaits, queueVars
  <1>1. CASE ReserveNothing(r) \/ ReadConfig(r) \/ ReadConversation(r)
    BY <1>1 DEF ReserveNothing, ReadConfig, ReadConversation
  <1>2. CASE GenerateReply(r)
    BY <1>2 DEF GenerateReply
  <1>3. CASE SendResponse(r)
    BY <1>3 DEF SendResponse
  <1>4. CASE RereadConversation(r) \/ ReadMemoryWindow(r) \/ OpenConversation(r)
    BY <1>4 DEF RereadConversation, ReadMemoryWindow, OpenConversation
  <1>10. CASE RereadFails(r)
    BY <1>10 DEF RereadFails
  <1>5. CASE WriteConversation(r)
    BY <1>5 DEF WriteConversation
  <1>6. CASE SaveFails(r)
    BY <1>6 DEF SaveFails
  <1>7. CASE SyncQueueDepth(r)
    BY <1>7 DEF SyncQueueDepth
  <1>8. CASE MarkDone(r) \/ MarkFailed(r)
    BY <1>8 DEF MarkDone, MarkFailed, Releases
  <1>9. CASE ReadConfigFails(r) \/ ReadConversationFails(r) \/ MarkDoneFails(r)
    BY <1>9 DEF ReadConfigFails, ReadConversationFails, MarkDoneFails, DropJob, Releases
  <1> QED
    BY <1>1, <1>2, <1>3, <1>4, <1>5, <1>6, <1>7, <1>8, <1>9, <1>10
    DEF ProcessOnce, HandleMessage

(* Only a queued job is reserved, and only its holder lets go of it.       *)
LEMMA HeldStep ==
    ASSUME TypeOK, HeldByOne, Next
    PROVE  HeldByOne'
  <1> USE WorkerAssumption DEF TypeOK, HeldByOne
  <1>1. ASSUME NEW j \in Jobs, Enqueue(j) PROVE HeldByOne'
    BY <1>1 DEF Enqueue
  <1>2. ASSUME NEW r \in Runs, Tick(r) PROVE HeldByOne'
    BY <1>2 DEF Tick, Goto, WithJob, queueVars
  <1>3. ASSUME NEW r \in Runs, ReserveNext(r) PROVE HeldByOne'
    BY <1>3 DEF ReserveNext, Goto, WithJob, Awaits
  <1>4. ASSUME NEW r \in Runs, Keeps(r) PROVE HeldByOne'
    BY <1>4 DEF Keeps
  <1>5. ASSUME NEW r \in Runs, Releases(r) PROVE HeldByOne'
    BY <1>5 DEF Releases, WithJob, Awaits
  <1>6. ASSUME NEW w \in Workers, Restart(w) PROVE HeldByOne'
    BY <1>6 DEF Restart, WithJob
  <1>7. ASSUME NEW w \in Workers, Crash(w) \/ Exit(w) PROVE HeldByOne'
    BY <1>6, <1>7 DEF Crash, Exit
  <1>8. ASSUME NEW w \in Workers, NEW j \in Jobs, ThinkingRejected(w, j) PROVE HeldByOne'
    BY <1>6, <1>8 DEF ThinkingRejected
  <1>9. CASE UNCHANGED <<stage, job, pc>>
    BY <1>9
  <1>10. ASSUME NEW w \in Workers,
                Stop(w) \/ \E j \in Jobs : ThinkingTick(w, j) \/ ThinkingArrives(w, j)
         PROVE  UNCHANGED <<stage, job, pc>>
    BY <1>10 DEF Stop, ThinkingTick, ThinkingArrives, queueVars
  <1>11. ASSUME (\E w \in Workers : SaveConfig(w)) \/ ConfigSaved PROVE UNCHANGED <<stage, job, pc>>
    BY <1>11 DEF SaveConfig, ConfigSaved, queueVars
  <1> QED
    BY <1>1, <1>2, <1>3, <1>4, <1>5, <1>7, <1>8, <1>9, <1>10, <1>11, KeepsOrReleases DEF Next

(* A timer starts behind the first await of handleMessage, and no way out  *)
(* of the second and third await leaves it behind but a drop.              *)
LEMMA TimerStep ==
    ASSUME TypeOK, HeldByOne, OnlyDropsLeaveTimers, Next
    PROVE  OnlyDropsLeaveTimers'
  <1> USE DEF TypeOK
  <1>0. /\ \A r \in Runs : ProcessOf(r) \in Workers
        /\ \A r \in Runs : pc[r] \in WithJob => job[r] \in Jobs
        /\ \A r \in Runs : job[r] # NoJob => stage[job[r]] = "held"
        /\ NoJob \notin Jobs
    BY RunHasProcess, WorkerAssumption DEF HeldByOne
  <1> DEFINE Waiting == {"readingConversation", "generating"}
  <1>16. ASSUME \A j \in Jobs : stage[j] = "dropped" => stage'[j] = "dropped",
                \A w \in Workers : timers'[w] \subseteq timers[w],
                \A w \in Workers : \A j \in timers'[w] : \A s \in Runs :
                   ProcessOf(s) = w /\ job[s] = j /\ pc[s] \in Waiting
                      => job'[s] = j /\ pc'[s] \in Waiting
         PROVE  OnlyDropsLeaveTimers'
    <2> SUFFICES ASSUME NEW w \in Workers, NEW j \in timers'[w], stage'[j] # "dropped"
                 PROVE  \E s \in Runs : /\ ProcessOf(s) = w /\ job'[s] = j
                                          /\ pc'[s] \in Waiting
      BY DEF OnlyDropsLeaveTimers
    <2>1. j \in timers[w] /\ j \in Jobs /\ stage[j] # "dropped"
      BY <1>16
    <2>2. PICK s \in Runs : ProcessOf(s) = w /\ job[s] = j /\ pc[s] \in Waiting
      BY <2>1 DEF OnlyDropsLeaveTimers
    <2> QED BY <1>16, <2>2
  <1>1. ASSUME NEW r \in Runs, timers' = timers, Keeps(r) \/ Releases(r),
               pc[r] \notin {"readingConversation", "generating"}
        PROVE  OnlyDropsLeaveTimers'
    <2>1. \A j \in Jobs : stage[j] = "dropped" => stage'[j] = "dropped"
      BY <1>0, <1>1 DEF Keeps, Releases
    <2>2. \A s \in Runs \ {r} : pc'[s] = pc[s] /\ job'[s] = job[s]
      BY <1>1 DEF Keeps, Releases
    <2> QED BY <1>1, <1>16, <2>1, <2>2
  <1>2. ASSUME NEW r \in Runs, ReserveNext(r) PROVE OnlyDropsLeaveTimers'
    <2>1. /\ \A j \in Jobs : stage[j] = "dropped" => stage'[j] = "dropped"
          /\ \A s \in Runs \ {r} : pc'[s] = pc[s] /\ job'[s] = job[s]
          /\ pc[r] = "reserving" /\ timers' = timers
      BY <1>2 DEF ReserveNext, Goto, callbackVars
    <2> QED BY <1>16, <2>1
  <1>3. ASSUME NEW r \in Runs, ReadConfig(r) PROVE OnlyDropsLeaveTimers'
    BY <1>0, <1>3 DEF ReadConfig, Goto, queueVars, OnlyDropsLeaveTimers
  <1>4. ASSUME NEW r \in Runs, ReadConversation(r) PROVE OnlyDropsLeaveTimers'
    BY <1>0, <1>4 DEF ReadConversation, Goto, queueVars, callbackVars, OnlyDropsLeaveTimers
  <1>5. ASSUME NEW r \in Runs, ReadConversationFails(r) PROVE OnlyDropsLeaveTimers'
    <2>1. pc[r] \in WithJob /\ timers' = timers
      BY <1>5 DEF ReadConversationFails, WithJob, Awaits, callbackVars
    <2>2. /\ stage' = [stage EXCEPT ![job[r]] = "dropped"]
          /\ job' = [job EXCEPT ![r] = NoJob]
          /\ pc' = [pc EXCEPT ![r] = "syncing"]
      BY <1>5 DEF ReadConversationFails, DropJob, Goto
    <2> QED BY <1>0, <2>1, <2>2 DEF OnlyDropsLeaveTimers
  <1>6. ASSUME NEW r \in Runs, GenerateReply(r) PROVE OnlyDropsLeaveTimers'
    <2>1. /\ timers' = [timers EXCEPT ![ProcessOf(r)] = @ \ {job[r]}]
          /\ stage' = stage /\ job' = job
          /\ \A s \in Runs \ {r} : pc'[s] = pc[s]
      BY <1>6 DEF GenerateReply, StopThinking, Goto, queueVars
    <2>2. \A w \in Workers : timers'[w] \subseteq timers[w]
      BY <1>0, <2>1
    <2>3. job[r] \notin timers'[ProcessOf(r)]
      BY <1>0, <2>1
    <2> QED BY <1>16, <2>1, <2>2, <2>3
  <1>7. ASSUME NEW r \in Runs, ProcessOnce(r) PROVE OnlyDropsLeaveTimers'
    <2>1. CASE timers' = timers /\ pc[r] \notin {"readingConversation", "generating"}
      BY <1>1, <1>2, <1>7, <2>1, KeepsOrReleases
    <2>2. CASE ~(timers' = timers /\ pc[r] \notin {"readingConversation", "generating"})
      BY <1>3, <1>4, <1>5, <1>6, <1>7, <2>2 DEF ProcessOnce, HandleMessage, callbackVars,
         ReserveNext, ReserveNothing, ReadConfigFails,
         SendResponse, RereadConversation, ReadMemoryWindow, RereadFails,
         OpenConversation,
         WriteConversation, SaveFails, MarkDone, MarkDoneFails, MarkFailed, SyncQueueDepth
    <2> QED BY <2>1, <2>2
  <1>8. ASSUME NEW w \in Workers, Restart(w) PROVE OnlyDropsLeaveTimers'
    <2>1. \A j \in Jobs : stage[j] = "dropped" => stage'[j] = "dropped"
      <3> SUFFICES ASSUME NEW j \in Jobs, stage[j] = "dropped" PROVE stage'[j] = "dropped"
        OBVIOUS
      <3>1. ~\E r \in Runs : ProcessOf(r) = w /\ job[r] = j
        BY <1>0
      <3> QED BY <1>8, <3>1 DEF Restart
    <2>2. /\ timers' = [timers EXCEPT ![w] = {}]
          /\ \A s \in Runs : ProcessOf(s) # w => pc'[s] = pc[s] /\ job'[s] = job[s]
      BY <1>8 DEF Restart
    <2> QED BY <1>16, <2>1, <2>2
  <1>9. ASSUME NEW w \in Workers, Crash(w) \/ Exit(w) PROVE OnlyDropsLeaveTimers'
    BY <1>8, <1>9 DEF Crash, Exit
  <1>10. ASSUME NEW w \in Workers, NEW j \in Jobs, ThinkingRejected(w, j) PROVE OnlyDropsLeaveTimers'
    BY <1>8, <1>10 DEF ThinkingRejected
  <1>11. ASSUME NEW r \in Runs, Tick(r) PROVE OnlyDropsLeaveTimers'
    <2>1. /\ pc[r] = "off" /\ pc' = [pc EXCEPT ![r] = "reserving"]
          /\ stage' = stage /\ job' = job /\ timers' = timers
      BY <1>11 DEF Tick, Goto, queueVars, callbackVars
    <2>2. \A s \in Runs : pc[s] \in Waiting => pc'[s] \in Waiting
      BY <2>1
    <2> HIDE DEF Waiting
    <2> QED BY <1>16, <2>1, <2>2
  <1>12. ASSUME NEW j \in Jobs, Enqueue(j) PROVE OnlyDropsLeaveTimers'
    BY <1>12 DEF Enqueue, callbackVars, OnlyDropsLeaveTimers
  <1>13. CASE UNCHANGED <<stage, job, pc, timers>>
    BY <1>13 DEF OnlyDropsLeaveTimers
  <1>14. ASSUME NEW w \in Workers,
                Stop(w) \/ \E j \in Jobs : ThinkingTick(w, j) \/ ThinkingArrives(w, j)
         PROVE  UNCHANGED <<stage, job, pc, timers>>
    BY <1>14 DEF Stop, ThinkingTick, ThinkingArrives, queueVars, callbackVars
  <1>15. ASSUME (\E w \in Workers : SaveConfig(w)) \/ ConfigSaved
         PROVE  UNCHANGED <<stage, job, pc, timers>>
    BY <1>15 DEF SaveConfig, ConfigSaved, queueVars, callbackVars
  <1> QED
    BY <1>7, <1>9, <1>10, <1>11, <1>12, <1>13, <1>14, <1>15 DEF Next

(* Final callbacks only grow; a call that goes past its own saves what it  *)
(* has read and what it has answered.                                      *)
LEMMA AnswerStep ==
    ASSUME TypeOK, HeldByOne, AnswersFirst, Next
    PROVE  AnswersFirst'
  <1> DEFINE Behind == {"rereading", "readingWindow", "opening", "writing", "markingDone"}
             Grow == \A j \in Jobs : answers[j] > 0 => answers'[j] > 0
  <1>0. /\ \A r \in Runs : pc[r] \in WithJob => job[r] \in Jobs
        /\ Behind \subseteq WithJob
        /\ \A r \in Runs : \A i \in 1..Len(base[r]) : base[r][i].job \in Jobs
        /\ \A c \in Conversations : \A i \in 1..Len(messages[c]) : messages[c][i].job \in Jobs
        /\ NoJob \notin Jobs /\ answers \in [Jobs -> Nat]
        /\ ConversationOf \in [Jobs -> Conversations]
    <2>1. \A s \in Seq(Message) : \A i \in 1..Len(s) : s[i].job \in Jobs
      <3> SUFFICES ASSUME NEW s \in Seq(Message), NEW i \in 1..Len(s) PROVE s[i].job \in Jobs
        OBVIOUS
      <3>1. s[i] \in Message
        BY ElementOfSeq
      <3> QED BY <3>1 DEF Message
    <2>2. Behind \subseteq WithJob
      BY DEF WithJob, Awaits
    <2>3. /\ base \in [Runs -> Seq(Message)] /\ messages \in [Conversations -> Seq(Message)]
          /\ answers \in [Jobs -> Nat]
      BY DEF TypeOK
    <2>4. \A r \in Runs : \A i \in 1..Len(base[r]) : base[r][i].job \in Jobs
      BY <2>1, <2>3
    <2>5. \A c \in Conversations : \A i \in 1..Len(messages[c]) : messages[c][i].job \in Jobs
      BY <2>1, <2>3
    <2> HIDE DEF Behind
    <2> QED BY <2>2, <2>3, <2>4, <2>5, WorkerAssumption DEF HeldByOne
  <1>1. ASSUME Grow,
               \A r \in Runs : pc'[r] \in Behind => answers'[job'[r]] > 0,
               \A r \in Runs : \/ base'[r] = base[r] \/ base'[r] = <<>>
                                \/ \E c \in Conversations : base'[r] = messages[c],
               \A c \in Conversations : \/ messages'[c] = messages[c]
                                        \/ \A i \in 1..Len(messages'[c]) :
                                              answers'[messages'[c][i].job] > 0,
               \A j \in Jobs : stage'[j] = "done" => stage[j] = "done" \/ answers[j] > 0
        PROVE  AnswersFirst'
    <2>1. \A r \in Runs : \A i \in 1..Len(base'[r]) : answers'[base'[r][i].job] > 0
      <3> SUFFICES ASSUME NEW r \in Runs, NEW i \in 1..Len(base'[r])
                   PROVE  answers'[base'[r][i].job] > 0
        OBVIOUS
      <3>1. CASE base'[r] = base[r]
        BY <3>1, <1>0, <1>1 DEF AnswersFirst, Answered
      <3>2. CASE base'[r] = <<>>
        BY <3>2
      <3>3. ASSUME NEW c \in Conversations, base'[r] = messages[c]
            PROVE  answers'[base'[r][i].job] > 0
        BY <3>3, <1>0, <1>1 DEF AnswersFirst, Answered
      <3> QED BY <1>1, <3>1, <3>2, <3>3
    <2>2. \A c \in Conversations : \A i \in 1..Len(messages'[c]) :
             answers'[messages'[c][i].job] > 0
      BY <1>0, <1>1 DEF AnswersFirst, Answered
    <2>3. \A j \in Jobs : stage'[j] = "done" => answers'[j] > 0
      BY <1>1 DEF AnswersFirst
    <2> QED BY <1>1, <2>1, <2>2, <2>3 DEF AnswersFirst, Answered
  <1>2. ASSUME answers' = answers, UNCHANGED <<base, messages>>,
               \A r \in Runs : pc'[r] \in Behind => pc[r] \in Behind /\ job'[r] = job[r],
               \A j \in Jobs : stage'[j] = "done" => stage[j] = "done" \/ answers[j] > 0
        PROVE  AnswersFirst'
    BY <1>1, <1>2 DEF AnswersFirst
  <1>3. ASSUME NEW r \in Runs, SendResponse(r) PROVE AnswersFirst'
    <2>1. /\ pc[r] = "responding" /\ job[r] \in Jobs
          /\ UNCHANGED <<stage, job, base, messages>>
          /\ \A s \in Runs \ {r} : pc'[s] = pc[s]
      BY <1>0, <1>3 DEF SendResponse, Goto, WithJob, Awaits, queueVars, fileVars, TypeOK
    <2>2. Grow
      BY <1>0, <1>3, <2>1 DEF SendResponse
    <2>3. pc'[r] \in Behind => answers'[job[r]] > 0
      BY <1>0, <1>3, <2>1 DEF SendResponse, Goto, TypeOK
    <2>4. \A s \in Runs : pc[s] \in Behind => answers'[job[s]] > 0
      BY <1>0, <2>2 DEF AnswersFirst
    <2> QED BY <1>1, <2>1, <2>2, <2>3, <2>4
  <1>4. ASSUME NEW r \in Runs, RereadConversation(r) PROVE AnswersFirst'
    <2>1. /\ pc[r] = "rereading" /\ job[r] \in Jobs
          /\ UNCHANGED <<stage, job, messages, answers>>
          /\ \A s \in Runs \ {r} : pc'[s] = pc[s] /\ base'[s] = base[s]
          /\ base'[r] = messages[FileOf(r)]
      BY <1>0, <1>4 DEF RereadConversation, Goto, WithJob, Awaits, queueVars, callbackVars, TypeOK
    <2>2. FileOf(r) \in Conversations
      BY <1>0, <2>1 DEF FileOf
    <2> QED BY <1>1, <2>1, <2>2 DEF AnswersFirst
  <1>5. ASSUME NEW r \in Runs, OpenConversation(r) PROVE AnswersFirst'
    BY <1>2, <1>5 DEF OpenConversation, Goto, queueVars, callbackVars, TypeOK
  <1>21. ASSUME NEW r \in Runs, ReadMemoryWindow(r) PROVE AnswersFirst'
    BY <1>2, <1>21 DEF ReadMemoryWindow, Goto, queueVars, callbackVars, fileVars, TypeOK
  <1>6. ASSUME NEW r \in Runs, WriteConversation(r) PROVE AnswersFirst'
    <2>1. /\ pc[r] = "writing" /\ job[r] \in Jobs
          /\ UNCHANGED <<stage, job, answers>>
          /\ \A s \in Runs \ {r} : pc'[s] = pc[s]
          /\ base' = [base EXCEPT ![r] = <<>>]
          /\ messages' = [messages EXCEPT ![FileOf(r)] = WithExchange(base[r], job[r])]
      BY <1>0, <1>6 DEF WriteConversation, Goto, WithJob, Awaits, queueVars, callbackVars, TypeOK
    <2>2. answers[job[r]] > 0 /\ Answered(base[r]) /\ base[r] \in Seq(Message)
      BY <2>1 DEF AnswersFirst, TypeOK
    <2> DEFINE w == WithExchange(base[r], job[r])
    <2>3. \A i \in 1..Len(w) : answers[w[i].job] > 0
      BY <2>1, <2>2, WithExchangeType DEF Answered
    <2> HIDE DEF w
    <2>4. \A c \in Conversations : messages'[c] = messages[c] \/ messages'[c] = w
      BY <2>1 DEF TypeOK, w
    <2>5. \A s \in Runs : base'[s] = base[s] \/ base'[s] = <<>>
      BY <2>1 DEF TypeOK
    <2> QED BY <1>1, <2>1, <2>2, <2>3, <2>4, <2>5 DEF AnswersFirst
  <1>7. ASSUME NEW r \in Runs, SaveFails(r) \/ RereadFails(r) PROVE AnswersFirst'
    <2>1. /\ UNCHANGED <<stage, job, messages, answers>>
          /\ \A s \in Runs : base'[s] = base[s] \/ base'[s] = <<>>
          /\ \A s \in Runs : pc'[s] \in Behind => pc'[s] = pc[s]
      BY <1>7 DEF SaveFails, RereadFails, Goto, queueVars, callbackVars, TypeOK
    <2> QED BY <1>1, <2>1 DEF AnswersFirst
  <1>8. ASSUME NEW r \in Runs, MarkDone(r) PROVE AnswersFirst'
    <2>1. /\ pc[r] = "markingDone" /\ UNCHANGED <<base, messages, answers>>
          /\ \A s \in Runs : pc'[s] \in Behind => pc[s] \in Behind /\ job'[s] = job[s]
          /\ \A j \in Jobs : stage'[j] = "done" => stage[j] = "done" \/ j = job[r]
      BY <1>8 DEF MarkDone, Goto, callbackVars, fileVars, TypeOK
    <2> QED BY <1>2, <2>1 DEF AnswersFirst
  <1>9. ASSUME NEW r \in Runs, MarkDoneFails(r) \/ ReadConfigFails(r) \/ ReadConversationFails(r)
        PROVE  AnswersFirst'
    BY <1>2, <1>9 DEF MarkDoneFails, ReadConfigFails, ReadConversationFails, DropJob, Goto,
       callbackVars, fileVars, TypeOK
  <1>10. ASSUME NEW r \in Runs, MarkFailed(r) \/ ReserveNext(r) PROVE AnswersFirst'
    BY <1>2, <1>10 DEF MarkFailed, ReserveNext, Goto, callbackVars, fileVars, TypeOK
  <1>11. ASSUME NEW r \in Runs, Tick(r) \/ ReserveNothing(r) \/ SyncQueueDepth(r)
         PROVE  AnswersFirst'
    BY <1>2, <1>11 DEF Tick, ReserveNothing, SyncQueueDepth, Goto, queueVars, callbackVars,
       fileVars, TypeOK
  <1>12. ASSUME NEW r \in Runs, ReadConfig(r) \/ ReadConversation(r)
         PROVE  AnswersFirst'
    BY <1>2, <1>12 DEF ReadConfig, ReadConversation, Goto, queueVars, callbackVars,
       fileVars, TypeOK
  <1>13. ASSUME NEW r \in Runs, GenerateReply(r) PROVE AnswersFirst'
    BY <1>2, <1>13 DEF GenerateReply, Goto, queueVars, callbackVars,
       fileVars, TypeOK
  <1>14. ASSUME NEW w \in Workers, Restart(w) PROVE AnswersFirst'
    <2>1. /\ UNCHANGED <<answers, messages>>
          /\ \A s \in Runs : base'[s] = base[s] \/ base'[s] = <<>>
          /\ \A s \in Runs : pc'[s] \in Behind => pc'[s] = pc[s] /\ job'[s] = job[s]
          /\ \A j \in Jobs : stage'[j] = "done" => stage[j] = "done"
      BY <1>14 DEF Restart
    <2> QED BY <1>1, <2>1 DEF AnswersFirst
  <1>15. ASSUME NEW w \in Workers, Crash(w) \/ Exit(w) PROVE AnswersFirst'
    BY <1>14, <1>15 DEF Crash, Exit
  <1>16. ASSUME NEW w \in Workers, NEW j \in Jobs, ThinkingRejected(w, j) PROVE AnswersFirst'
    BY <1>14, <1>16 DEF ThinkingRejected
  <1>17. CASE UNCHANGED <<stage, job, pc, answers, base, messages>>
    BY <1>2, <1>17
  <1>18. ASSUME NEW w \in Workers,
                Stop(w) \/ \E j \in Jobs : ThinkingTick(w, j) \/ ThinkingArrives(w, j)
         PROVE  UNCHANGED <<stage, job, pc, answers, base, messages>>
    BY <1>18 DEF Stop, ThinkingTick, ThinkingArrives, queueVars, callbackVars, fileVars
  <1>19. ASSUME (\E w \in Workers : SaveConfig(w)) \/ ConfigSaved
         PROVE  UNCHANGED <<stage, job, pc, answers, base, messages>>
    BY <1>19 DEF SaveConfig, ConfigSaved, queueVars, callbackVars, fileVars
  <1>20. ASSUME NEW j \in Jobs, Enqueue(j) PROVE AnswersFirst'
    BY <1>2, <1>20 DEF Enqueue, callbackVars, fileVars, TypeOK
  <1> QED
    BY <1>3, <1>4, <1>5, <1>6, <1>7, <1>8, <1>9, <1>10, <1>11, <1>12, <1>13, <1>15,
       <1>16, <1>17, <1>18, <1>19, <1>20, <1>21 DEF Next, ProcessOnce, HandleMessage

-----------------------------------------------------------------------------
LEMMA InvInit == Init => WorkerInv
  <1> SUFFICES ASSUME Init PROVE WorkerInv
    OBVIOUS
  <1>1. <<>> \in Seq(Message) /\ Len(<<>>) = 0
    OBVIOUS
  <1>2. TypeOK
    BY <1>1, WorkerAssumption DEF Init, TypeOK, Stages, Awaits
  <1>3. FlagIsSet /\ OneJobPerWorker /\ OnlyDropsLeaveTimers
    BY DEF Init, FlagIsSet, OneJobPerWorker, OnlyDropsLeaveTimers
  <1>4. HeldByOne
    BY DEF Init, HeldByOne, WithJob
  <1>5. AnswersFirst
    BY <1>1 DEF Init, AnswersFirst, Answered
  <1> QED BY <1>2, <1>3, <1>4, <1>5 DEF WorkerInv

LEMMA InvStep == WorkerInv /\ [Next]_vars => WorkerInv'
  <1>1. ASSUME WorkerInv, Next PROVE WorkerInv'
    BY <1>1, TypeStep, FlagStep, HeldStep, TimerStep, AnswerStep DEF WorkerInv
  <1>2. ASSUME WorkerInv, UNCHANGED vars PROVE WorkerInv'
    <2> USE DEF vars, queueVars, processVars, callbackVars, fileVars, configVars
    <2>1. TypeOK'
      BY <1>2 DEF WorkerInv, TypeOK
    <2>2. FlagIsSet' /\ OneJobPerWorker' /\ OnlyDropsLeaveTimers'
      BY <1>2 DEF WorkerInv, FlagIsSet, OneJobPerWorker, OnlyDropsLeaveTimers
    <2>3. HeldByOne'
      BY <1>2 DEF WorkerInv, HeldByOne
    <2>4. AnswersFirst'
      BY <1>2 DEF WorkerInv, AnswersFirst, Answered
    <2> QED BY <2>1, <2>2, <2>3, <2>4 DEF WorkerInv
  <1> QED BY <1>1, <1>2

(* The invariant that the theorems below rest on, with what each awaiting  *)
(* call of processOnce knows about its job, its timer and its callback.    *)
THEOREM InvariantHolds == Spec => []WorkerInv
  BY InvInit, InvStep, PTL DEF Spec

(* Every variable has its type, whatever the number of worker processes,   *)
(* of calls of processOnce, of faults and of saved configurations.         *)
THEOREM WorkerTypeCorrect == Spec => []TypeOK
  <1>1. WorkerInv => TypeOK
    BY DEF WorkerInv
  <1> QED BY <1>1, InvariantHolds, PTL

(* processing keeps the calls of processOnce of one process apart, through *)
(* every error, crash and SIGTERM.                                         *)
THEOREM OneJobAtATime == Spec => []OneJobPerWorker
  <1>1. WorkerInv => OneJobPerWorker
    BY DEF WorkerInv
  <1> QED BY <1>1, InvariantHolds, PTL

(* What ThinkingWhileWorking claims fails in one way only: a thinking      *)
(* timer outlives the reply when its job was dropped, never when the job   *)
(* is requeued or done.                                                    *)
THEOREM TimersAreStopped == Spec => []OnlyDropsLeaveTimers
  <1>1. WorkerInv => OnlyDropsLeaveTimers
    BY DEF WorkerInv
  <1> QED BY <1>1, InvariantHolds, PTL

(* No process remembers an exchange, and none finishes a job, before the   *)
(* gateway has got its final callback.                                     *)
THEOREM AnsweredFirst == Spec => []DoneAndRememberedAreAnswered
  <1>1. WorkerInv => DoneAndRememberedAreAnswered
    BY DEF WorkerInv, AnswersFirst, Answered, DoneAndRememberedAreAnswered
  <1> QED BY <1>1, InvariantHolds, PTL

-----------------------------------------------------------------------------
(* The holder of a job is the process of the call that has it.             *)
HoldersKnown ==
    /\ \A r \in Runs : job[r] \in Jobs => HolderOf(job[r]) = ProcessOf(r)
    /\ \A j \in Jobs : (\A r \in Runs : job[r] # j) => HolderOf(j) = "no_worker"

LEMMA HolderTable == HeldByOne => HoldersKnown
  BY WorkerAssumption DEF HeldByOne, HoldersKnown, HolderOf

LEMMA HolderTableNext == HeldByOne' => HoldersKnown'
  BY HolderTable, PTL

(* A call gives its job up, and no other call takes or loses one.          *)
LEMMA GivingUpIsRelease ==
    ASSUME WorkerInv, HeldByOne', NEW r \in Runs, NEW j \in Jobs, job[r] = j,
           \A n \in Jobs \ {j} : stage'[n] = stage[n],
           stage'[j] \in {"done", "queued", "dropped", "crashed"},
           job'[r] = NoJob, \A s \in Runs \ {r} : job'[s] = job[s]
    PROVE  Lifecycle!Next
  <1> DEFINE w == ProcessOf(r)
             to == IF stage'[j] \in {"dropped", "crashed"} THEN "lost" ELSE stage'[j]
  <1>0. /\ HoldersKnown /\ HoldersKnown' /\ w \in Workers /\ j \in Jobs
        /\ stage[j] = "held" /\ NoJob \notin Jobs
        /\ \A s \in Runs \ {r} : job[s] # j
    BY HolderTable, HolderTableNext, RunHasProcess, WorkerAssumption DEF WorkerInv, HeldByOne
  <1>1. [n \in Jobs |-> StatusOf(n)'] = [[n \in Jobs |-> StatusOf(n)] EXCEPT ![j] = to]
    BY <1>0 DEF StatusOf
  <1>2. \A n \in Jobs \ {j} : HolderOf(n)' = HolderOf(n)
    <2> SUFFICES ASSUME NEW n \in Jobs \ {j} PROVE HolderOf(n)' = HolderOf(n)
      OBVIOUS
    <2>1. CASE \E s \in Runs : job[s] = n
      <3>1. PICK s \in Runs : job[s] = n
        BY <2>1
      <3>2. s # r /\ job'[s] = n
        BY <3>1
      <3> QED BY <1>0, <3>1, <3>2 DEF HoldersKnown
    <2>2. CASE \A s \in Runs : job[s] # n
      <3>1. \A s \in Runs : job'[s] # n
        BY <1>0, <2>2
      <3> QED BY <1>0, <2>2, <3>1 DEF HoldersKnown
    <2> QED BY <2>1, <2>2
  <1>3. HolderOf(j) = w /\ HolderOf(j)' = "no_worker"
    <2>1. \A s \in Runs : job'[s] # j
      BY <1>0
    <2> QED BY <1>0, <2>1 DEF HoldersKnown
  <1>4. StatusOf(j) = "held" /\ to \in {"done", "queued", "lost"}
    BY <1>0 DEF StatusOf
  <1> HIDE DEF w, to
  <1>5. [n \in Jobs |-> HolderOf(n)'] = [[n \in Jobs |-> HolderOf(n)] EXCEPT ![j] = "no_worker"]
    BY <1>0, <1>2, <1>3
  <1>6. Lifecycle!Release(w, j, to)
    BY <1>0, <1>1, <1>3, <1>4, <1>5 DEF Lifecycle!Release, Lifecycle!NoWorker
  <1> QED BY <1>0, <1>4, <1>6
          DEF Lifecycle!Next, Lifecycle!Complete, Lifecycle!Requeue, Lifecycle!Lose

(* A process that ends loses the one job it may hold.                      *)
LEMMA RestartIsLose ==
    ASSUME WorkerInv, HeldByOne', NEW w \in Workers, Restart(w)
    PROVE  Lifecycle!Next \/ UNCHANGED Lifecycle!vars
  <1>0. /\ TypeOK /\ HeldByOne /\ OneJobPerWorker /\ NoJob \notin Jobs
        /\ job' = [r \in Runs |-> IF ProcessOf(r) = w THEN NoJob ELSE job[r]]
        /\ stage' = [j \in Jobs |->
                        IF \E r \in Runs : ProcessOf(r) = w /\ job[r] = j
                        THEN "crashed" ELSE stage[j]]
    BY WorkerAssumption DEF WorkerInv, Restart
  <1>1. CASE \E r \in Runs : ProcessOf(r) = w /\ job[r] \in Jobs
    <2>1. PICK r \in Runs, j \in Jobs : ProcessOf(r) = w /\ job[r] = j
      BY <1>1
    <2>2. \A s \in Runs \ {r} : ProcessOf(s) = w => job[s] = NoJob
      BY <1>0, <2>1 DEF HeldByOne, OneJobPerWorker, WithJob, TypeOK
    <2>3. job'[r] = NoJob /\ \A s \in Runs \ {r} : job'[s] = job[s]
      BY <1>0, <2>1, <2>2
    <2>4. /\ stage'[j] = "crashed"
          /\ \A n \in Jobs \ {j} : stage'[n] = stage[n]
      BY <1>0, <2>1, <2>2
    <2> QED BY <2>1, <2>3, <2>4, GivingUpIsRelease
  <1>2. CASE \A r \in Runs : ProcessOf(r) = w => job[r] \notin Jobs
    <2>1. job' = job /\ stage' = stage
      BY <1>0, <1>2 DEF TypeOK
    <2> QED BY <2>1 DEF Lifecycle!vars, StatusOf, HolderOf
  <1> QED BY <1>1, <1>2

LEMMA ReservingIsReserve ==
    ASSUME WorkerInv, HeldByOne', NEW r \in Runs, ReserveNext(r)
    PROVE  Lifecycle!Next
  <1>0. /\ TypeOK /\ HeldByOne /\ OneJobPerWorker /\ HoldersKnown /\ HoldersKnown'
        /\ ProcessOf(r) \in Workers /\ NoJob \notin Jobs /\ "no_worker" \notin Workers
        /\ \A s \in Runs : ProcessOf(s) \in Workers
    BY HolderTable, HolderTableNext, RunHasProcess, WorkerAssumption DEF WorkerInv
  <1>1. PICK j \in Jobs : /\ stage[j] = "queued" /\ stage' = [stage EXCEPT ![j] = "held"]
                          /\ job' = [job EXCEPT ![r] = j]
    BY DEF ReserveNext
  <1>2. pc[r] = "reserving" /\ job[r] = NoJob
    BY <1>0 DEF ReserveNext, HeldByOne, WithJob
  <1>3. \A s \in Runs : job[s] # j
    BY <1>0, <1>1 DEF HeldByOne
  <1>4. \A k \in Jobs : HolderOf(k) # ProcessOf(r)
    <2> SUFFICES ASSUME NEW k \in Jobs, HolderOf(k) = ProcessOf(r) PROVE FALSE
      OBVIOUS
    <2>1. PICK s \in Runs : job[s] = k
      BY <1>0 DEF HoldersKnown
    <2>2. ProcessOf(s) = ProcessOf(r) /\ s # r /\ pc[s] # "off"
      BY <1>0, <1>2, <2>1 DEF HoldersKnown, HeldByOne, WithJob
    <2> QED BY <1>0, <1>2, <2>2 DEF OneJobPerWorker
  <1>5. \A n \in Jobs \ {j} : HolderOf(n)' = HolderOf(n)
    <2> SUFFICES ASSUME NEW n \in Jobs \ {j} PROVE HolderOf(n)' = HolderOf(n)
      OBVIOUS
    <2>1. \A s \in Runs : job'[s] = n <=> job[s] = n
      BY <1>0, <1>1, <1>2 DEF TypeOK
    <2>2. CASE \E s \in Runs : job[s] = n
      BY <1>0, <2>1, <2>2 DEF HoldersKnown
    <2>3. CASE \A s \in Runs : job[s] # n
      BY <1>0, <2>1, <2>3 DEF HoldersKnown
    <2> QED BY <2>2, <2>3
  <1>6. HolderOf(j)' = ProcessOf(r)
    <2>1. job'[r] = j
      BY <1>0, <1>1 DEF TypeOK
    <2> QED BY <1>0, <2>1 DEF HoldersKnown
  <1>7. [n \in Jobs |-> HolderOf(n)'] =
            [[n \in Jobs |-> HolderOf(n)] EXCEPT ![j] = ProcessOf(r)]
    BY <1>5, <1>6
  <1>8. [n \in Jobs |-> StatusOf(n)'] = [[n \in Jobs |-> StatusOf(n)] EXCEPT ![j] = "held"]
    BY <1>0, <1>1 DEF StatusOf, TypeOK
  <1>9. StatusOf(j) = "queued"
    BY <1>1 DEF StatusOf
  <1>10. Lifecycle!Reserve(ProcessOf(r), j)
    BY <1>4, <1>7, <1>8, <1>9 DEF Lifecycle!Reserve
  <1> QED BY <1>0, <1>10 DEF Lifecycle!Next

(* Any number of processes, with overlapping ticks, failures at any await, *)
(* crashes and SIGTERMs, treats the queue as JobLifecycle says: that is    *)
(* the contract RedisQueue and FileQueue implement from the other side.    *)
THEOREM WorkerImplementsLifecycle == Spec => ImplementsLifecycle
  <1>1. Init => Lifecycle!Init
    <2> SUFFICES ASSUME Init PROVE Lifecycle!Init
      OBVIOUS
    <2>1. \A j \in Jobs : StatusOf(j) = "new" /\ HolderOf(j) = "no_worker"
      BY WorkerAssumption DEF Init, StatusOf, HolderOf
    <2> QED BY <2>1 DEF Lifecycle!Init, Lifecycle!NoWorker
  <1>2. WorkerInv /\ WorkerInv' /\ [Next]_vars => [Lifecycle!Next]_(Lifecycle!vars)
    <2> SUFFICES ASSUME WorkerInv, HeldByOne', [Next]_vars
                 PROVE  Lifecycle!Next \/ UNCHANGED Lifecycle!vars
      BY DEF WorkerInv
    <2>1. CASE UNCHANGED <<stage, job>>
      BY <2>1 DEF Lifecycle!vars, StatusOf, HolderOf
    <2>2. ASSUME NEW j \in Jobs, Enqueue(j) PROVE Lifecycle!Next
      <3>1. /\ stage[j] = "new" /\ stage' = [stage EXCEPT ![j] = "queued"] /\ job' = job
            /\ stage \in [Jobs -> Stages]
        BY <2>2 DEF Enqueue, WorkerInv, TypeOK
      <3>2. [n \in Jobs |-> StatusOf(n)'] =
                [[n \in Jobs |-> StatusOf(n)] EXCEPT ![j] = "queued"]
        BY <3>1 DEF StatusOf
      <3>3. StatusOf(j) = "new" /\ \A n \in Jobs : HolderOf(n)' = HolderOf(n)
        BY <3>1 DEF StatusOf, HolderOf
      <3>4. Lifecycle!Enqueue(j)
        BY <3>2, <3>3 DEF Lifecycle!Enqueue
      <3> QED BY <3>4 DEF Lifecycle!Next
    <2>3. ASSUME NEW r \in Runs, Releases(r) PROVE Lifecycle!Next
      <3>1. PICK j \in Jobs : job[r] = j /\ TypeOK
        BY <2>3 DEF Releases, WorkerInv, HeldByOne
      <3>2. /\ \A n \in Jobs \ {j} : stage'[n] = stage[n]
            /\ stage'[j] \in {"done", "queued", "dropped"}
            /\ job'[r] = NoJob /\ \A s \in Runs \ {r} : job'[s] = job[s]
        BY <2>3, <3>1 DEF Releases, TypeOK
      <3> QED BY <3>1, <3>2, GivingUpIsRelease
    <2>4. ASSUME NEW r \in Runs, ProcessOnce(r)
          PROVE  Lifecycle!Next \/ UNCHANGED Lifecycle!vars
      <3>1. ReserveNext(r) \/ Keeps(r) \/ Releases(r)
        BY <2>4, KeepsOrReleases DEF WorkerInv
      <3> QED BY <2>1, <2>3, <3>1, ReservingIsReserve DEF Keeps
    <2>5. ASSUME NEW r \in Runs, Tick(r) PROVE UNCHANGED <<stage, job>>
      BY <2>5 DEF Tick, queueVars
    <2>6. ASSUME NEW w \in Workers, Crash(w) \/ Exit(w) \/ \E j \in Jobs : ThinkingRejected(w, j)
          PROVE  Restart(w)
      BY <2>6 DEF Crash, Exit, ThinkingRejected
    <2>7. ASSUME NEW w \in Workers,
                 Stop(w) \/ \E j \in Jobs : ThinkingTick(w, j) \/ ThinkingArrives(w, j)
          PROVE  UNCHANGED <<stage, job>>
      BY <2>7 DEF Stop, ThinkingTick, ThinkingArrives, queueVars
    <2>8. CASE (\E w \in Workers : SaveConfig(w)) \/ ConfigSaved \/ UNCHANGED vars
      BY <2>1, <2>8 DEF SaveConfig, ConfigSaved, vars, queueVars
    <2> QED BY <2>1, <2>2, <2>4, <2>5, <2>6, <2>7, <2>8, RestartIsLose DEF Next
  <1> QED BY <1>1, <1>2, InvariantHolds, PTL DEF Spec, ImplementsLifecycle, Lifecycle!Spec

-----------------------------------------------------------------------------
(* The calls that have a job work on files of their own.                   *)
OneCallPerFile ==
    \A r, s \in Runs :
        job[r] \in Jobs /\ job[s] \in Jobs /\ FileOf(r) = FileOf(s) => r = s

LEMMA FilesHaveOneCall == WorkerInv /\ FilesUnshared => OneCallPerFile
  <1> SUFFICES ASSUME WorkerInv, FilesUnshared, NEW r \in Runs, NEW s \in Runs,
                      job[r] \in Jobs, job[s] \in Jobs, FileOf(r) = FileOf(s)
               PROVE  r = s
    BY DEF OneCallPerFile
  <1>0. HeldByOne /\ OneJobPerWorker /\ job[r] # NoJob /\ job[s] # NoJob
    BY WorkerAssumption DEF WorkerInv
  <1>1. CASE \A v, w \in Workers : v = w
    <2>1. ProcessOf(r) = ProcessOf(s)
      BY <1>1, RunHasProcess
    <2> QED BY <1>0, <2>1 DEF HeldByOne, OneJobPerWorker, WithJob
  <1>2. CASE \A i, j \in Jobs : ConversationOf[i] = ConversationOf[j] => i = j
    BY <1>0, <1>2 DEF HeldByOne, FileOf
  <1> QED BY <1>1, <1>2 DEF FilesUnshared

(* From the read of its file to the write, a call finds the file as it     *)
(* was, or as it has left it.                                              *)
FileStays(r) ==
    /\ pc[r] \in {"generating", "responding", "rereading", "readingWindow", "opening"}
           => file[FileOf(r)] = "whole"
    /\ pc[r] = "writing" => file[FileOf(r)] = "empty"
    /\ pc[r] \in {"readingWindow", "opening", "writing"} => base[r] = messages[FileOf(r)]

FilesStay == \A r \in Runs : FileStays(r)

(* Only the calls that write change files, and only their own.             *)
LEMMA FileStep ==
    ASSUME WorkerInv, OneCallPerFile, FilesStay, [Next]_vars
    PROVE  FilesStay'
  <1>0. /\ TypeOK /\ HeldByOne
        /\ \A r \in Runs : pc[r] \in WithJob => job[r] \in Jobs /\ FileOf(r) \in Conversations
    BY WorkerAssumption DEF WorkerInv, HeldByOne, FileOf
  <1> DEFINE Uses == {"generating", "responding", "rereading", "readingWindow", "opening", "writing"}
  <1>1. ASSUME NEW r \in Runs,
               \A s \in Runs \ {r} : pc'[s] = pc[s] /\ base'[s] = base[s] /\ job'[s] = job[s],
               \A c \in Conversations : file'[c] # file[c] \/ messages'[c] # messages[c]
                                           => job[r] \in Jobs /\ c = FileOf(r),
               FileStays(r)'
        PROVE  FilesStay'
    <2> SUFFICES ASSUME NEW s \in Runs \ {r}, pc[s] \in Uses PROVE FileStays(s)'
      BY <1>1 DEF FilesStay, FileStays
    <2>1. job[s] \in Jobs /\ FileOf(s) \in Conversations /\ FileOf(s)' = FileOf(s)
      BY <1>0, <1>1 DEF WithJob, Awaits, FileOf
    <2>2. file'[FileOf(s)] = file[FileOf(s)] /\ messages'[FileOf(s)] = messages[FileOf(s)]
      BY <1>1, <2>1 DEF OneCallPerFile
    <2> QED BY <1>1, <2>1, <2>2 DEF FilesStay, FileStays
  <1>2. ASSUME UNCHANGED <<file, messages>>,
               \A r \in Runs : pc'[r] \in Uses
                   => pc'[r] = pc[r] /\ job'[r] = job[r] /\ base'[r] = base[r]
        PROVE  FilesStay'
    BY <1>2 DEF FilesStay, FileStays, FileOf
  <1>3. ASSUME NEW r \in Runs, ReadConversation(r) PROVE FilesStay'
    <2>1. /\ UNCHANGED <<job, base, file, messages>> /\ file[FileOf(r)] = "whole"
          /\ pc' = [pc EXCEPT ![r] = "generating"]
      BY <1>3 DEF ReadConversation, Goto, queueVars, fileVars
    <2> QED BY <1>0, <1>1, <2>1 DEF FileStays, FileOf, TypeOK
  <1>4. ASSUME NEW r \in Runs, GenerateReply(r) \/ SendResponse(r) PROVE FilesStay'
    <2>1. /\ UNCHANGED <<job, base, file, messages>> /\ pc[r] \in {"generating", "responding"}
          /\ \E await \in {"responding", "rereading", "markingFailed"} :
                pc' = [pc EXCEPT ![r] = await]
      BY <1>4 DEF GenerateReply, SendResponse, Goto, queueVars, fileVars
    <2>2. FileStays(r)'
      BY <1>0, <2>1 DEF FilesStay, FileStays, FileOf, TypeOK
    <2> QED BY <1>0, <1>1, <2>1, <2>2 DEF TypeOK
  <1>5. ASSUME NEW r \in Runs, RereadConversation(r) PROVE FilesStay'
    <2>1. /\ UNCHANGED <<job, file, messages>> /\ file[FileOf(r)] = "whole"
          /\ pc' = [pc EXCEPT ![r] = "readingWindow"]
          /\ base' = [base EXCEPT ![r] = messages[FileOf(r)]]
      BY <1>5 DEF RereadConversation, Goto, queueVars
    <2> QED BY <1>0, <1>1, <2>1 DEF FileStays, FileOf, TypeOK
  <1>15. ASSUME NEW r \in Runs, ReadMemoryWindow(r) PROVE FilesStay'
    <2>1. /\ UNCHANGED <<job, base, file, messages>> /\ pc[r] = "readingWindow"
          /\ pc' = [pc EXCEPT ![r] = "opening"]
      BY <1>15 DEF ReadMemoryWindow, Goto, queueVars, fileVars
    <2>2. FileStays(r)'
      BY <1>0, <2>1 DEF FilesStay, FileStays, FileOf, TypeOK
    <2> QED BY <1>0, <1>1, <2>1, <2>2 DEF TypeOK
  <1>6. ASSUME NEW r \in Runs, OpenConversation(r) PROVE FilesStay'
    <2>1. /\ UNCHANGED <<job, base, messages>> /\ pc[r] = "opening"
          /\ pc' = [pc EXCEPT ![r] = "writing"]
          /\ file' = [file EXCEPT ![FileOf(r)] = "empty"]
      BY <1>6 DEF OpenConversation, Goto, queueVars
    <2>2. job[r] \in Jobs /\ FileOf(r) \in Conversations /\ FileOf(r)' = FileOf(r)
      BY <1>0, <2>1 DEF WithJob, Awaits, FileOf
    <2>3. FileStays(r)'
      BY <1>0, <2>1, <2>2 DEF FilesStay, FileStays, TypeOK
    <2> QED BY <1>0, <1>1, <2>1, <2>2, <2>3 DEF TypeOK
  <1>7. ASSUME NEW r \in Runs, WriteConversation(r) PROVE FilesStay'
    <2>1. /\ job' = job /\ pc[r] = "writing"
          /\ pc' = [pc EXCEPT ![r] = "markingDone"]
          /\ base' = [base EXCEPT ![r] = <<>>]
          /\ \E result : file' = [file EXCEPT ![FileOf(r)] = result]
          /\ \E text : messages' = [messages EXCEPT ![FileOf(r)] = text]
      BY <1>7 DEF WriteConversation, Goto, queueVars
    <2>2. job[r] \in Jobs
      BY <1>0, <2>1 DEF WithJob, Awaits
    <2>3. FileStays(r)'
      BY <1>0, <2>1 DEF FileStays, TypeOK
    <2> QED BY <1>0, <1>1, <2>1, <2>2, <2>3 DEF TypeOK
  <1>8. ASSUME NEW r \in Runs, SaveFails(r) \/ RereadFails(r) PROVE FilesStay'
    <2>1. /\ UNCHANGED <<job, file, messages>>
          /\ pc' = [pc EXCEPT ![r] = "markingFailed"]
          /\ \A s \in Runs \ {r} : base'[s] = base[s]
      BY <1>0, <1>8 DEF SaveFails, RereadFails, Goto, queueVars, fileVars, TypeOK
    <2> QED BY <1>0, <1>2, <2>1 DEF TypeOK
  <1>9. ASSUME NEW r \in Runs, MarkDone(r) \/ MarkFailed(r) \/ SyncQueueDepth(r)
        PROVE  FilesStay'
    BY <1>0, <1>2, <1>9 DEF MarkDone, MarkFailed, SyncQueueDepth, Goto, queueVars, fileVars,
       TypeOK
  <1>10. ASSUME NEW r \in Runs,
                MarkDoneFails(r) \/ ReadConfigFails(r) \/ ReadConversationFails(r)
         PROVE  FilesStay'
    BY <1>0, <1>2, <1>10 DEF MarkDoneFails, ReadConfigFails, ReadConversationFails, DropJob,
       Goto, fileVars, TypeOK
  <1>11. ASSUME NEW r \in Runs,
                Tick(r) \/ ReserveNext(r) \/ ReserveNothing(r) \/ ReadConfig(r)
         PROVE  FilesStay'
    BY <1>0, <1>2, <1>11 DEF Tick, ReserveNext, ReserveNothing, ReadConfig, Goto, queueVars,
       fileVars, TypeOK
  <1>12. ASSUME NEW w \in Workers,
                Crash(w) \/ Exit(w) \/ \E j \in Jobs : ThinkingRejected(w, j)
         PROVE  FilesStay'
    <2>1. Restart(w)
      BY <1>12 DEF Crash, Exit, ThinkingRejected
    <2> QED BY <1>2, <2>1 DEF Restart
  <1>13. ASSUME NEW w \in Workers,
                \/ Stop(w) \/ SaveConfig(w)
                \/ \E j \in Jobs : ThinkingTick(w, j) \/ ThinkingArrives(w, j)
         PROVE  FilesStay'
    BY <1>2, <1>13 DEF Stop, SaveConfig, ThinkingTick, ThinkingArrives, queueVars, fileVars
  <1>14. CASE (\E j \in Jobs : Enqueue(j)) \/ ConfigSaved \/ UNCHANGED vars
    BY <1>2, <1>14 DEF Enqueue, ConfigSaved, vars, queueVars, fileVars
  <1> QED
    BY <1>3, <1>4, <1>5, <1>6, <1>7, <1>8, <1>9, <1>10, <1>11, <1>12, <1>13, <1>14, <1>15
    DEF Next, ProcessOnce, HandleMessage

LEMMA FilesStayInit == Init => FilesStay
  BY DEF Init, FilesStay, FileStays

(* What is saved is what the file holds, and the exchange.                 *)
LEMMA SaveStep ==
    ASSUME WorkerInv, FilesStay, [Next]_vars, NEW c \in Conversations,
           messages'[c] # messages[c]
    PROVE  \E j \in Jobs : messages'[c] = WithExchange(messages[c], j)
  <1>1. PICK r \in Runs : WriteConversation(r)
    BY DEF Next, ProcessOnce, HandleMessage, vars, queueVars, callbackVars, fileVars,
       Enqueue, Tick, ReserveNext, ReserveNothing, ReadConfig, ReadConfigFails,
       ReadConversation, ReadConversationFails, GenerateReply, SendResponse,
       RereadConversation, ReadMemoryWindow, RereadFails,
         OpenConversation, SaveFails, MarkDone,
       MarkDoneFails, MarkFailed, SyncQueueDepth, Crash, Stop, Exit, Restart,
       ThinkingTick, ThinkingArrives, ThinkingRejected, SaveConfig, ConfigSaved
  <1>2. /\ pc[r] = "writing"
        /\ messages' = [messages EXCEPT ![FileOf(r)] = WithExchange(base[r], job[r])]
    BY <1>1 DEF WriteConversation
  <1>3. job[r] \in Jobs /\ base[r] = messages[FileOf(r)]
    BY <1>2 DEF WorkerInv, HeldByOne, WithJob, Awaits, FilesStay, FileStays
  <1> QED BY <1>2, <1>3 DEF WorkerInv, TypeOK

-----------------------------------------------------------------------------
Causes == faults + saves

(* What is yet to answer the job without another cause, ...                *)
Unanswered == {"readingConfig", "readingConversation", "generating", "responding",
               "markingFailed"}

(* ... and what has read worker.json and may have to read it again: if it  *)
(* does not parse now, it has been saved in between.                       *)
JobIsCovered(j) ==
    /\ answers[j] <= 1 + Causes
    /\ stage[j] \in {"new", "queued"} => answers[j] <= Causes
    /\ \A r \in Runs : job[r] = j =>
          /\ pc[r] \in Unanswered => answers[j] <= Causes
          /\ config # "whole" =>
                /\ pc[r] \in {"readingConversation", "generating", "responding"}
                       => answers[j] + 1 <= Causes
                /\ pc[r] \in {"rereading", "readingWindow"} => answers[j] <= Causes

RepeatsCovered == \A j \in Jobs : JobIsCovered(j)

(* A job that is in no call that moves is as it was, also if there is one  *)
(* more cause; worker.json stops to parse only by a save.                  *)
LEMMA OtherJobStep ==
    ASSUME TypeOK, NEW j \in Jobs, JobIsCovered(j),
           answers'[j] = answers[j],
           stage'[j] \in {"new", "queued"} => stage[j] \in {"new", "queued"},
           \A r \in Runs : job'[r] = j => job[r] = j /\ pc'[r] = pc[r],
           Causes' \in {Causes, Causes + 1},
           config' \in {config, "whole"} \/ Causes' = Causes + 1
    PROVE  JobIsCovered(j)'
  <1>1. answers[j] \in Nat /\ Causes \in Nat
    BY DEF TypeOK, Causes
  <1>2. answers'[j] <= 1 + Causes'
    BY <1>1 DEF JobIsCovered
  <1>3. stage'[j] \in {"new", "queued"} => answers'[j] <= Causes'
    BY <1>1 DEF JobIsCovered
  <1>4. ASSUME NEW r \in Runs, job'[r] = j
        PROVE  /\ pc'[r] \in Unanswered => answers'[j] <= Causes'
               /\ config' # "whole" =>
                     /\ pc'[r] \in {"readingConversation", "generating", "responding"}
                            => answers'[j] + 1 <= Causes'
                     /\ pc'[r] \in {"rereading", "readingWindow"} => answers'[j] <= Causes'
    <2>1. job[r] = j /\ pc'[r] = pc[r]
      BY <1>4
    <2>2. CASE Causes' = Causes /\ config' \in {config, "whole"}
      BY <1>1, <2>1, <2>2 DEF JobIsCovered
    <2>3. CASE Causes' = Causes + 1
      BY <1>1, <2>1, <2>3 DEF JobIsCovered, Unanswered
    <2> QED BY <2>2, <2>3
  <1> HIDE DEF Causes
  <1> QED BY <1>2, <1>3, <1>4 DEF JobIsCovered

(* A call moves on with its job, or gives it up: only that job is to be    *)
(* looked at.                                                              *)
LEMMA OwnJobStep ==
    ASSUME WorkerInv, RepeatsCovered, NEW r \in Runs, NEW j \in Jobs, job[r] = j,
           \A n \in Jobs \ {j} : answers'[n] = answers[n] /\ stage'[n] = stage[n],
           \A s \in Runs \ {r} : job'[s] = job[s] /\ pc'[s] = pc[s],
           job'[r] \in {j, NoJob}, config' = config,
           Causes' \in {Causes, Causes + 1},
           answers'[j] <= 1 + Causes',
           stage'[j] \in {"new", "queued"} => answers'[j] <= Causes',
           job'[r] = j =>
              /\ pc'[r] \in Unanswered => answers'[j] <= Causes'
              /\ config # "whole" =>
                    /\ pc'[r] \in {"readingConversation", "generating", "responding"}
                           => answers'[j] + 1 <= Causes'
                    /\ pc'[r] \in {"rereading", "readingWindow"} => answers'[j] <= Causes'
    PROVE  RepeatsCovered'
  <1>0. TypeOK /\ HeldByOne /\ NoJob \notin Jobs
    BY WorkerAssumption DEF WorkerInv
  <1>1. ASSUME NEW n \in Jobs \ {j} PROVE JobIsCovered(n)'
    <2>1. \A s \in Runs : job'[s] = n => job[s] = n /\ pc'[s] = pc[s]
      BY <1>0
    <2>2. JobIsCovered(n)
      BY DEF RepeatsCovered
    <2> HIDE DEF Causes
    <2> QED BY <1>0, <2>1, <2>2, OtherJobStep
  <1>2. \A s \in Runs : job'[s] = j => s = r
    BY <1>0 DEF HeldByOne
  <1>3. JobIsCovered(j)'
    BY <1>2 DEF JobIsCovered
  <1> QED BY <1>1, <1>3 DEF RepeatsCovered

LEMMA CoverInit == Init => RepeatsCovered
  <1> SUFFICES ASSUME Init, NEW j \in Jobs PROVE JobIsCovered(j)
    BY DEF RepeatsCovered
  <1>1. answers[j] = 0 /\ Causes = 0 /\ config = "whole" /\ job = [r \in Runs |-> NoJob]
    BY DEF Init, Causes
  <1>2. NoJob \notin Jobs
    BY WorkerAssumption
  <1> QED BY <1>1, <1>2 DEF JobIsCovered

(* The step of a call from one await of handleMessage to another.          *)
Advances(r, await) ==
    /\ UNCHANGED <<stage, job, config, saves>>
    /\ pc' = [pc EXCEPT ![r] = await]

LEMMA CoverStep ==
    ASSUME WorkerInv, FilesStay, RepeatsCovered, [Next]_vars
    PROVE  RepeatsCovered'
  <1>0. /\ TypeOK /\ HeldByOne /\ NoJob \notin Jobs
        /\ \A r \in Runs : pc[r] \in WithJob => job[r] \in Jobs
        /\ answers \in [Jobs -> Nat] /\ Causes \in Nat /\ faults \in Nat /\ saves \in Nat
    BY WorkerAssumption DEF WorkerInv, HeldByOne, TypeOK, Causes
  <1>a. ASSUME Fault, saves' = saves PROVE Causes' = Causes + 1
    BY <1>0, <1>a DEF Fault, Causes
  <1>b. ASSUME faults' = faults, saves' = saves PROVE Causes' = Causes
    BY <1>b DEF Causes
  <1>1. ASSUME \A j \in Jobs :
                  /\ answers'[j] = answers[j]
                  /\ stage'[j] \in {"new", "queued"} => stage[j] \in {"new", "queued"},
               \A r \in Runs : job'[r] \in Jobs => job'[r] = job[r] /\ pc'[r] = pc[r],
               Causes' \in {Causes, Causes + 1},
               config' \in {config, "whole"} \/ Causes' = Causes + 1
        PROVE  RepeatsCovered'
    <2> SUFFICES ASSUME NEW j \in Jobs PROVE JobIsCovered(j)'
      BY DEF RepeatsCovered
    <2>1. JobIsCovered(j) /\ \A r \in Runs : job'[r] = j => job[r] = j /\ pc'[r] = pc[r]
      BY <1>1 DEF RepeatsCovered
    <2> HIDE DEF Causes
    <2> QED BY <1>0, <1>1, <2>1, OtherJobStep
  <1>2. ASSUME NEW r \in Runs, NEW j \in Jobs, job[r] = j, NEW await,
               Advances(r, await), Causes' \in {Causes, Causes + 1},
               answers'[j] <= 1 + Causes',
               \A n \in Jobs \ {j} : answers'[n] = answers[n],
               await \in Unanswered => answers'[j] <= Causes',
               config # "whole" =>
                  /\ await \in {"readingConversation", "generating", "responding"}
                         => answers'[j] + 1 <= Causes'
                  /\ await \in {"rereading", "readingWindow"} => answers'[j] <= Causes'
        PROVE  RepeatsCovered'
    <2>1. /\ UNCHANGED <<stage, job, config>> /\ pc'[r] = await
          /\ \A s \in Runs \ {r} : pc'[s] = pc[s]
      BY <1>0, <1>2 DEF Advances, TypeOK
    <2>2. stage'[j] = "held"
      BY <1>0, <1>2, <2>1 DEF HeldByOne
    <2> HIDE DEF Causes, Unanswered
    <2> QED BY <1>2, <2>1, <2>2, OwnJobStep
  <1>3. ASSUME NEW r \in Runs, pc[r] \in WithJob
        PROVE  /\ job[r] \in Jobs /\ answers[job[r]] \in Nat /\ stage[job[r]] = "held"
               /\ JobIsCovered(job[r])
    BY <1>0, <1>3 DEF HeldByOne, RepeatsCovered
  <1> USE DEF Goto, queueVars, processVars, callbackVars, fileVars, configVars
  <1>4. ASSUME NEW r \in Runs, ReadConfig(r) PROVE RepeatsCovered'
    <2>1. /\ pc[r] = "readingConfig" /\ config = "whole" /\ Causes' = Causes
          /\ Advances(r, "readingConversation") /\ answers' = answers
      BY <1>4, <1>b DEF ReadConfig, Advances
    <2>2. job[r] \in Jobs /\ answers[job[r]] \in Nat /\ answers[job[r]] <= Causes
      BY <1>3, <2>1 DEF JobIsCovered, Unanswered, WithJob, Awaits
    <2> HIDE DEF Causes
    <2> QED BY <1>0, <1>2, <2>1, <2>2
  <1>5. ASSUME NEW r \in Runs, ReadConversation(r) PROVE RepeatsCovered'
    <2>1. /\ pc[r] = "readingConversation" /\ Causes' = Causes
          /\ Advances(r, "generating") /\ answers' = answers
      BY <1>5, <1>b DEF ReadConversation, Advances
    <2>2. /\ job[r] \in Jobs /\ answers[job[r]] \in Nat /\ answers[job[r]] <= Causes
          /\ config # "whole" => answers[job[r]] + 1 <= Causes
      BY <1>3, <2>1 DEF JobIsCovered, Unanswered, WithJob, Awaits
    <2> HIDE DEF Causes
    <2> QED BY <1>0, <1>2, <2>1, <2>2
  <1>6. ASSUME NEW r \in Runs, GenerateReply(r) PROVE RepeatsCovered'
    <2>1. /\ pc[r] = "generating" /\ answers' = answers
          /\ \/ Advances(r, "responding") /\ Causes' = Causes
             \/ Advances(r, "markingFailed") /\ Causes' = Causes /\ config # "whole"
             \/ Advances(r, "markingFailed") /\ Causes' = Causes + 1
      BY <1>6, <1>a, <1>b DEF GenerateReply, Advances
    <2>2. /\ job[r] \in Jobs /\ answers[job[r]] \in Nat /\ answers[job[r]] <= Causes
          /\ config # "whole" => answers[job[r]] + 1 <= Causes
      BY <1>3, <2>1 DEF JobIsCovered, Unanswered, WithJob, Awaits
    <2> HIDE DEF Causes
    <2> QED BY <1>0, <1>2, <2>1, <2>2
  <1>7. ASSUME NEW r \in Runs, SendResponse(r) PROVE RepeatsCovered'
    <2>1. /\ pc[r] = "responding"
          /\ \/ /\ Advances(r, "rereading") /\ Causes' = Causes
                /\ answers' = [answers EXCEPT ![job[r]] = @ + 1]
             \/ /\ Advances(r, "markingFailed") /\ Causes' = Causes + 1
                /\ \/ answers' = [answers EXCEPT ![job[r]] = @ + 1]
                   \/ answers' = answers
      BY <1>7, <1>a, <1>b DEF SendResponse, Advances
    <2>2. /\ job[r] \in Jobs /\ answers[job[r]] \in Nat /\ answers[job[r]] <= Causes
          /\ config # "whole" => answers[job[r]] + 1 <= Causes
      BY <1>3, <2>1 DEF JobIsCovered, Unanswered, WithJob, Awaits
    <2>3. /\ answers'[job[r]] \in {answers[job[r]], answers[job[r]] + 1}
          /\ \A n \in Jobs \ {job[r]} : answers'[n] = answers[n]
      BY <1>0, <2>1, <2>2
    <2> HIDE DEF Causes
    <2>4. CASE Advances(r, "rereading") /\ Causes' = Causes
      <3>1. "rereading" \notin Unanswered
        BY DEF Unanswered
      <3> QED BY <1>0, <1>2, <2>2, <2>3, <2>4, <3>1
    <2>5. CASE Advances(r, "markingFailed") /\ Causes' = Causes + 1
      BY <1>0, <1>2, <2>2, <2>3, <2>5
    <2> QED BY <2>1, <2>4, <2>5
  <1>8. ASSUME NEW r \in Runs, RereadFails(r) PROVE RepeatsCovered'
    <2>1. /\ pc[r] \in {"rereading", "readingWindow"}
          /\ answers' = answers /\ Advances(r, "markingFailed")
          /\ file[FileOf(r)] = "whole"
      BY <1>8 DEF RereadFails, Advances, FilesStay, FileStays
    <2>2. (config # "whole" /\ Causes' = Causes) \/ Causes' = Causes + 1
      BY <1>8, <2>1, <1>a, <1>b DEF RereadFails
    <2>3. /\ job[r] \in Jobs /\ answers[job[r]] \in Nat /\ answers[job[r]] <= 1 + Causes
          /\ config # "whole" => answers[job[r]] <= Causes
      BY <1>3, <2>1 DEF JobIsCovered, WithJob, Awaits
    <2> HIDE DEF Causes
    <2> QED BY <1>0, <1>2, <2>1, <2>2, <2>3
  <1>21. ASSUME NEW r \in Runs, RereadConversation(r) PROVE RepeatsCovered'
    <2>1. /\ pc[r] = "rereading" /\ answers' = answers /\ Causes' = Causes
          /\ Advances(r, "readingWindow")
      BY <1>21, <1>b DEF RereadConversation, Advances
    <2>2. /\ job[r] \in Jobs /\ answers[job[r]] \in Nat /\ answers[job[r]] <= 1 + Causes
          /\ config # "whole" => answers[job[r]] <= Causes
      BY <1>3, <2>1 DEF JobIsCovered, WithJob, Awaits
    <2> HIDE DEF Causes
    <2> QED BY <1>0, <1>2, <2>1, <2>2 DEF Unanswered
  <1>9. ASSUME NEW r \in Runs,
               ReadMemoryWindow(r) \/ OpenConversation(r) \/ WriteConversation(r)
        PROVE  RepeatsCovered'
    <2>1. /\ pc[r] \in {"readingWindow", "opening", "writing"} /\ answers' = answers
          /\ Causes' = Causes
          /\ \E await \in {"opening", "writing", "markingDone"} : Advances(r, await)
      BY <1>9, <1>b DEF ReadMemoryWindow, OpenConversation, WriteConversation, Advances
    <2>2. job[r] \in Jobs /\ answers[job[r]] \in Nat /\ answers[job[r]] <= 1 + Causes
      BY <1>3, <2>1 DEF JobIsCovered, WithJob, Awaits
    <2> HIDE DEF Causes
    <2> QED BY <1>0, <1>2, <2>1, <2>2 DEF Unanswered
  <1>10. ASSUME NEW r \in Runs, SaveFails(r) PROVE RepeatsCovered'
    <2>1. /\ pc[r] \in {"opening", "writing"} /\ answers' = answers
          /\ Causes' = Causes + 1 /\ Advances(r, "markingFailed")
      BY <1>10, <1>a DEF SaveFails, Advances
    <2>2. job[r] \in Jobs /\ answers[job[r]] \in Nat /\ answers[job[r]] <= 1 + Causes
      BY <1>3, <2>1 DEF JobIsCovered, WithJob, Awaits
    <2> HIDE DEF Causes
    <2> QED BY <1>0, <1>2, <2>1, <2>2
  <1>11. ASSUME NEW r \in Runs,
                \/ MarkDone(r) \/ MarkDoneFails(r) \/ MarkFailed(r)
                \/ ReadConfigFails(r) \/ ReadConversationFails(r)
         PROVE  RepeatsCovered'
    <2> DEFINE j == job[r]
    <2>1. /\ pc[r] \in {"markingDone", "markingFailed", "readingConfig", "readingConversation"}
          /\ answers' = answers /\ config' = config /\ job' = [job EXCEPT ![r] = NoJob]
          /\ pc' = [pc EXCEPT ![r] = "syncing"]
          /\ \E to \in {"done", "dropped", "queued"} :
                /\ stage' = [stage EXCEPT ![j] = to]
                /\ to = "queued" => pc[r] = "markingFailed"
      BY <1>11 DEF MarkDone, MarkDoneFails, MarkFailed, ReadConfigFails,
         ReadConversationFails, DropJob
    <2>2. Causes' \in {Causes, Causes + 1}
      BY <1>11, <1>a, <1>b DEF MarkDone, MarkDoneFails, MarkFailed, ReadConfigFails,
         ReadConversationFails
    <2>3. /\ j \in Jobs /\ answers[j] \in Nat /\ answers[j] <= 1 + Causes
          /\ pc[r] = "markingFailed" => answers[j] <= Causes
      BY <1>3, <2>1 DEF JobIsCovered, Unanswered, WithJob, Awaits
    <2>4. job[r] = j
      OBVIOUS
    <2> HIDE DEF j, Causes
    <2>5. /\ \A n \in Jobs \ {j} : answers'[n] = answers[n] /\ stage'[n] = stage[n]
          /\ \A s \in Runs \ {r} : job'[s] = job[s] /\ pc'[s] = pc[s]
          /\ job'[r] = NoJob /\ NoJob # j
          /\ stage'[j] \in {"new", "queued"} => pc[r] = "markingFailed"
      BY <1>0, <2>1, <2>3 DEF TypeOK
    <2>6. answers'[j] <= 1 + Causes' /\ (pc[r] = "markingFailed" => answers'[j] <= Causes')
      BY <1>0, <2>1, <2>2, <2>3
    <2> QED BY <2>1, <2>2, <2>3, <2>4, <2>5, <2>6, OwnJobStep
  <1>12. ASSUME NEW r \in Runs, ReserveNext(r) PROVE RepeatsCovered'
    <2>1. PICK j \in Jobs :
             /\ stage[j] = "queued" /\ stage' = [stage EXCEPT ![j] = "held"]
             /\ job' = [job EXCEPT ![r] = j] /\ pc' = [pc EXCEPT ![r] = "readingConfig"]
             /\ UNCHANGED <<answers, config>>
      BY <1>12 DEF ReserveNext
    <2>2. Causes' = Causes
      BY <1>12, <1>b DEF ReserveNext
    <2>3. ASSUME NEW n \in Jobs \ {j} PROVE JobIsCovered(n)'
      <3>1. /\ answers'[n] = answers[n] /\ stage'[n] = stage[n] /\ JobIsCovered(n)
            /\ \A s \in Runs : job'[s] = n => job[s] = n /\ pc'[s] = pc[s]
        BY <1>0, <2>1 DEF TypeOK, RepeatsCovered
      <3> HIDE DEF Causes
      <3> QED BY <1>0, <2>1, <2>2, <3>1, OtherJobStep
    <2>4. JobIsCovered(j)'
      <3>1. \A s \in Runs : job'[s] = j => s = r
        BY <1>0, <2>1 DEF HeldByOne, TypeOK
      <3>2. answers'[j] <= Causes' /\ answers'[j] \in Nat /\ stage'[j] = "held"
        BY <1>0, <2>1, <2>2 DEF RepeatsCovered, JobIsCovered, TypeOK
      <3>3. pc'[r] = "readingConfig"
        BY <1>0, <2>1 DEF TypeOK
      <3> HIDE DEF Causes
      <3>4. answers'[j] <= 1 + Causes'
        BY <1>0, <2>2, <3>2
      <3> QED BY <3>1, <3>2, <3>3, <3>4 DEF JobIsCovered
    <2> QED BY <2>3, <2>4 DEF RepeatsCovered
  <1>13. ASSUME NEW r \in Runs, Tick(r) \/ ReserveNothing(r) \/ SyncQueueDepth(r)
         PROVE  RepeatsCovered'
    <2>1. /\ UNCHANGED <<stage, job, answers, config>> /\ Causes' \in {Causes, Causes + 1}
          /\ pc[r] \notin WithJob /\ \A s \in Runs \ {r} : pc'[s] = pc[s]
      BY <1>0, <1>13, <1>a, <1>b DEF Tick, ReserveNothing, SyncQueueDepth, WithJob, TypeOK
    <2> HIDE DEF Causes
    <2> QED BY <1>0, <1>1, <2>1 DEF HeldByOne
  <1>14. ASSUME NEW w \in Workers, Restart(w), Causes' \in {Causes, Causes + 1}
         PROVE  RepeatsCovered'
    <2>1. /\ UNCHANGED <<answers, config>>
          /\ \A j \in Jobs : stage'[j] \in {stage[j], "crashed"}
          /\ \A r \in Runs : job'[r] \in Jobs => job'[r] = job[r] /\ pc'[r] = pc[r]
      BY <1>0, <1>14 DEF Restart
    <2> HIDE DEF Causes
    <2> QED BY <1>1, <1>14, <2>1
  <1>15. ASSUME NEW w \in Workers,
                Crash(w) \/ Exit(w) \/ \E j \in Jobs : ThinkingRejected(w, j)
         PROVE  RepeatsCovered'
    <2>1. Restart(w) /\ saves' = saves /\ (Fault \/ faults' = faults)
      BY <1>15 DEF Crash, Exit, ThinkingRejected, Restart
    <2> QED BY <1>14, <1>a, <1>b, <2>1
  <1>16. ASSUME NEW w \in Workers, SaveConfig(w) PROVE RepeatsCovered'
    <2>1. UNCHANGED <<stage, job, pc, answers>> /\ Causes' = Causes + 1
      BY <1>0, <1>16 DEF SaveConfig, Causes
    <2> HIDE DEF Causes
    <2> QED BY <1>1, <2>1
  <1>17. ASSUME NEW w \in Workers,
                Stop(w) \/ \E j \in Jobs : ThinkingTick(w, j) \/ ThinkingArrives(w, j)
         PROVE  RepeatsCovered'
    <2>1. UNCHANGED <<stage, job, pc, answers, config>> /\ Causes' \in {Causes, Causes + 1}
      BY <1>17, <1>a, <1>b DEF Stop, ThinkingTick, ThinkingArrives
    <2> HIDE DEF Causes
    <2> QED BY <1>1, <2>1
  <1>18. CASE ConfigSaved
    <2>1. UNCHANGED <<stage, job, pc, answers>> /\ config' = "whole" /\ Causes' = Causes
      BY <1>18, <1>b DEF ConfigSaved
    <2> HIDE DEF Causes
    <2> QED BY <1>1, <2>1
  <1>19. ASSUME NEW j \in Jobs, Enqueue(j) PROVE RepeatsCovered'
    <2>1. /\ UNCHANGED <<job, pc, answers, config>> /\ Causes' = Causes
          /\ \A n \in Jobs : stage'[n] \in {"new", "queued"} => stage[n] \in {"new", "queued"}
      BY <1>0, <1>19, <1>b DEF Enqueue, TypeOK
    <2> HIDE DEF Causes
    <2> QED BY <1>1, <2>1
  <1>20. CASE UNCHANGED vars
    <2>1. UNCHANGED <<stage, job, pc, answers, config>> /\ Causes' = Causes
      BY <1>20, <1>b DEF vars
    <2> HIDE DEF Causes
    <2> QED BY <1>1, <2>1
  <1> QED
    BY <1>4, <1>5, <1>6, <1>7, <1>8, <1>9, <1>10, <1>11, <1>12, <1>13, <1>15, <1>16, <1>17,
       <1>18, <1>19, <1>20, <1>21 DEF Next, ProcessOnce, HandleMessage

-----------------------------------------------------------------------------
(* Until something fails or worker.json is saved, files parse unless they  *)
(* are being written, and nothing is lost.                                 *)
BeingWritten(c) == \E r \in Runs : pc[r] = "writing" /\ FileOf(r) = c

Calm ==
    /\ config = "whole"
    /\ \A w \in Workers : ~stopping[w]
    /\ \A c \in Conversations : file[c] = "whole" \/ (file[c] = "empty" /\ BeingWritten(c))
    /\ \A j \in Jobs : stage[j] \notin {"dropped", "crashed"}

Undisturbed == faults = 0 /\ saves = 0 => Calm

LEMMA UndisturbedInit == Init => Undisturbed
  BY DEF Init, Undisturbed, Calm

LEMMA UndisturbedStep ==
    ASSUME WorkerInv, OneCallPerFile, FilesStay, Undisturbed, [Next]_vars
    PROVE  Undisturbed'
  <1> SUFFICES ASSUME faults' = 0, saves' = 0 PROVE Calm'
    BY DEF Undisturbed
  <1>0. /\ TypeOK /\ HeldByOne /\ faults \in Nat /\ saves \in Nat
        /\ \A r \in Runs : pc[r] \in WithJob => job[r] \in Jobs /\ FileOf(r) \in Conversations
    BY WorkerAssumption DEF WorkerInv, HeldByOne, FileOf, TypeOK
  <1> USE DEF Goto, queueVars, processVars, callbackVars, fileVars, configVars
  <1>a. ~Fault /\ saves' # saves + 1
    BY <1>0 DEF Fault
  <1>b. ASSUME faults' = faults, saves' = saves PROVE Calm
    BY <1>b DEF Undisturbed
  <1>1. ASSUME UNCHANGED <<faults, saves, config, stopping, file>>,
               \A r \in Runs : pc[r] = "writing" => pc'[r] = "writing" /\ job'[r] = job[r],
               \A j \in Jobs : stage'[j] \in {"new", "queued", "held", "done"} \cup {stage[j]}
        PROVE  Calm'
    BY <1>1, <1>b DEF Calm, BeingWritten, FileOf
  <1>2. ASSUME NEW r \in Runs, OpenConversation(r) PROVE Calm'
    <2>1. /\ UNCHANGED <<faults, saves, config, stopping, stage, job>> /\ pc[r] = "opening"
          /\ pc' = [pc EXCEPT ![r] = "writing"]
          /\ file' = [file EXCEPT ![FileOf(r)] = "empty"]
      BY <1>2 DEF OpenConversation
    <2>2. pc'[r] = "writing" /\ \A s \in Runs : pc[s] = "writing" => pc'[s] = "writing"
      BY <1>0, <2>1 DEF TypeOK
    <2>3. \A c \in Conversations : IF c = FileOf(r) THEN file'[c] = "empty" ELSE file'[c] = file[c]
      BY <1>0, <2>1 DEF TypeOK
    <2>4. \A s \in Runs : FileOf(s)' = FileOf(s)
      BY <2>1 DEF FileOf
    <2> QED BY <1>b, <2>1, <2>2, <2>3, <2>4 DEF Calm, BeingWritten
  <1>3. ASSUME NEW r \in Runs, WriteConversation(r) PROVE Calm'
    <2>1. /\ UNCHANGED <<faults, saves, config, stopping, stage, job>> /\ pc[r] = "writing"
          /\ pc' = [pc EXCEPT ![r] = "markingDone"]
          /\ \E result \in (IF file[FileOf(r)] = "empty" THEN {"whole"} ELSE {"whole", "damaged"}) :
                file' = [file EXCEPT ![FileOf(r)] = result]
      BY <1>3 DEF WriteConversation
    <2>2. job[r] \in Jobs /\ FileOf(r) \in Conversations
      BY <1>0, <2>1 DEF WithJob, Awaits
    <2>3. file'[FileOf(r)] = "whole" /\ \A c \in Conversations \ {FileOf(r)} : file'[c] = file[c]
      <3>1. file[FileOf(r)] = "empty"
        BY <2>1 DEF FilesStay, FileStays
      <3> QED BY <1>0, <2>1, <2>2, <3>1 DEF TypeOK
    <2>4. \A s \in Runs : pc[s] = "writing" /\ FileOf(s) # FileOf(r)
              => pc'[s] = "writing" /\ FileOf(s)' = FileOf(s)
      BY <1>0, <2>1 DEF TypeOK, FileOf
    <2> QED BY <1>b, <2>1, <2>3, <2>4 DEF Calm, BeingWritten
  <1>4. ASSUME NEW r \in Runs, ReadConversationFails(r) PROVE FALSE
    <2>1. pc[r] = "readingConversation" /\ file[FileOf(r)] # "whole" /\ UNCHANGED <<faults, saves>>
      BY <1>4, <1>a DEF ReadConversationFails
    <2>2. job[r] \in Jobs /\ FileOf(r) \in Conversations
      BY <1>0, <2>1 DEF WithJob, Awaits
    <2>3. PICK s \in Runs : pc[s] = "writing" /\ FileOf(s) = FileOf(r)
      BY <1>b, <2>1, <2>2 DEF Calm, BeingWritten
    <2>4. job[s] \in Jobs
      BY <1>0, <2>3 DEF WithJob, Awaits
    <2> QED BY <2>1, <2>2, <2>3, <2>4 DEF OneCallPerFile
  <1>5. ASSUME NEW r \in Runs, ReadConfigFails(r) \/ MarkDoneFails(r) \/ SaveFails(r) PROVE FALSE
    BY <1>5, <1>a, <1>b DEF ReadConfigFails, MarkDoneFails, SaveFails, Calm
  <1>6. ASSUME NEW r \in Runs,
               \/ ReserveNext(r) \/ ReserveNothing(r) \/ ReadConfig(r) \/ ReadConversation(r)
               \/ GenerateReply(r) \/ SendResponse(r) \/ RereadConversation(r)
               \/ ReadMemoryWindow(r) \/ RereadFails(r)
        PROVE  Calm'
    <2>1. /\ UNCHANGED <<faults, saves, config, stopping, file>> /\ pc[r] # "writing"
          /\ \A s \in Runs \ {r} : pc'[s] = pc[s] /\ job'[s] = job[s]
      BY <1>0, <1>6, <1>a DEF ReserveNext, ReserveNothing, ReadConfig, ReadConversation,
         GenerateReply, SendResponse, RereadConversation, ReadMemoryWindow,
         RereadFails, TypeOK
    <2>2. \A j \in Jobs : stage'[j] \in {stage[j], "held"}
      BY <1>0, <1>6 DEF ReserveNext, ReserveNothing, ReadConfig, ReadConversation,
         GenerateReply, SendResponse, RereadConversation, ReadMemoryWindow,
         RereadFails, TypeOK
    <2> QED BY <1>1, <2>1, <2>2
  <1>7. ASSUME NEW r \in Runs,
               Tick(r) \/ MarkDone(r) \/ MarkFailed(r) \/ SyncQueueDepth(r)
        PROVE  Calm'
    <2>1. /\ UNCHANGED <<faults, saves, config, stopping, file>> /\ pc[r] # "writing"
          /\ \A s \in Runs \ {r} : pc'[s] = pc[s] /\ job'[s] = job[s]
          /\ \A j \in Jobs : stage'[j] \in {stage[j], "done", "queued"}
      BY <1>0, <1>7 DEF Tick, MarkDone, MarkFailed, SyncQueueDepth, TypeOK
    <2> QED BY <1>1, <2>1
  <1>8. ASSUME NEW w \in Workers,
               \/ Crash(w) \/ Stop(w) \/ Exit(w) \/ SaveConfig(w)
               \/ \E j \in Jobs : ThinkingRejected(w, j)
        PROVE  FALSE
    <2>1. CASE Exit(w)
      <3>1. stopping[w] /\ UNCHANGED <<faults, saves>>
        BY <2>1 DEF Exit, Restart
      <3> QED BY <1>b, <3>1 DEF Calm
    <2>2. CASE \/ Crash(w) \/ Stop(w) \/ SaveConfig(w)
               \/ \E j \in Jobs : ThinkingRejected(w, j)
      BY <2>2, <1>a DEF Crash, Stop, SaveConfig, ThinkingRejected
    <2> QED BY <1>8, <2>1, <2>2
  <1>9. ASSUME NEW w \in Workers, NEW j \in Jobs, ThinkingTick(w, j) \/ ThinkingArrives(w, j)
        PROVE  Calm'
    <2>1. UNCHANGED <<faults, saves, config, stopping, file, pc, job, stage>>
      BY <1>9 DEF ThinkingTick, ThinkingArrives
    <2> QED BY <1>1, <2>1
  <1>10. ASSUME NEW j \in Jobs, Enqueue(j) PROVE Calm'
    <2>1. /\ UNCHANGED <<faults, saves, config, stopping, file, pc, job>>
          /\ \A n \in Jobs : stage'[n] \in {stage[n], "queued"}
      BY <1>0, <1>10 DEF Enqueue, TypeOK
    <2> QED BY <1>1, <2>1
  <1>11. CASE ConfigSaved
    <2>1. saver # "no_worker" /\ config = "whole"
      BY <1>11, <1>b DEF ConfigSaved, Calm
    <2> QED BY <1>0, <2>1 DEF TypeOK
  <1>12. ASSUME UNCHANGED vars PROVE Calm'
    <2>1. UNCHANGED <<faults, saves, config, stopping, file, pc, job, stage>>
      BY <1>12 DEF vars
    <2> QED BY <1>1, <2>1
  <1> QED
    BY <1>2, <1>3, <1>4, <1>5, <1>6, <1>7, <1>8, <1>9, <1>10, <1>11, <1>12
    DEF Next, ProcessOnce, HandleMessage

-----------------------------------------------------------------------------
(* What the theorems below rest on, while no two calls work on one file.   *)
SharedInv == WorkerInv /\ FilesStay /\ RepeatsCovered /\ Undisturbed

LEMMA SharedInvHolds == Spec /\ []OneCallPerFile => []SharedInv
  <1>1. Init => FilesStay /\ RepeatsCovered /\ Undisturbed
    BY FilesStayInit, CoverInit, UndisturbedInit
  <1>2. WorkerInv /\ OneCallPerFile /\ FilesStay /\ RepeatsCovered /\ Undisturbed /\ [Next]_vars
            => FilesStay' /\ RepeatsCovered' /\ Undisturbed'
    BY FileStep, CoverStep, UndisturbedStep
  <1> QED BY <1>1, <1>2, InvariantHolds, PTL DEF Spec, SharedInv

(* However many processes and chats there are: as long as no two calls are *)
(* at work on one conversation file at once, every final callback of a job *)
(* after its first has a failure or a configuration save of its own.       *)
THEOREM RepeatsHaveCauseUnshared == Spec /\ []OneCallPerFile => []RepeatsHaveCause
  <1>1. SharedInv => RepeatsHaveCause
    <2> SUFFICES ASSUME SharedInv, NEW j \in Jobs PROVE answers[j] <= 1 + faults + saves
      BY DEF RepeatsHaveCause
    <2>1. answers[j] <= 1 + Causes /\ faults \in Nat /\ saves \in Nat
      BY WorkerAssumption DEF SharedInv, RepeatsCovered, JobIsCovered, WorkerInv, TypeOK
    <2> QED BY <2>1, WorkerAssumption DEF Causes, SharedInv, WorkerInv, TypeOK
  <1> QED BY <1>1, SharedInvHolds, PTL

(* With one worker process, or a chat of its own for each job, this is so  *)
(* from the start: each attempt answers once, and a job that was answered  *)
(* runs again only after a failing call, a dying process or a save of      *)
(* worker.json under its feet.                                             *)
THEOREM AnswersHaveCause ==
    ASSUME FilesUnshared
    PROVE  Spec => []RepeatsHaveCause
  <1>1. WorkerInv => OneCallPerFile
    BY FilesHaveOneCall
  <1> QED BY <1>1, InvariantHolds, RepeatsHaveCauseUnshared, PTL

(* And appendExchange then extends what the file holds when it is written, *)
(* although it has read the file three awaits before.                      *)
THEOREM MemoryExtendsFile ==
    ASSUME FilesUnshared
    PROVE  Spec => SavesExtendFile
  <1>1. WorkerInv => OneCallPerFile
    BY FilesHaveOneCall
  <1> DEFINE Extends ==
               \A c \in Conversations :
                  messages'[c] # messages[c] =>
                      \E j \in Jobs : messages'[c] = WithExchange(messages[c], j)
  <1>2. SharedInv /\ [Next]_vars => [Extends]_vars
    BY SaveStep DEF SharedInv
  <1> QED BY <1>1, <1>2, InvariantHolds, SharedInvHolds, PTL DEF Spec, SavesExtendFile

(* "One queued job should produce one final callback answer in V1", until  *)
(* something fails: no job is lost, none has had two answers, and one that *)
(* has left the queue as done has had exactly one.                         *)
THEOREM OneAnswerUntilFault ==
    ASSUME FilesUnshared
    PROVE  Spec => [](faults = 0 /\ saves = 0 =>
                        \A j \in Jobs :
                           /\ stage[j] \notin {"dropped", "crashed"}
                           /\ answers[j] <= 1
                           /\ stage[j] = "done" => answers[j] = 1)
  <1>1. WorkerInv => OneCallPerFile
    BY FilesHaveOneCall
  <1>2. SharedInv =>
            (faults = 0 /\ saves = 0 =>
               \A j \in Jobs :
                  /\ stage[j] \notin {"dropped", "crashed"}
                  /\ answers[j] <= 1
                  /\ stage[j] = "done" => answers[j] = 1)
    <2> SUFFICES ASSUME SharedInv, faults = 0, saves = 0, NEW j \in Jobs
                 PROVE  /\ stage[j] \notin {"dropped", "crashed"}
                        /\ answers[j] <= 1
                        /\ stage[j] = "done" => answers[j] = 1
      OBVIOUS
    <2>1. stage[j] \notin {"dropped", "crashed"}
      BY DEF SharedInv, Undisturbed, Calm
    <2>2. answers[j] \in Nat /\ answers[j] <= 1
      BY DEF SharedInv, WorkerInv, TypeOK, RepeatsCovered, JobIsCovered, Causes
    <2>3. stage[j] = "done" => answers[j] > 0
      BY DEF SharedInv, WorkerInv, AnswersFirst, Answered
    <2> QED BY <2>1, <2>2, <2>3
  <1> QED BY <1>1, <1>2, InvariantHolds, SharedInvHolds, PTL

-----------------------------------------------------------------------------
(* What a file holds stays until the file is full.                         *)
Remembers(s, j) == Len(s) = MemoryWindow \/ \E i \in 1..Len(s) : s[i].job = j

LEMMA ExchangeRemembers ==
    ASSUME NEW s \in Seq(Message), NEW j \in Jobs
    PROVE  /\ Remembers(WithExchange(s, j), j)
           /\ Len(s) <= MemoryWindow => Len(WithExchange(s, j)) <= MemoryWindow
           /\ Len(s) <= MemoryWindow =>
                 \A n \in Jobs : Remembers(s, n) => Remembers(WithExchange(s, j), n)
  <1> DEFINE x == <<[job |-> j, role |-> "user"], [job |-> j, role |-> "assistant"]>>
             t == s \o x
             u == WithExchange(s, j)
  <1>1. /\ x \in Seq(Message) /\ t \in Seq(Message) /\ Len(t) = Len(s) + 2 /\ Len(s) \in Nat
        /\ \A i \in 1..Len(s) : t[i] = s[i]
        /\ t[Len(t)].job = j
    BY DEF Message
  <1>2. u = SubSeq(t, IF Len(t) > MemoryWindow THEN Len(t) - MemoryWindow + 1 ELSE 1, Len(t))
    BY DEF WithExchange, LastMessages
  <1> HIDE DEF t, u, x
  <1>3. CASE Len(t) > MemoryWindow
    <2>1. u = SubSeq(t, Len(t) - MemoryWindow + 1, Len(t))
      BY <1>2, <1>3
    <2>2. Len(u) = MemoryWindow
      BY <1>1, <1>3, <2>1, WorkerAssumption
    <2> QED BY <2>2, WorkerAssumption DEF Remembers, u
  <1>4. CASE Len(t) <= MemoryWindow
    <2>1. u = SubSeq(t, 1, Len(t))
      <3>1. ~(Len(t) > MemoryWindow)
        BY <1>1, <1>4, WorkerAssumption
      <3> QED BY <1>2, <3>1
    <2>2. Len(u) = Len(t) /\ \A i \in 1..Len(t) : u[i] = t[i]
      BY <1>1, <2>1
    <2>3. Remembers(u, j)
      BY <1>1, <2>2 DEF Remembers
    <2>4. \A n \in Jobs : Remembers(s, n) => Remembers(u, n)
      BY <1>1, <1>4, <2>2, WorkerAssumption DEF Remembers
    <2> QED BY <1>1, <1>4, <2>2, <2>3, <2>4 DEF u
  <1> QED BY <1>1, <1>3, <1>4, WorkerAssumption

(* The exchange of a job is in its file from the save on.                  *)
MemoryIsKept ==
    /\ \A c \in Conversations : Len(messages[c]) <= MemoryWindow
    /\ \A j \in Jobs : stage[j] = "done" => Remembered(j)
    /\ \A r \in Runs : pc[r] = "markingDone" => Remembered(job[r])

LEMMA MemoryKeptInit == Init => MemoryIsKept
  <1> SUFFICES ASSUME Init PROVE MemoryIsKept
    OBVIOUS
  <1>1. /\ \A c \in Conversations : messages[c] = <<>>
        /\ \A j \in Jobs : stage[j] = "new"
        /\ \A r \in Runs : pc[r] = "off"
    BY DEF Init
  <1> QED BY <1>1, WorkerAssumption DEF MemoryIsKept

(* A save adds to what the file holds, and is done by a call that then has *)
(* its job in the file.                                                    *)
LEMMA MemoryKeptStep ==
    ASSUME WorkerInv, FilesStay, MemoryIsKept, [Next]_vars
    PROVE  MemoryIsKept'
  <1>0. /\ TypeOK /\ HeldByOne
        /\ \A j \in Jobs : ConversationOf[j] \in Conversations
        /\ \A r \in Runs : pc[r] \in WithJob => job[r] \in Jobs
    BY WorkerAssumption DEF WorkerInv, HeldByOne
  <1>1. /\ \A c \in Conversations : Len(messages'[c]) <= MemoryWindow
        /\ \A j \in Jobs : Remembered(j) => Remembered(j)'
    <2>1. ASSUME NEW c \in Conversations
          PROVE  /\ Len(messages'[c]) <= MemoryWindow
                 /\ \A n \in Jobs : Remembers(messages[c], n) => Remembers(messages'[c], n)
      <3>1. messages[c] \in Seq(Message) /\ Len(messages[c]) <= MemoryWindow
        BY <1>0 DEF TypeOK, MemoryIsKept
      <3>2. CASE messages'[c] = messages[c]
        BY <3>1, <3>2
      <3>3. CASE messages'[c] # messages[c]
        BY <3>1, <3>3, SaveStep, ExchangeRemembers
      <3> QED BY <3>2, <3>3
    <2>2. \A j \in Jobs : /\ Remembered(j) <=> Remembers(messages[ConversationOf[j]], j)
                          /\ Remembered(j)' <=> Remembers(messages'[ConversationOf[j]], j)
      BY DEF Remembered, Remembers
    <2> QED BY <1>0, <2>1, <2>2
  <1>2. ASSUME \A j \in Jobs : stage'[j] = "done" => stage[j] = "done",
               \A r \in Runs : pc'[r] = "markingDone"
                   => pc[r] = "markingDone" /\ job'[r] = job[r]
        PROVE  MemoryIsKept'
    BY <1>0, <1>1, <1>2 DEF MemoryIsKept, WithJob, Awaits
  <1>3. ASSUME NEW r \in Runs, WriteConversation(r) PROVE MemoryIsKept'
    <2>1. /\ UNCHANGED <<stage, job>> /\ pc[r] = "writing"
          /\ pc' = [pc EXCEPT ![r] = "markingDone"]
          /\ messages' = [messages EXCEPT ![FileOf(r)] = WithExchange(base[r], job[r])]
      BY <1>3 DEF WriteConversation, Goto, queueVars
    <2>2. job[r] \in Jobs /\ FileOf(r) \in Conversations /\ base[r] \in Seq(Message)
      BY <1>0, <2>1 DEF WithJob, Awaits, FileOf, TypeOK
    <2>3. Remembered(job[r])'
      <3>1. messages'[ConversationOf[job[r]]] = WithExchange(base[r], job[r])
        BY <1>0, <2>1, <2>2 DEF FileOf, TypeOK
      <3>2. Remembers(WithExchange(base[r], job[r]), job[r])
        BY <2>2, ExchangeRemembers
      <3> QED BY <2>1, <3>1, <3>2 DEF Remembers, Remembered
    <2>4. \A q \in Runs \ {r} : pc'[q] = pc[q]
      BY <1>0, <2>1 DEF TypeOK
    <2>5. \A q \in Runs : pc'[q] = "markingDone" => Remembered(job[q])'
      <3> SUFFICES ASSUME NEW q \in Runs \ {r}, pc'[q] = "markingDone"
                   PROVE  Remembered(job[q])'
        BY <2>3
      <3>1. pc[q] = "markingDone" /\ job[q] \in Jobs
        BY <1>0, <2>4 DEF WithJob, Awaits
      <3>2. Remembered(job[q])
        BY <3>1 DEF MemoryIsKept
      <3> QED BY <1>1, <2>1, <3>1, <3>2 DEF Remembered
    <2>6. \A j \in Jobs : stage'[j] = "done" => Remembered(j)'
      BY <1>1, <2>1 DEF MemoryIsKept
    <2> QED BY <1>1, <2>1, <2>5, <2>6 DEF MemoryIsKept, Remembered
  <1>4. ASSUME NEW r \in Runs, MarkDone(r) PROVE MemoryIsKept'
    <2>1. /\ pc[r] = "markingDone" /\ pc' = [pc EXCEPT ![r] = "syncing"]
          /\ stage' = [stage EXCEPT ![job[r]] = "done"]
          /\ job' = [job EXCEPT ![r] = NoJob]
      BY <1>4 DEF MarkDone, Goto
    <2>2. Remembered(job[r]) /\ job[r] \in Jobs
      BY <1>0, <2>1 DEF MemoryIsKept, WithJob, Awaits
    <2>3. \A j \in Jobs : stage'[j] = "done" => stage[j] = "done" \/ j = job[r]
      BY <1>0, <2>1 DEF TypeOK
    <2>4. \A q \in Runs : pc'[q] = "markingDone" => pc[q] = "markingDone" /\ job'[q] = job[q]
      BY <1>0, <2>1 DEF TypeOK
    <2> QED BY <1>0, <1>1, <2>2, <2>3, <2>4 DEF MemoryIsKept, WithJob, Awaits
  <1>5. ASSUME NEW r \in Runs,
               \/ Tick(r) \/ ReserveNext(r) \/ ReserveNothing(r)
               \/ ReadConfig(r) \/ ReadConversation(r) \/ GenerateReply(r) \/ SendResponse(r)
               \/ RereadConversation(r) \/ ReadMemoryWindow(r) \/ RereadFails(r)
               \/ OpenConversation(r) \/ SaveFails(r) \/ MarkFailed(r) \/ SyncQueueDepth(r)
        PROVE  MemoryIsKept'
    <2>1. \E await \in Awaits \ {"markingDone"} : pc' = [pc EXCEPT ![r] = await]
      BY <1>5 DEF Tick, ReserveNext, ReserveNothing, ReadConfig, ReadConversation,
         GenerateReply, SendResponse, RereadConversation, ReadMemoryWindow, RereadFails,
         OpenConversation,
         SaveFails, MarkFailed, SyncQueueDepth, Goto, Awaits
    <2>2. \A q \in Runs \ {r} : job'[q] = job[q]
      BY <1>0, <1>5 DEF Tick, ReserveNext, ReserveNothing, ReadConfig, ReadConversation,
         GenerateReply, SendResponse, RereadConversation, ReadMemoryWindow, RereadFails,
         OpenConversation,
         SaveFails, MarkFailed, SyncQueueDepth, queueVars, TypeOK
    <2>3. \A j \in Jobs : stage'[j] = "done" => stage[j] = "done"
      BY <1>0, <1>5 DEF Tick, ReserveNext, ReserveNothing, ReadConfig, ReadConversation,
         GenerateReply, SendResponse, RereadConversation, ReadMemoryWindow, RereadFails,
         OpenConversation,
         SaveFails, MarkFailed, SyncQueueDepth, queueVars, TypeOK
    <2>4. \A q \in Runs : pc'[q] = "markingDone" => pc[q] = "markingDone" /\ job'[q] = job[q]
      BY <1>0, <2>1, <2>2 DEF TypeOK
    <2> QED BY <1>2, <2>3, <2>4
  <1>6. ASSUME NEW r \in Runs,
               MarkDoneFails(r) \/ ReadConfigFails(r) \/ ReadConversationFails(r)
        PROVE  MemoryIsKept'
    <2>1. DropJob(r)
      BY <1>6 DEF MarkDoneFails, ReadConfigFails, ReadConversationFails
    <2>2. \A j \in Jobs : stage'[j] = "done" => stage[j] = "done"
      BY <1>0, <2>1 DEF DropJob, TypeOK
    <2>3. \A q \in Runs : pc'[q] = "markingDone" => pc[q] = "markingDone" /\ job'[q] = job[q]
      BY <1>0, <2>1 DEF DropJob, Goto, TypeOK
    <2> QED BY <1>2, <2>2, <2>3
  <1>7. ASSUME NEW w \in Workers,
               Crash(w) \/ Exit(w) \/ \E j \in Jobs : ThinkingRejected(w, j)
        PROVE  MemoryIsKept'
    <2>1. Restart(w)
      BY <1>7 DEF Crash, Exit, ThinkingRejected
    <2> QED BY <1>2, <2>1 DEF Restart
  <1>8. ASSUME NEW w \in Workers,
               \/ Stop(w) \/ SaveConfig(w)
               \/ \E j \in Jobs : ThinkingTick(w, j) \/ ThinkingArrives(w, j)
        PROVE  MemoryIsKept'
    BY <1>2, <1>8 DEF Stop, SaveConfig, ThinkingTick, ThinkingArrives, queueVars
  <1>9. CASE (\E j \in Jobs : Enqueue(j)) \/ ConfigSaved \/ UNCHANGED vars
    BY <1>0, <1>2, <1>9 DEF Enqueue, ConfigSaved, vars, queueVars, TypeOK
  <1> QED
    BY <1>3, <1>4, <1>5, <1>6, <1>7, <1>8, <1>9 DEF Next, ProcessOnce, HandleMessage

(* "Append the new user message and assistant reply to messages": as long  *)
(* as no two calls work on one file at once, the exchange of every job     *)
(* that is done is in its file until the file is full, through all         *)
(* failures, deaths and retries.  Two instances of the worker, which       *)
(* docs/operations/scaling.md allows, are all that can lose it.            *)
THEOREM UnsharedMemoryIsComplete == Spec /\ []OneCallPerFile => []DoneIsRemembered
  <1>1. SharedInv /\ MemoryIsKept /\ [Next]_vars => MemoryIsKept'
    BY MemoryKeptStep DEF SharedInv
  <1>2. MemoryIsKept => DoneIsRemembered
    BY DEF MemoryIsKept, DoneIsRemembered
  <1> QED BY <1>1, <1>2, MemoryKeptInit, SharedInvHolds, PTL DEF Spec
=============================================================================
