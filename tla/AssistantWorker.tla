--------------------------- MODULE AssistantWorker --------------------------
(***************************************************************************)
(* The processing of queued jobs by assistant-worker: the poll timer, the  *)
(* handling of one job from its reservation to its acknowledgement, the    *)
(* thinking timers, the callbacks to the gateway, and the conversation and *)
(* configuration files.  Each await is a step boundary.                    *)
(*                                                                         *)
(* The queue is JobLifecycle's view of it: RedisQueue and FileQueue model  *)
(* the adapters.  A process that dies loses the job it holds with either.  *)
(***************************************************************************)
EXTENDS Integers, Sequences

CONSTANTS Jobs,            \* the accepted requests
          Conversations,   \* the conversation files
          ConversationOf,  \* ConversationOf[j]: the file of the chat of job j
          Workers,         \* assistant-worker processes sharing the files
          MaxTicks,        \* calls of processOnce one process may have pending
          MemoryWindow,    \* memory_window: messages kept in a file
          MaxFaults,       \* bound: failing calls, crashes and SIGTERMs
          MaxSaves,        \* bound: configurations saved from the worker page
          NoJob            \* job[r] of a call that has reserved nothing

ASSUME WorkerAssumption ==
    /\ ConversationOf \in [Jobs -> Conversations]
    /\ MaxTicks \in Nat \ {0} /\ MemoryWindow \in 1..20
    /\ MaxFaults \in Nat /\ MaxSaves \in Nat
    /\ NoJob \notin Jobs
    /\ "no_worker" \notin Workers

(* A call of processOnce: the process it runs in and a number.             *)
Runs == Workers \X (1..MaxTicks)
ProcessOf(r) == r[1]

VARIABLES stage,       \* stage[j]: the job as the queue sees it
          processing,  \* the flag of each worker
          stopping,    \* stopping[w]: w has got a SIGTERM
          pc,          \* pc[r]: the await call r is suspended in
          job,         \* job[r]: the job call r has reserved
          base,        \* base[r]: the messages appendExchange has read
          timers,      \* timers[w]: the jobs with a running thinking timer
          thinking,    \* thinking callbacks in flight, <<worker, job>>
          answers,     \* answers[j]: final callbacks the gateway received
          messages,    \* messages[c]: the messages last written to file c
          file,        \* file[c]: whether the content of file c parses
          config,      \* the same for worker.json
          saver,       \* the process that is writing worker.json, or none
          saves,       \* configuration saves so far
          faults       \* failing calls and crashes so far

queueVars == <<stage, job>>
processVars == <<processing, stopping>>
callbackVars == <<timers, thinking, answers>>
fileVars == <<base, messages, file>>
configVars == <<config, saver, saves>>
vars == <<queueVars, processVars, pc, callbackVars, fileVars, configVars, faults>>

Stages == {"new", "queued", "held", "done", "dropped", "crashed"}
Awaits == {"off", "reserving", "readingConfig", "readingConversation",
           "generating", "responding", "rereading", "readingWindow", "opening",
           "writing", "markingDone", "markingFailed", "syncing"}

Message == [job : Jobs, role : {"user", "assistant"}]

TypeOK ==
    /\ stage \in [Jobs -> Stages]
    /\ processing \in [Workers -> BOOLEAN]
    /\ stopping \in [Workers -> BOOLEAN]
    /\ pc \in [Runs -> Awaits]
    /\ job \in [Runs -> Jobs \cup {NoJob}]
    /\ base \in [Runs -> Seq(Message)]
    /\ timers \in [Workers -> SUBSET Jobs]
    /\ thinking \in SUBSET (Workers \X Jobs)
    /\ answers \in [Jobs -> Nat]
    /\ messages \in [Conversations -> Seq(Message)]
    /\ file \in [Conversations -> {"whole", "empty", "damaged"}]
    /\ config \in {"whole", "empty"}
    /\ saver \in Workers \cup {"no_worker"}
    /\ config = "whole" => saver = "no_worker"
    /\ saves \in 0..MaxSaves
    /\ faults \in 0..MaxFaults

Init ==
    /\ stage = [j \in Jobs |-> "new"]
    /\ processing = [w \in Workers |-> FALSE]
    /\ stopping = [w \in Workers |-> FALSE]
    /\ pc = [r \in Runs |-> "off"]
    /\ job = [r \in Runs |-> NoJob]
    /\ base = [r \in Runs |-> <<>>]
    /\ timers = [w \in Workers |-> {}]
    /\ thinking = {}
    /\ answers = [j \in Jobs |-> 0]
    /\ messages = [c \in Conversations |-> <<>>]
    /\ file = [c \in Conversations |-> "whole"]
    /\ config = "whole"
    /\ saver = "no_worker"
    /\ saves = 0
    /\ faults = 0

Goto(r, await) == pc' = [pc EXCEPT ![r] = await]
FileOf(r) == ConversationOf[job[r]]

(* A call that goes wrong costs one of the MaxFaults.                      *)
Fault == faults < MaxFaults /\ faults' = faults + 1

-----------------------------------------------------------------------------
(* The queue and the poll timer                                            *)

(* assistant-api enqueues the job.                                         *)
Enqueue(j) ==
    /\ stage[j] = "new"
    /\ stage' = [stage EXCEPT ![j] = "queued"]
    /\ UNCHANGED <<job, processVars, pc, callbackVars, fileVars, configVars, faults>>

(* Mutant of Tick: processOnce does not look at the flag.                  *)
TickUnguarded(r) ==
    /\ pc[r] = "off"
    /\ ~stopping[ProcessOf(r)]
    /\ processing' = [processing EXCEPT ![ProcessOf(r)] = TRUE]
    /\ Goto(r, "reserving")
    /\ UNCHANGED <<queueVars, stopping, callbackVars, fileVars, configVars, faults>>

(* The timer calls processOnce, which returns at once if processing.       *)
Tick(r) ==
    /\ pc[r] = "off"
    /\ ~stopping[ProcessOf(r)]
    /\ ~processing[ProcessOf(r)]
    /\ processing' = [processing EXCEPT ![ProcessOf(r)] = TRUE]
    /\ Goto(r, "reserving")
    /\ UNCHANGED <<queueVars, stopping, callbackVars, fileVars, configVars, faults>>

ReserveNext(r) ==
    /\ pc[r] = "reserving"
    /\ \E j \in Jobs :
          /\ stage[j] = "queued"
          /\ stage' = [stage EXCEPT ![j] = "held"]
          /\ job' = [job EXCEPT ![r] = j]
    /\ Goto(r, "readingConfig")
    /\ UNCHANGED <<processVars, callbackVars, fileVars, configVars, faults>>

(* Mutant of ReserveNothing: null is handled like a job.                   *)
ReserveNothingUnchecked(r) ==
    /\ pc[r] = "reserving"
    /\ \A j \in Jobs : stage[j] # "queued"
    /\ Goto(r, "readingConfig")
    /\ UNCHANGED <<queueVars, processVars, callbackVars, fileVars, configVars, faults>>

(* Nothing is queued, or the consumer throws: no job was reserved.         *)
ReserveNothing(r) ==
    /\ pc[r] = "reserving"
    /\ \/ (\A j \in Jobs : stage[j] # "queued") /\ UNCHANGED faults
       \/ Fault
    /\ Goto(r, "syncing")
    /\ UNCHANGED <<queueVars, processVars, callbackVars, fileVars, configVars>>

-----------------------------------------------------------------------------
(* handleMessage                                                           *)

(* The error is not the job: the catch of processOnce passes it by, and    *)
(* the job is neither done nor queued again.                               *)
DropJob(r) ==
    /\ stage' = [stage EXCEPT ![job[r]] = "dropped"]
    /\ job' = [job EXCEPT ![r] = NoJob]
    /\ Goto(r, "syncing")

(* assistantWorkerConfigService.read, then startThinkingLoop.              *)
ReadConfig(r) ==
    /\ pc[r] = "readingConfig"
    /\ config = "whole"
    /\ timers' = [timers EXCEPT ![ProcessOf(r)] = @ \cup {job[r]}]
    /\ Goto(r, "readingConversation")
    /\ UNCHANGED <<queueVars, processVars, thinking, answers, fileVars, configVars, faults>>

(* An incomplete worker.json does not parse.                               *)
ReadConfigFails(r) ==
    /\ pc[r] = "readingConfig"
    /\ (config # "whole" /\ UNCHANGED faults) \/ Fault
    /\ DropJob(r)
    /\ UNCHANGED <<processVars, callbackVars, fileVars, configVars>>

ReadConversation(r) ==
    /\ pc[r] = "readingConversation"
    /\ file[FileOf(r)] = "whole"
    /\ Goto(r, "generating")
    /\ UNCHANGED <<queueVars, processVars, callbackVars, fileVars, configVars, faults>>

(* conversationService.read is awaited before the try: its error drops the *)
(* job and leaves the thinking timer running.                              *)
ReadConversationFails(r) ==
    /\ pc[r] = "readingConversation"
    /\ (file[FileOf(r)] # "whole" /\ UNCHANGED faults) \/ Fault
    /\ DropJob(r)
    /\ UNCHANGED <<processVars, callbackVars, fileVars, configVars>>

StopThinking(r) ==
    timers' = [timers EXCEPT ![ProcessOf(r)] = @ \ {job[r]}]

(* The LLM call fails, or worker.json does not parse, which the provider   *)
(* service and the provider read again.                                    *)
GenerateReply(r) ==
    /\ pc[r] = "generating"
    /\ StopThinking(r)
    /\ \/ Goto(r, "responding") /\ UNCHANGED faults
       \/ Goto(r, "markingFailed") /\ ((config # "whole" /\ UNCHANGED faults) \/ Fault)
    /\ UNCHANGED <<queueVars, processVars, thinking, answers, fileVars, configVars>>

(* Mutant of SendResponse: response.ok is not looked at.                   *)
SendResponseUnchecked(r) ==
    /\ pc[r] = "responding"
    /\ \/ answers' = [answers EXCEPT ![job[r]] = @ + 1] /\ UNCHANGED faults
       \/ UNCHANGED answers /\ Fault
    /\ Goto(r, "rereading")
    /\ UNCHANGED <<queueVars, processVars, timers, thinking, fileVars, configVars>>

(* callbackDeliveryService.sendResponse.  The callback may be lost, and    *)
(* its answer may be lost or an error after the gateway has acted on it.   *)
SendResponse(r) ==
    /\ pc[r] = "responding"
    /\ \/ /\ answers' = [answers EXCEPT ![job[r]] = @ + 1]
          /\ Goto(r, "rereading") /\ UNCHANGED faults
       \/ /\ answers' = [answers EXCEPT ![job[r]] = @ + 1]
          /\ Goto(r, "markingFailed") /\ Fault
       \/ UNCHANGED answers /\ Goto(r, "markingFailed") /\ Fault
    /\ UNCHANGED <<queueVars, processVars, timers, thinking, fileVars, configVars>>

(* appendExchange reads the file again, ...                                *)
RereadConversation(r) ==
    /\ pc[r] = "rereading"
    /\ file[FileOf(r)] = "whole"
    /\ base' = [base EXCEPT ![r] = messages[FileOf(r)]]
    /\ Goto(r, "readingWindow")
    /\ UNCHANGED <<queueVars, processVars, callbackVars, messages, file, configVars, faults>>

(* ... and then memory_window from worker.json.                            *)
ReadMemoryWindow(r) ==
    /\ pc[r] = "readingWindow"
    /\ config = "whole"
    /\ Goto(r, "opening")
    /\ UNCHANGED <<queueVars, processVars, callbackVars, fileVars, configVars, faults>>

RereadFails(r) ==
    /\ \/ pc[r] = "rereading" /\ ((file[FileOf(r)] # "whole" /\ UNCHANGED faults) \/ Fault)
       \/ pc[r] = "readingWindow" /\ ((config # "whole" /\ UNCHANGED faults) \/ Fault)
    /\ base' = [base EXCEPT ![r] = <<>>]
    /\ Goto(r, "markingFailed")
    /\ UNCHANGED <<queueVars, processVars, callbackVars, messages, file, configVars>>

(* writeFile opens the file and truncates it, ...                          *)
OpenConversation(r) ==
    /\ pc[r] = "opening"
    /\ file' = [file EXCEPT ![FileOf(r)] = "empty"]
    /\ Goto(r, "writing")
    /\ UNCHANGED <<queueVars, processVars, callbackVars, base, messages, configVars, faults>>

LastMessages(s) ==
    SubSeq(s, IF Len(s) > MemoryWindow THEN Len(s) - MemoryWindow + 1 ELSE 1, Len(s))

WithExchange(s, j) ==
    LastMessages(s \o <<[job |-> j, role |-> "user"], [job |-> j, role |-> "assistant"]>>)

(* ... and writes it from the start.  If another process has written since *)
(* the truncation, a longer text keeps its tail behind the new one.        *)
WriteConversation(r) ==
    /\ pc[r] = "writing"
    /\ messages' = [messages EXCEPT ![FileOf(r)] = WithExchange(base[r], job[r])]
    /\ base' = [base EXCEPT ![r] = <<>>]
    /\ \E result \in (IF file[FileOf(r)] = "empty" THEN {"whole"} ELSE {"whole", "damaged"}) :
          file' = [file EXCEPT ![FileOf(r)] = result]
    /\ Goto(r, "markingDone")
    /\ UNCHANGED <<queueVars, processVars, callbackVars, configVars, faults>>

(* mkdir, open or write fails.                                             *)
SaveFails(r) ==
    /\ pc[r] \in {"opening", "writing"}
    /\ Fault
    /\ base' = [base EXCEPT ![r] = <<>>]
    /\ Goto(r, "markingFailed")
    /\ UNCHANGED <<queueVars, processVars, callbackVars, messages, file, configVars>>

-----------------------------------------------------------------------------
(* The rest of processOnce                                                 *)

(* Mutant of MarkDone: the job goes back to the queue.                     *)
MarkDoneRequeues(r) ==
    /\ pc[r] = "markingDone"
    /\ stage' = [stage EXCEPT ![job[r]] = "queued"]
    /\ job' = [job EXCEPT ![r] = NoJob]
    /\ Goto(r, "syncing")
    /\ UNCHANGED <<processVars, callbackVars, fileVars, configVars, faults>>

MarkDone(r) ==
    /\ pc[r] = "markingDone"
    /\ stage' = [stage EXCEPT ![job[r]] = "done"]
    /\ job' = [job EXCEPT ![r] = NoJob]
    /\ Goto(r, "syncing")
    /\ UNCHANGED <<processVars, callbackVars, fileVars, configVars, faults>>

(* The file queue cannot remove the file: the error is not the job.        *)
MarkDoneFails(r) ==
    /\ pc[r] = "markingDone"
    /\ Fault
    /\ DropJob(r)
    /\ UNCHANGED <<processVars, callbackVars, fileVars, configVars>>

MarkFailed(r) ==
    /\ pc[r] = "markingFailed"
    /\ stage' = [stage EXCEPT ![job[r]] = "queued"]
    /\ job' = [job EXCEPT ![r] = NoJob]
    /\ Goto(r, "syncing")
    /\ UNCHANGED <<processVars, callbackVars, fileVars, configVars, faults>>

(* Mutant of SyncQueueDepth: the flag is not reset.                        *)
SyncKeepsFlag(r) ==
    /\ pc[r] = "syncing"
    /\ Goto(r, "off")
    /\ UNCHANGED <<queueVars, processVars, callbackVars, fileVars, configVars, faults>>

(* finally: syncQueueDepth, then the flag.                                 *)
SyncQueueDepth(r) ==
    /\ pc[r] = "syncing"
    /\ processing' = [processing EXCEPT ![ProcessOf(r)] = FALSE]
    /\ Goto(r, "off")
    /\ UNCHANGED <<queueVars, stopping, callbackVars, fileVars, configVars, faults>>

(* The process ends and is restarted.  Its timers and calls are gone; a    *)
(* job it held is lost, a file it had truncated stays empty, worker.json   *)
(* until it is saved again.                                                *)
Restart(w) ==
    /\ processing' = [processing EXCEPT ![w] = FALSE]
    /\ stopping' = [stopping EXCEPT ![w] = FALSE]
    /\ pc' = [r \in Runs |-> IF ProcessOf(r) = w THEN "off" ELSE pc[r]]
    /\ job' = [r \in Runs |-> IF ProcessOf(r) = w THEN NoJob ELSE job[r]]
    /\ base' = [r \in Runs |-> IF ProcessOf(r) = w THEN <<>> ELSE base[r]]
    /\ stage' = [j \in Jobs |->
                   IF \E r \in Runs : ProcessOf(r) = w /\ job[r] = j
                   THEN "crashed" ELSE stage[j]]
    /\ timers' = [timers EXCEPT ![w] = {}]
    /\ saver' = IF saver = w THEN "no_worker" ELSE saver
    /\ UNCHANGED <<answers, messages, file, config, saves>>

(* A process dies of itself, or of a promise nobody handles: markFailed or *)
(* syncQueueDepth rejects.                                                 *)
Crash(w) ==
    /\ saver = w \/ \E r \in Runs : ProcessOf(r) = w /\ pc[r] # "off"
    /\ Restart(w)
    /\ Fault
    /\ UNCHANGED thinking

(* SIGTERM.  app.close stops the poll timer, and nobody waits for the call *)
(* in progress: it goes on until the process exits.                        *)
Stop(w) ==
    /\ ~stopping[w]
    /\ stopping' = [stopping EXCEPT ![w] = TRUE]
    /\ Fault
    /\ UNCHANGED <<queueVars, processing, pc, callbackVars, fileVars, configVars>>

Exit(w) ==
    /\ stopping[w]
    /\ Restart(w)
    /\ UNCHANGED <<thinking, faults>>

-----------------------------------------------------------------------------
(* The thinking timers                                                     *)

ThinkingTick(w, j) ==
    /\ j \in timers[w]
    /\ thinking' = thinking \cup {<<w, j>>}
    /\ UNCHANGED <<queueVars, processVars, pc, timers, answers, fileVars, configVars, faults>>

ThinkingArrives(w, j) ==
    /\ <<w, j>> \in thinking
    /\ thinking' = thinking \ {<<w, j>>}
    /\ UNCHANGED <<queueVars, processVars, pc, timers, answers, fileVars, configVars, faults>>

(* Nobody handles the rejection of sendThinking: Node ends the process.    *)
ThinkingRejected(w, j) ==
    /\ <<w, j>> \in thinking
    /\ thinking' = thinking \ {<<w, j>>}
    /\ Restart(w)
    /\ Fault

-----------------------------------------------------------------------------
(* PUT /config, or the first read of a missing worker.json, writes the     *)
(* file in two steps, between any two steps of a job.  Saves do not        *)
(* overlap: one operator, one page.                                        *)
SaveConfig(w) ==
    /\ saver = "no_worker"
    /\ saves < MaxSaves
    /\ config' = "empty"
    /\ saver' = w
    /\ saves' = saves + 1
    /\ UNCHANGED <<queueVars, processVars, pc, callbackVars, fileVars, faults>>

ConfigSaved ==
    /\ saver # "no_worker"
    /\ config' = "whole"
    /\ saver' = "no_worker"
    /\ UNCHANGED <<queueVars, processVars, pc, callbackVars, fileVars, saves, faults>>

-----------------------------------------------------------------------------
HandleMessage(r) ==
    \/ ReadConfig(r) \/ ReadConfigFails(r)
    \/ ReadConversation(r) \/ ReadConversationFails(r)
    \/ GenerateReply(r) \/ SendResponse(r)
    \/ RereadConversation(r) \/ ReadMemoryWindow(r) \/ RereadFails(r)
    \/ OpenConversation(r) \/ WriteConversation(r) \/ SaveFails(r)

ProcessOnce(r) ==
    \/ ReserveNext(r) \/ ReserveNothing(r)
    \/ HandleMessage(r)
    \/ MarkDone(r) \/ MarkDoneFails(r) \/ MarkFailed(r)
    \/ SyncQueueDepth(r)

Next ==
    \/ \E j \in Jobs : Enqueue(j)
    \/ \E r \in Runs : Tick(r) \/ ProcessOnce(r)
    \/ \E w \in Workers :
          \/ Crash(w) \/ Stop(w) \/ Exit(w) \/ SaveConfig(w)
          \/ \E j \in Jobs :
                ThinkingTick(w, j) \/ ThinkingArrives(w, j) \/ ThinkingRejected(w, j)
    \/ ConfigSaved

Spec == Init /\ [][Next]_vars

(* The timer fires until a SIGTERM, which ends the process, every await    *)
(* settles, and a write that has begun ends.  Requests, saves, thinking    *)
(* ticks and faults owe nothing.                                           *)
Fairness ==
    /\ \A w \in Workers :
          /\ WF_vars(\E r \in Runs : ProcessOf(r) = w /\ Tick(r))
          /\ WF_vars(Exit(w))
    /\ \A r \in Runs : WF_vars(ProcessOnce(r))
    /\ WF_vars(ConfigSaved)

FairSpec == Spec /\ Fairness

-----------------------------------------------------------------------------
(* The processing flag keeps the calls of one process apart: whatever the  *)
(* poll interval, a process handles one job at a time.                     *)
OneJobPerWorker ==
    \A r, s \in Runs :
        r # s /\ ProcessOf(r) = ProcessOf(s) => pc[r] = "off" \/ pc[s] = "off"

(* The conversation memory contains only exchanges whose final callback    *)
(* the gateway has received, and a job leaves the queue as done only       *)
(* after that: a crash or failure at any point between the callback, the   *)
(* save and markDone never turns an unanswered job into a finished one.    *)
DoneAndRememberedAreAnswered ==
    /\ \A j \in Jobs : stage[j] = "done" => answers[j] > 0
    /\ \A c \in Conversations : \A i \in 1..Len(messages[c]) :
          answers[messages[c][i].job] > 0

(* Two calls never work on one conversation file: docker-compose.yaml runs *)
(* one process, several would have to be given chats of their own.         *)
FilesUnshared ==
    \/ \A v, w \in Workers : v = w
    \/ \A i, j \in Jobs : ConversationOf[i] = ConversationOf[j] => i = j

(* With FilesUnshared.  A further final callback for one job takes a       *)
(* further failure, or a save of the configuration under appendExchange:   *)
(* each attempt answers once, and nothing else makes a job that was        *)
(* answered run again.                                                     *)
RepeatsHaveCause == \A j \in Jobs : answers[j] <= 1 + faults + saves

(* With FilesUnshared.  A save extends what is in the file at that moment, *)
(* not what was in it when the call read it: no exchange is lost before    *)
(* the window drops it.                                                    *)
SavesExtendFile ==
    [][\A c \in Conversations :
          messages'[c] # messages[c] =>
              \E j \in Jobs : messages'[c] = WithExchange(messages[c], j)]_vars

(* Every queued job ends: it is done, or it is lost by a drop or a crash.  *)
(* It is not retried for ever, and no call gets stuck with it, as long as  *)
(* the failures end.                                                       *)
QueuedSettles ==
    \A j \in Jobs : stage[j] = "queued" ~> stage[j] \in {"done", "dropped", "crashed"}

-----------------------------------------------------------------------------
(* What the worker does to the queue is what JobLifecycle allows, and what *)
(* ChatSystem takes it to do.                                              *)
StatusOf(j) == IF stage[j] \in {"dropped", "crashed"} THEN "lost" ELSE stage[j]

HolderOf(j) ==
    IF \E r \in Runs : job[r] = j
    THEN ProcessOf(CHOOSE r \in Runs : job[r] = j)
    ELSE "no_worker"

Lifecycle == INSTANCE JobLifecycle WITH
    status <- [j \in Jobs |-> StatusOf(j)],
    holder <- [j \in Jobs |-> HolderOf(j)]

(* Between overlapping ticks, failures of any call, crashes and SIGTERM a  *)
(* worker takes queued jobs only, one at a time, gives each up once, done, *)
(* queued again or lost, and never touches it afterwards.                  *)
ImplementsLifecycle == Lifecycle!Spec

-----------------------------------------------------------------------------
(* docs/services/assistant-worker.md: "One queued job should produce one   *)
(* final callback answer in V1."  Not none, when no call has failed:       *)
QueuedIsAnswered == \A j \in Jobs : stage[j] = "queued" ~> answers[j] > 0

(* docs/services/assistant-worker.md: "While the LLM request is still      *)
(* running, send thinking callbacks every configured N seconds."  A timer  *)
(* runs for no job but one its process is working on before the reply.     *)
ThinkingWhileWorking ==
    \A w \in Workers : \A j \in timers[w] :
        \E r \in Runs : /\ ProcessOf(r) = w /\ job[r] = j
                        /\ pc[r] \in {"readingConversation", "generating"}

(* docs/services/assistant-worker.md, Conversation Update Flow: "append    *)
(* the new user message and assistant reply to messages", for each job     *)
(* that is done, and docs/operations/scaling.md: "assistant-worker may run *)
(* in more than one instance".  It is there until the file is full.        *)
Remembered(j) ==
    LET s == messages[ConversationOf[j]] IN
    Len(s) = MemoryWindow \/ \E i \in 1..Len(s) : s[i].job = j

DoneIsRemembered == \A j \in Jobs : stage[j] = "done" => Remembered(j)
=============================================================================
