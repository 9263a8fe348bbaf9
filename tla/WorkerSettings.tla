---------------------------- MODULE WorkerSettings --------------------------
(***************************************************************************)
(* What one worker process reads and writes to answer the jobs of a chat:  *)
(* worker.json, which a job reads four times (thinking interval, provider, *)
(* model, memory window) while the settings page saves it in between; the  *)
(* request the LLM provider gets; and the conversation memory.             *)
(*                                                                         *)
(* AssistantWorker models the queue, the callbacks and the torn files of   *)
(* the same handler; here its jobs run one after the other, and a file is  *)
(* damaged by a write that fails, or by saves that overlap.                *)
(***************************************************************************)
EXTENDS WorkerConfig, Sequences

CONSTANTS Bodies,       \* what PUT /config may submit, and an operator edit
          Saves,        \* PUT /config handlers
          Views,        \* GET /provider-status handlers
          MaxAttempts,  \* bound: attempts of the worker at a job
          Worker        \* the call of handleMessage

Handlers == Saves \cup Views \cup {Worker}

ASSUME SettingsAssumption ==
    /\ \A b \in Bodies : b.memory_window \in Int \cup {NotGiven}
    /\ \A b \in Bodies : b.thinking_interval_seconds \in Int \cup {NotGiven}
    /\ Saves \cap Views = {} /\ Worker \notin Saves \cup Views
    /\ MaxAttempts \in Nat

-----------------------------------------------------------------------------
VARIABLES file,      \* "missing", "empty", "damaged" or "whole"
          config,    \* what worker.json holds when it is whole
          pc,        \* pc[h]: the await handler h is suspended in
          want,      \* want[h]: the configuration h is writing
          attempts,  \* attempts begun
          prompt,    \* the conversation the attempt has read
          request,   \* the provider and the model of the attempt's request
          status,    \* status[v]: the provider and the model view v reports
          window,    \* the memory window the last save used
          reply,     \* the context the LLM returned, "" if blank
          messages,  \* the messages in the conversation file
          context,   \* the context in the conversation file
          torn,      \* the conversation file does not parse any more
          log        \* history: every exchange saved, in order

settingsVars == <<file, config, want, status>>
attemptVars == <<attempts, prompt, request, reply>>
memoryVars == <<window, messages, context, torn, log>>
vars == <<settingsVars, pc, attemptVars, memoryVars>>

Contexts == {"", "topic", "person"}
Models ==
    (UNION {StaticModels[p] : p \in Providers})
        \cup {b.model : b \in Bodies} \cup {EnvModel[p] : p \in Providers}
Awaits == {"new", "opening", "writing", "checking", "ok", "error",
           "idle", "config", "conversation", "provider", "model", "loading",
           "rendering", "generating", "responding", "saving"}
Message == [attempt : 1..MaxAttempts, role : {"user", "assistant"}]

(* Nothing has been read yet (any provider would do).                      *)
NoRequest == [provider |-> "xai", model |-> "grok-4"]

Init ==
    /\ \/ file = "missing" /\ config = DefaultConfig
       \/ file = "whole" /\ config \in Bodies
    /\ pc = [h \in Handlers |-> IF h = Worker THEN "idle" ELSE "new"]
    /\ want = [h \in Handlers |-> DefaultConfig]
    /\ attempts = 0
    /\ prompt = [messages |-> <<>>, context |-> ""]
    /\ request = NoRequest
    /\ status = [v \in Views |-> NoRequest]
    /\ window = 3
    /\ reply = ""
    /\ messages = <<>>
    /\ context = ""
    /\ torn = FALSE
    /\ log = <<>>

Goto(h, await) == pc' = [pc EXCEPT ![h] = await]

-----------------------------------------------------------------------------
(* AssistantWorkerConfigService: the file                                  *)

(* What read() makes of the content of worker.json.                        *)
Settings == Normalize(config)

(* Mutant of ModelName: the model is taken as it is saved.                 *)
ModelNameAsSaved(p) == Settings.model

(* The model a service of provider p names: of another provider's settings *)
(* only the environment is left.                                           *)
ModelName(p) == IF Settings.provider = p THEN Settings.model ELSE EnvModel[p]

(* updateConfig fills in what the body leaves out and calls write.         *)
UpdateConfig(h, b) ==
    /\ pc[h] = "new"
    /\ want' = [want EXCEPT ![h] = Normalize(b)]
    /\ Goto(h, "opening")
    /\ UNCHANGED <<file, config, status, attemptVars, memoryVars>>

(* ENOENT: read() writes the default configuration.                        *)
CreateDefault(h) ==
    /\ file = "missing"
    /\ want' = [want EXCEPT ![h] = DefaultConfig]
    /\ Goto(h, "opening")
    /\ UNCHANGED <<file, config, status, attemptVars, memoryVars>>

(* getStatus picks the status service of a provider, or the settings do    *)
(* not parse.                                                              *)
View(h) ==
    /\ pc[h] = "new"
    /\ \/ CreateDefault(h)
       \/ /\ file = "whole"
          /\ status' = [status EXCEPT ![h].provider = Settings.provider]
          /\ Goto(h, "checking")
          /\ UNCHANGED <<file, config, want, attemptVars, memoryVars>>
       \/ /\ file \in {"empty", "damaged"}
          /\ Goto(h, "error")
          /\ UNCHANGED <<settingsVars, attemptVars, memoryVars>>

(* The picked service reads the settings again to report on their model,   *)
(* or on the one of the environment if they name another provider by now.  *)
CheckStatus(h) ==
    /\ pc[h] = "checking"
    /\ IF file = "whole"
       THEN /\ status' = [status EXCEPT ![h].model = ModelName(status[h].provider)]
            /\ Goto(h, "ok")
       ELSE Goto(h, "error") /\ UNCHANGED status
    /\ UNCHANGED <<file, config, want, attemptVars, memoryVars>>

(* writeFile opens and truncates ...                                       *)
OpenConfig(h) ==
    /\ pc[h] = "opening"
    /\ file' = "empty"
    /\ Goto(h, "writing")
    /\ UNCHANGED <<config, want, status, attemptVars, memoryVars>>

(* ... and writes from the start: the tail of a longer text another        *)
(* handler has written since stays behind it.  The worker and a view go on *)
(* with the defaults they have written, a save answers.                    *)
WriteConfig(h) ==
    /\ pc[h] = "writing"
    /\ config' = want[h]
    /\ file' \in IF file = "empty" THEN {"whole"} ELSE {"whole", "damaged"}
    /\ Goto(h, IF h = Worker THEN "conversation" ELSE IF h \in Views THEN "checking" ELSE "ok")
    /\ UNCHANGED <<want, status, attemptVars, memoryVars>>

(* mkdir, open or write fails: the last behind the truncation, and perhaps *)
(* with a part of the text written.                                        *)
WriteConfigFails(h) ==
    /\ pc[h] \in {"opening", "writing"}
    /\ file' \in {file} \cup (IF pc[h] = "writing" THEN {"damaged"} ELSE {})
    /\ Goto(h, IF h = Worker THEN "idle" ELSE "error")
    /\ UNCHANGED <<config, want, status, attemptVars, memoryVars>>

-----------------------------------------------------------------------------
(* handleMessage, one attempt at a job after the other                     *)

(* An error ends the attempt; the queue decides whether there is another.  *)
Fail == Goto(Worker, "idle")

BeginAttempt ==
    /\ pc[Worker] = "idle"
    /\ attempts < MaxAttempts
    /\ attempts' = attempts + 1
    /\ request' = NoRequest
    /\ reply' = ""
    /\ Goto(Worker, "config")
    /\ UNCHANGED <<settingsVars, prompt, memoryVars>>

(* The first read, for the thinking interval.  No later one of an attempt  *)
(* can find the file missing: nobody removes it.                           *)
ReadInterval ==
    /\ pc[Worker] = "config"
    /\ \/ CreateDefault(Worker)
       \/ /\ file # "missing"
          /\ IF file = "whole" THEN Goto(Worker, "conversation") ELSE Fail
          /\ UNCHANGED <<settingsVars, attemptVars, memoryVars>>

(* Mutant of LastMessages: one message too many.                           *)
OneMoreMessage(s, n) == SubSeq(s, IF Len(s) > n THEN Len(s) - n ELSE 1, Len(s))

(* slice(-n); a window of 0 would keep everything.                         *)
LastMessages(s, n) ==
    SubSeq(s, IF n # 0 /\ Len(s) > n THEN Len(s) - n + 1 ELSE 1, Len(s))

(* Mutant of ReadConversation: what an earlier attempt has read is reused. *)
ReadConversationOnce ==
    /\ pc[Worker] = "conversation"
    /\ IF torn
       THEN Fail /\ UNCHANGED prompt
       ELSE /\ prompt' = IF prompt.messages = <<>>
                         THEN [messages |-> LastMessages(messages, 20), context |-> context]
                         ELSE prompt
            /\ Goto(Worker, "provider")
    /\ UNCHANGED <<settingsVars, attempts, request, reply, memoryVars>>

(* conversationService.read: normalizeState keeps at most 20 messages, and *)
(* what a failed write has left does not parse.                            *)
ReadConversation ==
    /\ pc[Worker] = "conversation"
    /\ IF torn
       THEN Fail /\ UNCHANGED prompt
       ELSE /\ prompt' = [messages |-> LastMessages(messages, 20), context |-> context]
            /\ Goto(Worker, "provider")
    /\ UNCHANGED <<settingsVars, attempts, request, reply, memoryVars>>

(* generateReply of the provider service picks the API.                    *)
SelectProvider ==
    /\ pc[Worker] = "provider"
    /\ IF file = "whole"
       THEN /\ request' = [request EXCEPT !.provider = Settings.provider]
            /\ Goto(Worker, "model")
       ELSE Fail /\ UNCHANGED request
    /\ UNCHANGED <<settingsVars, attempts, prompt, reply, memoryVars>>

(* xAI and DeepSeek give up without an API key; the picked service reads   *)
(* the settings once more.                                                 *)
SelectModel ==
    /\ pc[Worker] = "model"
    /\ \/ Fail /\ UNCHANGED request
       \/ /\ file = "whole"
          /\ request' = [request EXCEPT !.model = ModelName(request.provider)]
          /\ Goto(Worker, "loading")
    /\ UNCHANGED <<settingsVars, attempts, prompt, reply, memoryVars>>

(* Runtime files and memory directory: missing ones are left out, others   *)
(* may be unreadable.                                                      *)
LoadRuntime ==
    /\ pc[Worker] = "loading"
    /\ Fail \/ Goto(Worker, "rendering")
    /\ UNCHANGED <<settingsVars, attemptVars, memoryVars>>

(* The prompt template is read, and the runtime files are parsed as JSON.  *)
RenderPrompt ==
    /\ pc[Worker] = "rendering"
    /\ Fail \/ Goto(Worker, "generating")
    /\ UNCHANGED <<settingsVars, attemptVars, memoryVars>>

(* What a model may write: no JSON object at all, or one whose fields are  *)
(* not strings, blank, or of use.                                          *)
Texts ==
    {NotGiven} \cup [message : {NotGiven, " ", "hello"},
                    context : Contexts \cup {NotGiven, " "}]

Trim(s) == IF s = " " THEN "" ELSE s

(* parseAssistantLlmResult takes the text for a reply.                     *)
IsReply(text) ==
    /\ text # NotGiven
    /\ text.message # NotGiven /\ text.context # NotGiven
    /\ Trim(text.message) # ""

(* The provider answers in time and with a text that is a reply, or the    *)
(* attempt fails.                                                          *)
Generate ==
    /\ pc[Worker] = "generating"
    /\ \/ Fail /\ UNCHANGED reply
       \/ \E text \in Texts :
             /\ IsReply(text)
             /\ reply' = Trim(text.context)
             /\ Goto(Worker, "responding")
    /\ UNCHANGED <<settingsVars, attempts, prompt, request, memoryVars>>

SendResponse ==
    /\ pc[Worker] = "responding"
    /\ Fail \/ Goto(Worker, "saving")
    /\ UNCHANGED <<settingsVars, attemptVars, memoryVars>>

Exchange ==
    <<[attempt |-> attempts, role |-> "user"], [attempt |-> attempts, role |-> "assistant"]>>

(* reply.context.trim() || currentState.context                            *)
NextContext == IF reply = "" THEN context ELSE reply

(* appendExchange: it reads the conversation, then the window from the     *)
(* settings, and writes.  Nobody else of this process touches the          *)
(* conversation, so that the three are one step.                           *)
SaveExchange ==
    /\ pc[Worker] = "saving"
    /\ file = "whole"
    /\ window' = Settings.memory_window
    /\ messages' = LastMessages(LastMessages(messages, 20) \o Exchange, window')
    /\ context' = NextContext
    /\ log' = log \o Exchange
    /\ Fail
    /\ UNCHANGED <<settingsVars, torn, attemptVars>>

(* The settings do not parse, or a call of the filesystem fails, writeFile *)
(* perhaps when the file is truncated already.                             *)
SaveFails ==
    /\ pc[Worker] = "saving"
    /\ Fail
    /\ torn' \in {torn, TRUE}
    /\ UNCHANGED <<settingsVars, attemptVars, window, messages, context, log>>

HandleMessage ==
    \/ BeginAttempt \/ ReadInterval \/ ReadConversation
    \/ SelectProvider \/ SelectModel \/ LoadRuntime \/ RenderPrompt \/ Generate
    \/ SendResponse \/ SaveExchange \/ SaveFails

Next ==
    \/ \E h \in Saves, b \in Bodies : UpdateConfig(h, b)
    \/ \E h \in Views : View(h) \/ CheckStatus(h)
    \/ \E h \in Handlers : OpenConfig(h) \/ WriteConfig(h) \/ WriteConfigFails(h)
    \/ HandleMessage

Spec == Init /\ [][Next]_vars

-----------------------------------------------------------------------------
(* The type invariant: whatever an operator or a request puts into         *)
(* worker.json, what is written and what a job works with is in range.     *)
TypeOK ==
    /\ file \in {"missing", "empty", "damaged", "whole"}
    /\ IsNormal(Settings)
    /\ pc \in [Handlers -> Awaits]
    /\ \A h \in Handlers : IsNormal(want[h])
    /\ attempts \in 0..MaxAttempts
    /\ prompt.messages \in Seq(Message) /\ prompt.context \in Contexts
    /\ request \in [provider : Providers, model : Models]
    /\ status \in [Views -> [provider : Providers, model : Models]]
    /\ window \in 1..20
    /\ reply \in Contexts /\ context \in Contexts /\ torn \in BOOLEAN
    /\ messages \in Seq(Message) /\ log \in Seq(Message)

(* The API of a provider is never asked for a model of another one, and    *)
(* the status page names none, though the provider and the model come from *)
(* two reads of worker.json, and the settings page may save another        *)
(* provider between them.                                                  *)
RequestFitsProvider ==
    /\ pc[Worker] \in {"loading", "rendering", "generating", "responding", "saving"} =>
          FitsProvider(request.provider, request.model)
    /\ \A v \in Views :
          pc[v] = "ok" => FitsProvider(status[v].provider, status[v].model)

(* The memory is the end of all that was ever exchanged, in order, no      *)
(* longer than the window of the last save, and ends with the last         *)
(* exchange as far as the window holds it: failed attempts leave no trace, *)
(* and a window that shrinks and grows again leaves no gap.                *)
MemoryIsRecent ==
    /\ Len(messages) <= window
    /\ messages = SubSeq(log, Len(log) - Len(messages) + 1, Len(log))
    /\ log # <<>> => Len(messages) >= (IF window = 1 THEN 1 ELSE 2)

(* The prompt of an attempt shows the memory the last saved exchange left, *)
(* until the attempt saves its own: a retry never works with the prompt of *)
(* the attempt before it.                                                  *)
PromptIsCurrent ==
    pc[Worker] \in {"provider", "model", "loading", "rendering",
                    "generating", "responding", "saving"} =>
        prompt.messages = messages /\ prompt.context = context
=============================================================================
