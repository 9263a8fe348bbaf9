------------------------ MODULE WorkerSettingsProofs ------------------------
(***************************************************************************)
(* Whatever is saved in worker.json, and whenever, a job works with        *)
(* settings in range, asks each provider for a model of its own, and keeps *)
(* the end of the conversation in its memory.                              *)
(***************************************************************************)
EXTENDS WorkerSettings, SequenceTheorems, TLAPS

(* What the handlers write.                                                *)
Written == {Normalize(b) : b \in Bodies} \cup {DefaultConfig}

(* The part of the state the settings go through.                          *)
SettingsInv ==
    /\ config \in Bodies \cup Written
    /\ pc \in [Handlers -> Awaits]
    /\ want \in [Handlers -> Written]
    /\ request \in [provider : Providers, model : Models]
    /\ status \in [Views -> [provider : Providers, model : Models]]
    /\ RequestFitsProvider

(* Every static model list starts with its default.                        *)
LEMMA DefaultsFit ==
    ASSUME NEW p \in Providers
    PROVE  DefaultModelForProvider[p] \in StaticModels[p]
  BY DEF Providers, DefaultModelForProvider, StaticModels

(* A model is normalised to one that fits its provider.                    *)
LEMMA ModelFits ==
    ASSUME NEW p \in Providers, NEW m
    PROVE  /\ FitsProvider(p, NormalizeModel(p, m))
           /\ NormalizeModel(p, m) # NotGiven
           /\ NormalizeModel(p, m) \in StaticModels[p] \cup {m}
  <1>1. NotGiven \notin StaticModels[p]
    BY ConfigAssumption
  <1> QED BY <1>1, DefaultsFit DEF NormalizeModel, FitsProvider

(* Numbers are normalised into their range.                                *)
LEMMA NumbersInRange ==
    ASSUME NEW n \in Int \cup {NotGiven}
    PROVE  NormalizeMemoryWindow(n) \in 1..20 /\ NormalizeInterval(n) \in 1..30
  BY ConfigAssumption DEF NormalizeMemoryWindow, NormalizeInterval, Clamp

(* What write() writes and what read() returns is normal.                  *)
LEMMA NormalizeIsNormal ==
    ASSUME NEW b, b.memory_window \in Int \cup {NotGiven},
           b.thinking_interval_seconds \in Int \cup {NotGiven}
    PROVE  IsNormal(Normalize(b))
  <1> DEFINE p == NormalizeProvider(b.provider)
  <1>1. p \in Providers
    BY DEF NormalizeProvider, Providers
  <1> HIDE DEF p
  <1>2. /\ FitsProvider(p, NormalizeModel(p, b.model))
        /\ NormalizeModel(p, b.model) # NotGiven
    BY <1>1, ModelFits
  <1>3. /\ Normalize(b).provider = p
        /\ Normalize(b).model = NormalizeModel(p, b.model)
        /\ Normalize(b).memory_window = NormalizeMemoryWindow(b.memory_window)
        /\ Normalize(b).thinking_interval_seconds = NormalizeInterval(b.thinking_interval_seconds)
    BY DEF Normalize, p
  <1> QED BY <1>1, <1>2, <1>3, NumbersInRange DEF IsNormal

(* What is written is read back as it is.                                  *)
LEMMA NormalizeIsIdempotent ==
    ASSUME NEW c \in [provider : Providers, model : Models,
                      memory_window : Int, thinking_interval_seconds : Int],
           IsNormal(c)
    PROVE  Normalize(c) = c
  <1>1. NormalizeProvider(c.provider) = c.provider
    BY DEF NormalizeProvider, IsNormal
  <1>2. NormalizeModel(c.provider, c.model) = c.model
    BY DEF NormalizeModel, IsNormal, FitsProvider
  <1>3. /\ NormalizeMemoryWindow(c.memory_window) = c.memory_window
        /\ NormalizeInterval(c.thinking_interval_seconds) = c.thinking_interval_seconds
    BY ConfigAssumption DEF NormalizeMemoryWindow, NormalizeInterval, Clamp, IsNormal
  <1> QED BY <1>1, <1>2, <1>3 DEF Normalize

(* So a job finds normal settings in every file, edited by hand or not.    *)
LEMMA WrittenIsNormal ==
    ASSUME NEW c \in Written
    PROVE  IsNormal(c) /\ Normalize(c) = c /\ c.model \in Models
  <1>1. CASE c = DefaultConfig
    <2>1. /\ c.provider = "xai" /\ c.model = "grok-4"
          /\ c.memory_window = 3 /\ c.thinking_interval_seconds = 2
          /\ "grok-4" \in StaticModels["xai"] /\ "xai" \in Providers
      BY <1>1 DEF DefaultConfig, StaticModels, Providers
    <2>2. IsNormal(c)
      BY <2>1, ConfigAssumption DEF IsNormal, FitsProvider
    <2>3. c.model \in Models
      BY <2>1 DEF Models
    <2>4. c \in [provider : Providers, model : Models,
                 memory_window : Int, thinking_interval_seconds : Int]
      BY <1>1, <2>1, <2>3 DEF DefaultConfig
    <2> QED BY <2>2, <2>3, <2>4, NormalizeIsIdempotent
  <1>2. ASSUME NEW b \in Bodies, c = Normalize(b)
        PROVE  IsNormal(c) /\ Normalize(c) = c /\ c.model \in Models
    <2>1. IsNormal(c)
      BY <1>2, NormalizeIsNormal, SettingsAssumption
    <2>2. c.provider \in Providers /\ c.memory_window \in Int
          /\ c.thinking_interval_seconds \in Int
      BY <2>1 DEF IsNormal
    <2>3. c.model \in Models
      <3>1. c.model = NormalizeModel(c.provider, b.model)
        BY <1>2 DEF Normalize
      <3>2. c.model \in StaticModels[c.provider] \cup {b.model}
        BY <2>2, <3>1, ModelFits
      <3> QED BY <2>2, <3>2 DEF Models
    <2>4. c \in [provider : Providers, model : Models,
                 memory_window : Int, thinking_interval_seconds : Int]
      BY <1>2, <2>2, <2>3 DEF Normalize
    <2> QED BY <2>1, <2>3, <2>4, NormalizeIsIdempotent
  <1> QED BY <1>1, <1>2 DEF Written

LEMMA SettingsAreNormal ==
    ASSUME config \in Bodies \cup Written
    PROVE  IsNormal(Settings) /\ Settings.model \in Models
  <1>1. CASE config \in Written
    BY <1>1, WrittenIsNormal DEF Settings
  <1>2. CASE config \in Bodies
    <2>1. Normalize(config) \in Written
      BY <1>2 DEF Written
    <2> QED BY <2>1, WrittenIsNormal DEF Settings
  <1> QED BY <1>1, <1>2

(* Whatever the second read finds, the model fits the provider of the      *)
(* first.                                                                  *)
LEMMA NameFits ==
    ASSUME config \in Bodies \cup Written, NEW p \in Providers
    PROVE  ModelName(p) \in Models /\ FitsProvider(p, ModelName(p))
  <1>1. /\ Settings.model \in Models
        /\ FitsProvider(Settings.provider, Settings.model)
    BY SettingsAreNormal DEF IsNormal
  <1>2. EnvModel[p] \in Models /\ FitsProvider(p, EnvModel[p])
    BY ConfigAssumption DEF Models
  <1> QED BY <1>1, <1>2 DEF ModelName

LEMMA NoRequestIsTyped == NoRequest \in [provider : Providers, model : Models]
  <1>1. "xai" \in Providers /\ "grok-4" \in StaticModels["xai"]
    BY DEF Providers, StaticModels
  <1>2. "grok-4" \in Models
    BY <1>1 DEF Models
  <1> QED BY <1>1, <1>2 DEF NoRequest

(* The two reads of a view report a provider with a model of its own.      *)
LEMMA ViewStep ==
    ASSUME SettingsInv, NEW v \in Views, View(v) \/ CheckStatus(v)
    PROVE  SettingsInv'
  <1> USE SettingsAssumption DEF SettingsInv, RequestFitsProvider, Goto, Awaits
  <1>1. /\ v \in Handlers /\ Worker \in Handlers /\ v # Worker
        /\ Views \subseteq Handlers
    BY DEF Handlers
  <1>2. CASE View(v)
    <2>1. CASE CreateDefault(v)
      BY <1>1, <2>1 DEF CreateDefault, Written, attemptVars
    <2>2. CASE /\ status' = [status EXCEPT ![v].provider = Settings.provider]
               /\ Goto(v, "checking")
               /\ UNCHANGED <<file, config, want, attemptVars, memoryVars>>
      <3>1. Settings.provider \in Providers
        BY SettingsAreNormal DEF IsNormal
      <3>2. status' \in [Views -> [provider : Providers, model : Models]]
        BY <2>2, <3>1
      <3>3. \A u \in Views : pc'[u] = "ok" => status'[u] = status[u] /\ pc[u] = "ok"
        BY <1>1, <2>2
      <3> QED BY <1>1, <2>2, <3>2, <3>3 DEF attemptVars
    <2>3. CASE Goto(v, "error") /\ UNCHANGED <<settingsVars, attemptVars, memoryVars>>
      BY <1>1, <2>3 DEF settingsVars, attemptVars
    <2> QED BY <1>2, <2>1, <2>2, <2>3 DEF View
  <1>3. CASE CheckStatus(v)
    <2>1. CASE /\ status' = [status EXCEPT ![v].model = ModelName(status[v].provider)]
               /\ Goto(v, "ok")
      <3> DEFINE m == ModelName(status[v].provider)
      <3>1. status[v].provider \in Providers
        OBVIOUS
      <3>2. m \in Models /\ FitsProvider(status[v].provider, m)
        BY <3>1, NameFits
      <3>3. status' = [status EXCEPT ![v].model = m]
        BY <2>1
      <3> HIDE DEF m
      <3>4. /\ status' \in [Views -> [provider : Providers, model : Models]]
            /\ status'[v].provider = status[v].provider /\ status'[v].model = m
            /\ \A u \in Views \ {v} : status'[u] = status[u]
        BY <3>2, <3>3
      <3>5. \A u \in Views :
               pc'[u] = "ok" => FitsProvider(status'[u].provider, status'[u].model)
        BY <1>1, <2>1, <3>2, <3>4
      <3> QED BY <1>1, <1>3, <2>1, <3>4, <3>5 DEF CheckStatus, attemptVars
    <2>2. CASE Goto(v, "error") /\ UNCHANGED status
      BY <1>1, <1>3, <2>2 DEF CheckStatus, attemptVars
    <2> QED BY <1>3, <2>1, <2>2 DEF CheckStatus
  <1> QED BY <1>2, <1>3

(* The steps of the settings file touch no request and no report.          *)
LEMMA FileStep ==
    ASSUME SettingsInv, NEW h \in Handlers,
           \/ \E b \in Bodies : h \in Saves /\ UpdateConfig(h, b)
           \/ OpenConfig(h) \/ WriteConfig(h) \/ WriteConfigFails(h)
    PROVE  SettingsInv'
  <1> USE SettingsAssumption DEF SettingsInv, RequestFitsProvider, Goto, Awaits
  <1>1. ASSUME NEW b \in Bodies, h \in Saves, UpdateConfig(h, b) PROVE SettingsInv'
    BY <1>1 DEF UpdateConfig, Written, attemptVars, Handlers
  <1>2. CASE OpenConfig(h)
    BY <1>2 DEF OpenConfig, attemptVars, Handlers
  <1>3. CASE WriteConfig(h)
    BY <1>3 DEF WriteConfig, attemptVars, Handlers
  <1>4. CASE WriteConfigFails(h)
    BY <1>4 DEF WriteConfigFails, attemptVars, Handlers
  <1> QED BY <1>1, <1>2, <1>3, <1>4

(* The model the worker names is one of the provider it asks.              *)
LEMMA SelectStep ==
    ASSUME SettingsInv, SelectProvider \/ SelectModel
    PROVE  SettingsInv'
  <1> USE DEF SettingsInv, RequestFitsProvider, Goto, Awaits, Fail, settingsVars
  <1>1. /\ Settings.provider \in Providers /\ Settings.model \in Models
        /\ FitsProvider(Settings.provider, Settings.model)
    BY SettingsAreNormal DEF IsNormal
  <1>2. Worker \in Handlers
    BY DEF Handlers
  <1>3. Worker \notin Views /\ Views \subseteq Handlers
    BY SettingsAssumption DEF Handlers
  <1>4. CASE SelectProvider
    BY <1>1, <1>2, <1>4, <1>3 DEF SelectProvider
  <1>5. CASE SelectModel
    <2> DEFINE m == ModelName(request.provider)
    <2>1. m \in Models /\ FitsProvider(request.provider, m)
      BY NameFits
    <2>2. \/ request' = request /\ pc' = [pc EXCEPT ![Worker] = "idle"]
          \/ /\ request' = [request EXCEPT !.model = m]
             /\ pc' = [pc EXCEPT ![Worker] = "loading"]
      BY <1>5 DEF SelectModel
    <2>3. config' = config /\ want' = want /\ status' = status
      BY <1>5 DEF SelectModel
    <2> HIDE DEF m
    <2> QED BY <1>2, <1>3, <2>1, <2>2, <2>3
  <1> QED BY <1>4, <1>5

(* The other steps of an attempt leave settings and request as they are.   *)
LEMMA AttemptStep ==
    ASSUME SettingsInv,
           \/ BeginAttempt \/ ReadInterval \/ ReadConversation
           \/ LoadRuntime \/ RenderPrompt \/ Generate \/ SendResponse \/ SaveExchange \/ SaveFails
    PROVE  SettingsInv'
  <1> USE DEF SettingsInv, RequestFitsProvider, Goto, Awaits, Fail, settingsVars, attemptVars
  <1>1. Worker \in Handlers /\ Worker \notin Views /\ Views \subseteq Handlers
    BY SettingsAssumption DEF Handlers
  <1>2. CASE BeginAttempt
    BY <1>1, <1>2, NoRequestIsTyped DEF BeginAttempt
  <1>3. CASE ReadConversation \/ LoadRuntime \/ RenderPrompt \/ Generate
    BY <1>1, <1>3 DEF ReadConversation, LoadRuntime, RenderPrompt, Generate
  <1>4. CASE ReadInterval
    BY <1>1, <1>4 DEF ReadInterval, CreateDefault, Written
  <1>5. CASE SendResponse \/ SaveExchange \/ SaveFails
    BY <1>1, <1>5 DEF SendResponse, SaveExchange, SaveFails
  <1> QED BY <1>2, <1>4, <1>5, <1>3

(* RequestFitsProvider needs of the state only what SettingsInv says.      *)
LEMMA SettingsInit == Init => SettingsInv
  <1> SUFFICES ASSUME Init PROVE SettingsInv
    OBVIOUS
  <1>1. /\ request \in [provider : Providers, model : Models]
        /\ status \in [Views -> [provider : Providers, model : Models]]
    BY NoRequestIsTyped DEF Init
  <1>2. pc \in [Handlers -> Awaits] /\ pc[Worker] = "idle"
    BY DEF Init, Awaits, Handlers
  <1>3. \A v \in Views : pc[v] = "new"
    BY SettingsAssumption DEF Init, Handlers
  <1> QED BY <1>1, <1>2, <1>3 DEF Init, SettingsInv, Written, RequestFitsProvider

LEMMA SettingsStep == SettingsInv /\ [Next]_vars => SettingsInv'
  <1> SUFFICES ASSUME SettingsInv, [Next]_vars PROVE SettingsInv'
    OBVIOUS
  <1>1. ASSUME NEW h \in Saves, NEW b \in Bodies, UpdateConfig(h, b) PROVE SettingsInv'
    BY <1>1, FileStep DEF Handlers
  <1>2. ASSUME NEW h \in Views, View(h) \/ CheckStatus(h) PROVE SettingsInv'
    BY <1>2, ViewStep
  <1>3. ASSUME NEW h \in Handlers, OpenConfig(h) \/ WriteConfig(h) \/ WriteConfigFails(h)
        PROVE  SettingsInv'
    BY <1>3, FileStep
  <1>4. CASE HandleMessage
    BY <1>4, SelectStep, AttemptStep DEF HandleMessage
  <1>5. CASE UNCHANGED vars
    BY <1>5 DEF vars, settingsVars, attemptVars, SettingsInv, RequestFitsProvider
  <1> QED BY <1>1, <1>2, <1>3, <1>4, <1>5 DEF Next

(* For every content of worker.json and every order of saves, page views   *)
(* and attempts, a provider is asked for, and reported with, a model of    *)
(* its own: RequestFitsProvider.                                           *)
THEOREM RequestsFit == Spec => []RequestFitsProvider
  <1>1. SettingsInv => RequestFitsProvider
    BY DEF SettingsInv
  <1> QED BY <1>1, SettingsInit, SettingsStep, PTL DEF Spec

-----------------------------------------------------------------------------
(* s is the end of l.                                                      *)
EndOf(s, l) ==
    /\ Len(s) <= Len(l)
    /\ \A i \in 1..Len(s) : s[i] = l[Len(l) - Len(s) + i]

(* The memory of the conversation, and what the attempt knows of it.       *)
MemoryInv ==
    /\ file \in {"missing", "empty", "damaged", "whole"}
    /\ attempts \in 0..MaxAttempts
    /\ prompt.messages \in Seq(Message) /\ prompt.context \in Contexts
    /\ window \in 1..20
    /\ reply \in Contexts /\ context \in Contexts /\ torn \in BOOLEAN
    /\ messages \in Seq(Message) /\ log \in Seq(Message)
    /\ pc[Worker] # "idle" => attempts >= 1
    /\ Len(messages) <= window
    /\ EndOf(messages, log)
    /\ log # <<>> => Len(messages) >= (IF window = 1 THEN 1 ELSE 2)
    /\ PromptIsCurrent

Prompted == {"provider", "model", "loading", "rendering", "generating", "responding", "saving"}

(* What slice(-n) keeps.                                                   *)
LEMMA LastMessagesFacts ==
    ASSUME NEW s \in Seq(Message), NEW n \in Nat \ {0}
    PROVE  /\ LastMessages(s, n) \in Seq(Message)
           /\ Len(LastMessages(s, n)) = IF Len(s) > n THEN n ELSE Len(s)
           /\ EndOf(LastMessages(s, n), s)
           /\ Len(s) <= n => LastMessages(s, n) = s
  <1> DEFINE m == IF Len(s) > n THEN Len(s) - n + 1 ELSE 1
  <1>1. Len(s) \in Nat /\ m \in 1..Len(s) + 1
    BY LenProperties
  <1>2. LastMessages(s, n) = SubSeq(s, m, Len(s))
    BY DEF LastMessages
  <1>3. Len(s) <= n => m = 1
    OBVIOUS
  <1>4. Len(s) - m + 1 = IF Len(s) > n THEN n ELSE Len(s)
    BY <1>1
  <1> HIDE DEF m
  <1>5. /\ SubSeq(s, m, Len(s)) \in Seq(Message)
        /\ Len(SubSeq(s, m, Len(s))) = IF m <= Len(s) THEN Len(s) - m + 1 ELSE 0
        /\ \A i \in 1..Len(s) - m + 1 : SubSeq(s, m, Len(s))[i] = s[m + i - 1]
    BY <1>1, SubSeqProperties
  <1>6. Len(SubSeq(s, m, Len(s))) = Len(s) - m + 1
    BY <1>1, <1>5
  <1>7. EndOf(SubSeq(s, m, Len(s)), s)
    <2> DEFINE q == SubSeq(s, m, Len(s))
    <2>1. Len(q) = Len(s) - m + 1 /\ Len(q) <= Len(s)
      BY <1>1, <1>6
    <2>2. ASSUME NEW i \in 1..Len(q) PROVE q[i] = s[Len(s) - Len(q) + i]
      <3>1. i \in 1..Len(s) - m + 1 /\ m + i - 1 = Len(s) - Len(q) + i
        BY <1>1, <2>1
      <3>2. q[i] = s[m + i - 1]
        BY <1>5, <3>1
      <3> QED BY <3>1, <3>2
    <2> QED BY <2>1, <2>2 DEF EndOf
  <1>8. Len(s) <= n => SubSeq(s, m, Len(s)) = s
    BY <1>3, SubSeqFull
  <1> QED BY <1>2, <1>4, <1>5, <1>6, <1>7, <1>8

(* The end of the end, with the same appended to both, is the end.         *)
LEMMA EndOfAppended ==
    ASSUME NEW s \in Seq(Message), NEW l \in Seq(Message), NEW e \in Seq(Message),
           NEW t \in Seq(Message), EndOf(s, l), EndOf(t, s \o e)
    PROVE  EndOf(t, l \o e)
  <1>1. /\ Len(s) \in Nat /\ Len(l) \in Nat /\ Len(e) \in Nat /\ Len(t) \in Nat
        /\ Len(s) <= Len(l) /\ Len(t) <= Len(s) + Len(e)
        /\ Len(s \o e) = Len(s) + Len(e) /\ Len(l \o e) = Len(l) + Len(e)
    BY ConcatProperties, LenProperties DEF EndOf
  <1>2. ASSUME NEW i \in 1..Len(t)
        PROVE  t[i] = (l \o e)[Len(l \o e) - Len(t) + i]
    <2> DEFINE j == Len(s) + Len(e) - Len(t) + i
               k == Len(l) + Len(e) - Len(t) + i
    <2>1. j \in 1..Len(s) + Len(e) /\ k \in 1..Len(l) + Len(e) /\ k = Len(l) - Len(s) + j
      BY <1>1
    <2>2. t[i] = (s \o e)[j]
      BY <1>1 DEF EndOf
    <2>3. (s \o e)[j] = IF j <= Len(s) THEN s[j] ELSE e[j - Len(s)]
      BY <2>1, ConcatProperties
    <2>4. (l \o e)[k] = IF k <= Len(l) THEN l[k] ELSE e[k - Len(l)]
      BY <2>1, ConcatProperties
    <2> HIDE DEF j
    <2>5. CASE j <= Len(s)
      <3>1. s[j] = l[Len(l) - Len(s) + j]
        BY <1>1, <2>1, <2>5 DEF EndOf
      <3> QED BY <1>1, <2>1, <2>2, <2>3, <2>4, <2>5, <3>1
    <2>6. CASE ~(j <= Len(s))
      BY <1>1, <2>1, <2>2, <2>3, <2>4, <2>6
    <2> QED BY <2>5, <2>6
  <1> QED BY <1>1, <1>2 DEF EndOf

(* EndOf, as MemoryIsRecent says it.                                       *)
LEMMA EndIsSubSeq ==
    ASSUME NEW s \in Seq(Message), NEW l \in Seq(Message), EndOf(s, l)
    PROVE  s = SubSeq(l, Len(l) - Len(s) + 1, Len(l))
  <1> DEFINE m == Len(l) - Len(s) + 1
  <1>1. /\ Len(s) \in Nat /\ Len(l) \in Nat /\ Len(s) <= Len(l)
        /\ m \in 1..Len(l) + 1 /\ Len(l) - m + 1 = Len(s)
    BY LenProperties DEF EndOf
  <1> HIDE DEF m
  <1>2. /\ SubSeq(l, m, Len(l)) \in Seq(Message)
        /\ Len(SubSeq(l, m, Len(l))) = IF m <= Len(l) THEN Len(l) - m + 1 ELSE 0
        /\ \A i \in 1..Len(l) - m + 1 : SubSeq(l, m, Len(l))[i] = l[m + i - 1]
    BY <1>1, SubSeqProperties
  <1>3. Len(SubSeq(l, m, Len(l))) = Len(s)
    BY <1>1, <1>2
  <1>4. \A i \in 1..Len(s) : s[i] = SubSeq(l, m, Len(l))[i]
    BY <1>1, <1>2 DEF EndOf, m
  <1>5. s = SubSeq(l, m, Len(l))
    BY <1>2, <1>3, <1>4, SeqEqual
  <1> QED BY <1>5 DEF m

(* Most steps leave the memory, and what the attempt has read of it.       *)
LEMMA MemoryKept ==
    ASSUME MemoryInv, file' \in {"missing", "empty", "damaged", "whole"},
           UNCHANGED <<attempts, prompt, memoryVars>>, reply' \in Contexts,
           pc'[Worker] # "idle" => pc[Worker] # "idle",
           pc'[Worker] \in Prompted => pc[Worker] \in Prompted
    PROVE  MemoryInv'
  BY DEF MemoryInv, memoryVars, PromptIsCurrent, Prompted, EndOf

(* A reply leaves a context that can be saved.                             *)
LEMMA ReplyHasContext ==
    ASSUME NEW text \in Texts, IsReply(text)
    PROVE  Trim(text.context) \in Contexts
  <1>1. text.context \in Contexts \cup {NotGiven, " "} /\ text.context # NotGiven
    BY DEF Texts, IsReply
  <1> QED BY <1>1 DEF Trim, Contexts

(* The handlers of saves and views leave the worker where it is.           *)
LEMMA OthersKeepMemory ==
    ASSUME SettingsInv, MemoryInv,
           \/ \E h \in Saves, b \in Bodies : UpdateConfig(h, b)
           \/ \E h \in Views : View(h) \/ CheckStatus(h)
           \/ \E h \in Handlers : OpenConfig(h) \/ WriteConfig(h) \/ WriteConfigFails(h)
    PROVE  MemoryInv'
  <1>0. /\ pc \in [Handlers -> Awaits] /\ Worker \in Handlers
        /\ \A h \in Saves \cup Views : h \in Handlers /\ h # Worker
        /\ file \in {"missing", "empty", "damaged", "whole"} /\ reply \in Contexts
    BY SettingsAssumption DEF SettingsInv, MemoryInv, Handlers
  <1>1. ASSUME NEW h \in Saves, NEW b \in Bodies, UpdateConfig(h, b) PROVE MemoryInv'
    <2>1. /\ file' = file /\ UNCHANGED <<attempts, prompt, memoryVars>> /\ reply' = reply
          /\ pc'[Worker] = pc[Worker]
      BY <1>0, <1>1 DEF UpdateConfig, Goto, attemptVars
    <2> QED BY <1>0, <2>1, MemoryKept
  <1>2. ASSUME NEW h \in Views, View(h) \/ CheckStatus(h) PROVE MemoryInv'
    <2>1. \E await : Goto(h, await)
      BY <1>2 DEF View, CheckStatus, CreateDefault
    <2>2. /\ file' = file /\ UNCHANGED <<attempts, prompt, memoryVars>> /\ reply' = reply
      BY <1>2 DEF View, CheckStatus, CreateDefault, attemptVars, settingsVars
    <2>3. pc'[Worker] = pc[Worker]
      BY <1>0, <2>1 DEF Goto
    <2> QED BY <1>0, <2>2, <2>3, MemoryKept
  <1>3. ASSUME NEW h \in Handlers, OpenConfig(h) PROVE MemoryInv'
    <2>1. /\ file' = "empty" /\ UNCHANGED <<attempts, prompt, memoryVars>> /\ reply' = reply
          /\ pc'[Worker] \in {pc[Worker], "writing"}
          /\ pc'[Worker] # pc[Worker] => pc[Worker] = "opening"
      BY <1>0, <1>3 DEF OpenConfig, Goto, attemptVars
    <2> QED BY <1>0, <2>1, MemoryKept DEF Prompted
  <1>4. ASSUME NEW h \in Handlers, WriteConfig(h) PROVE MemoryInv'
    <2>1. /\ file' \in {"whole", "damaged"} /\ reply' = reply
          /\ UNCHANGED <<attempts, prompt, memoryVars>>
      BY <1>4 DEF WriteConfig, attemptVars
    <2>2. pc'[Worker] = IF h = Worker THEN "conversation" ELSE pc[Worker]
      BY <1>0, <1>4 DEF WriteConfig, Goto
    <2>3. h = Worker => pc[Worker] = "writing"
      BY <1>4 DEF WriteConfig
    <2> QED BY <1>0, <2>1, <2>2, <2>3, MemoryKept DEF Prompted
  <1>5. ASSUME NEW h \in Handlers, WriteConfigFails(h) PROVE MemoryInv'
    <2>1. /\ file' \in {file, "damaged"} /\ reply' = reply
          /\ UNCHANGED <<attempts, prompt, memoryVars>>
      BY <1>5 DEF WriteConfigFails, attemptVars
    <2>2. pc'[Worker] \in {pc[Worker], "idle"}
      BY <1>0, <1>5 DEF WriteConfigFails, Goto
    <2> QED BY <1>0, <2>1, <2>2, MemoryKept DEF Prompted
  <1> QED BY <1>1, <1>2, <1>3, <1>4, <1>5

(* A saved exchange becomes the end of the memory and of the log.          *)
LEMMA SaveKeepsMemory ==
    ASSUME SettingsInv, MemoryInv, SaveExchange
    PROVE  MemoryInv'
  <1> DEFINE kept == messages \o Exchange
  <1>0. /\ messages \in Seq(Message) /\ log \in Seq(Message)
        /\ Len(messages) <= 20 /\ Len(messages) \in Nat /\ EndOf(messages, log)
        /\ attempts \in 1..MaxAttempts
    <2>1. /\ messages \in Seq(Message) /\ log \in Seq(Message) /\ EndOf(messages, log)
          /\ window \in 1..20 /\ Len(messages) <= window
      BY DEF MemoryInv
    <2>2. attempts \in 0..MaxAttempts /\ attempts >= 1 /\ MaxAttempts \in Nat
      BY SettingsAssumption DEF MemoryInv, SaveExchange
    <2>3. Len(messages) \in Nat
      BY <2>1, LenProperties
    <2> QED BY <2>1, <2>2, <2>3
  <1>1. Exchange \in Seq(Message) /\ Len(Exchange) = 2
    BY <1>0 DEF Exchange, Message
  <1>2. window' \in 1..20
    BY SettingsAreNormal DEF SaveExchange, SettingsInv, IsNormal
  <1>3. messages' = LastMessages(kept, window')
    <2>1. LastMessages(messages, 20) = messages
      BY <1>0, LastMessagesFacts
    <2> QED BY <2>1 DEF SaveExchange
  <1>4. kept \in Seq(Message) /\ Len(kept) = Len(messages) + 2
    <2>1. /\ messages \o Exchange \in Seq(Message)
          /\ Len(messages \o Exchange) = Len(messages) + Len(Exchange)
      BY <1>0, <1>1, ConcatProperties
    <2> QED BY <1>1, <2>1
  <1> HIDE DEF kept
  <1>5. /\ messages' \in Seq(Message)
        /\ Len(messages') = IF Len(kept) > window' THEN window' ELSE Len(kept)
        /\ EndOf(messages', kept)
    BY <1>2, <1>3, <1>4, LastMessagesFacts
  <1>6. log' = log \o Exchange /\ log' \in Seq(Message)
    BY <1>0, <1>1, ConcatProperties DEF SaveExchange
  <1>7. EndOf(messages', log')
    BY <1>0, <1>1, <1>5, <1>6, EndOfAppended DEF kept
  <1>8. Len(messages') <= window' /\ Len(messages') >= (IF window' = 1 THEN 1 ELSE 2)
    BY <1>0, <1>2, <1>4, <1>5
  <1>9. context' \in Contexts /\ torn' \in BOOLEAN
    BY DEF MemoryInv, SaveExchange, NextContext
  <1>10. pc'[Worker] = "idle"
    BY DEF SaveExchange, Fail, Goto, SettingsInv, Handlers
  <1>11. UNCHANGED <<file, attempts, prompt, reply>>
    BY DEF SaveExchange, settingsVars, attemptVars
  <1> QED BY <1>2, <1>5, <1>6, <1>7, <1>8, <1>9, <1>10, <1>11
          DEF MemoryInv, PromptIsCurrent

(* An attempt begins, reads the memory, and saves.                         *)
LEMMA AttemptKeepsMemory ==
    ASSUME SettingsInv, MemoryInv, HandleMessage
    PROVE  MemoryInv'
  <1>0. /\ pc \in [Handlers -> Awaits] /\ Worker \in Handlers
        /\ file \in {"missing", "empty", "damaged", "whole"} /\ reply \in Contexts
    BY DEF SettingsInv, MemoryInv, Handlers
  <1>1. CASE BeginAttempt
    <2>1. /\ attempts' \in 0..MaxAttempts /\ attempts' >= 1
          /\ reply' \in Contexts /\ pc'[Worker] = "config"
      <3>1. attempts \in 0..MaxAttempts /\ attempts < MaxAttempts /\ MaxAttempts \in Nat
        BY <1>1, SettingsAssumption DEF BeginAttempt, MemoryInv
      <3>2. attempts' = attempts + 1 /\ reply' = "" /\ pc'[Worker] = "config"
        BY <1>0, <1>1 DEF BeginAttempt, Goto
      <3>3. attempts + 1 \in 0..MaxAttempts /\ attempts + 1 >= 1
        BY <3>1
      <3> QED BY <3>2, <3>3 DEF Contexts
    <2> QED BY <1>1, <2>1
            DEF BeginAttempt, MemoryInv, settingsVars, memoryVars, PromptIsCurrent, EndOf
  <1>2. CASE ReadConversation
    <2>1. LastMessages(messages, 20) = messages
      BY LastMessagesFacts, LenProperties DEF MemoryInv
    <2>2. \/ prompt'.messages = messages /\ prompt'.context = context
          \/ prompt' = prompt /\ pc'[Worker] = "idle"
      BY <1>0, <1>2, <2>1 DEF ReadConversation, Fail, Goto
    <2>3. pc[Worker] # "idle"
      BY <1>2 DEF ReadConversation
    <2> QED BY <1>2, <2>2, <2>3
            DEF ReadConversation, MemoryInv, settingsVars, memoryVars, PromptIsCurrent, EndOf
  <1>3. CASE SaveExchange
    BY <1>3, SaveKeepsMemory
  <1>4. CASE ReadInterval \/ SelectProvider \/ SelectModel \/ LoadRuntime \/ RenderPrompt
             \/ Generate \/ SendResponse
    <2>1. file' = file /\ UNCHANGED <<attempts, prompt, memoryVars>>
      BY <1>4 DEF ReadInterval, CreateDefault, SelectProvider, SelectModel, LoadRuntime,
         RenderPrompt, Generate, SendResponse, settingsVars, attemptVars
    <2>2. pc[Worker] # "idle"
      BY <1>4 DEF ReadInterval, SelectProvider, SelectModel, LoadRuntime, RenderPrompt,
         Generate, SendResponse
    <2>3. pc'[Worker] \in Prompted => pc[Worker] \in Prompted
      BY <1>0, <1>4 DEF ReadInterval, CreateDefault, SelectProvider, SelectModel, LoadRuntime,
         RenderPrompt, Generate, SendResponse, Fail, Goto, Prompted
    <2>4. reply' \in Contexts
      BY <1>0, <1>4, ReplyHasContext DEF ReadInterval, CreateDefault, SelectProvider,
         SelectModel, LoadRuntime, RenderPrompt, Generate, SendResponse,
         attemptVars
    <2> QED BY <1>0, <2>1, <2>2, <2>3, <2>4, MemoryKept
  <1>5. CASE SaveFails
    <2>1. /\ pc[Worker] = "saving" /\ pc'[Worker] = "idle" /\ torn' \in BOOLEAN
          /\ UNCHANGED <<file, attempts, prompt, reply, window, messages, context, log>>
      BY <1>0, <1>5 DEF SaveFails, Fail, Goto, MemoryInv, settingsVars, attemptVars
    <2> QED BY <2>1 DEF MemoryInv, PromptIsCurrent, EndOf
  <1> QED BY <1>1, <1>2, <1>3, <1>4, <1>5 DEF HandleMessage

(* The memory is right whatever the settings are when it is saved.         *)
THEOREM MemoryInvariantHolds == Spec => [](SettingsInv /\ MemoryInv)
  <1>1. Init => MemoryInv
    <2> SUFFICES ASSUME Init PROVE MemoryInv
      OBVIOUS
    <2>1. <<>> \in Seq(Message) /\ Len(<<>>) = 0
      BY EmptySeq
    <2>2. messages = <<>> /\ log = <<>> /\ prompt = [messages |-> <<>>, context |-> ""]
      BY DEF Init
    <2>0. window = 3 /\ attempts = 0
      BY DEF Init
    <2>3. Len(messages) = 0 /\ Len(log) = 0 /\ Len(messages) <= window /\ window \in 1..20
      <3>1. Len(messages) = 0 /\ Len(log) = 0
        <4>1. messages = <<>> /\ log = <<>>
          BY <2>2
        <4> QED BY <4>1
      <3> QED BY <2>0, <3>1
    <2>4. EndOf(messages, log)
      <3>1. Len(messages) <= Len(log) /\ 1..Len(messages) = {}
        BY <2>3
      <3> QED BY <3>1 DEF EndOf
    <2>5. attempts \in 0..MaxAttempts
      <3>1. MaxAttempts \in Nat
        BY SettingsAssumption
      <3> QED BY <2>0, <3>1
    <2>6. pc[Worker] = "idle"
      BY DEF Init, Handlers
    <2>7. prompt.messages \in Seq(Message) /\ prompt.context \in Contexts
      BY <2>1, <2>2 DEF Contexts
    <2>8. /\ file \in {"missing", "empty", "damaged", "whole"}
          /\ reply \in Contexts /\ context \in Contexts /\ torn \in BOOLEAN
      BY DEF Init, Contexts
    <2>9. messages \in Seq(Message) /\ log \in Seq(Message) /\ log = <<>>
      BY <2>1, <2>2
    <2>10. PromptIsCurrent
      BY <2>6 DEF Init, PromptIsCurrent
    <2> QED BY <2>3, <2>4, <2>5, <2>6, <2>7, <2>8, <2>9, <2>10 DEF MemoryInv
  <1>2. SettingsInv /\ MemoryInv /\ [Next]_vars => MemoryInv'
    <2> SUFFICES ASSUME SettingsInv, MemoryInv, [Next]_vars PROVE MemoryInv'
      OBVIOUS
    <2>1. CASE HandleMessage
      BY <2>1, AttemptKeepsMemory
    <2>2. CASE UNCHANGED vars
      BY <2>2 DEF vars, settingsVars, attemptVars, memoryVars, MemoryInv, PromptIsCurrent, EndOf
    <2> QED BY <2>1, <2>2, OthersKeepMemory DEF Next
  <1> QED BY <1>1, <1>2, SettingsInit, SettingsStep, PTL DEF Spec

(* Every variable has its type; what a job reads from worker.json, and     *)
(* what is written there, is in range, whatever was submitted.             *)
THEOREM SettingsTypeCorrect == Spec => []TypeOK
  <1>1. SettingsInv /\ MemoryInv => TypeOK
    <2> SUFFICES ASSUME SettingsInv, MemoryInv PROVE TypeOK
      OBVIOUS
    <2>1. IsNormal(Settings)
      BY SettingsAreNormal DEF SettingsInv
    <2>2. \A h \in Handlers : IsNormal(want[h])
      BY WrittenIsNormal DEF SettingsInv
    <2> QED BY <2>1, <2>2 DEF SettingsInv, MemoryInv, TypeOK
  <1> QED BY <1>1, MemoryInvariantHolds, PTL

(* appendExchange keeps the end of all that was ever exchanged, for every  *)
(* sequence of memory windows and failed attempts.                         *)
THEOREM MemoryStaysRecent == Spec => []MemoryIsRecent
  <1>1. MemoryInv => MemoryIsRecent
    BY EndIsSubSeq DEF MemoryInv, MemoryIsRecent
  <1> QED BY <1>1, MemoryInvariantHolds, PTL

(* The prompt of a retry is built from the memory there is.                *)
THEOREM PromptStaysCurrent == Spec => []PromptIsCurrent
  <1>1. MemoryInv => PromptIsCurrent
    BY DEF MemoryInv
  <1> QED BY <1>1, MemoryInvariantHolds, PTL
=============================================================================
