----------------------------- MODULE WorkerConfig ---------------------------
(***************************************************************************)
(* The settings of assistant-worker in worker.json: the models of each     *)
(* provider, and how AssistantWorkerConfigService normalises whatever a    *)
(* file or a request says.  WorkerSettings and SettingsPage work with it.  *)
(***************************************************************************)
EXTENDS Integers

CONSTANTS NotGiven,  \* a field that is absent or of no use
          EnvModel   \* EnvModel[p]: XAI_MODEL, OLLAMA_MODEL, DEEPSEEK_MODEL

Providers == {"xai", "ollama", "deepseek"}

StaticModels ==
    [xai      |-> {"grok-4", "grok-4-latest"},
     deepseek |-> {"deepseek-chat", "deepseek-reasoner"},
     ollama   |-> {"gemma3:1b", "gemma3:4b", "gemma3:12b"}]

DefaultModelForProvider ==
    [xai |-> "grok-4", deepseek |-> "deepseek-chat", ollama |-> "gemma3:1b"]

(* The models a request to the API of p may name.  Ollama runs whatever    *)
(* model the operator has pulled.                                          *)
FitsProvider(p, m) == p = "ollama" \/ m \in StaticModels[p]

ASSUME ConfigAssumption ==
    /\ NotGiven \notin Int
    /\ \A p \in Providers : NotGiven \notin StaticModels[p]
    /\ \A p \in Providers : FitsProvider(p, EnvModel[p]) /\ EnvModel[p] # NotGiven

-----------------------------------------------------------------------------
(* AssistantWorkerConfigService: normalisation                             *)

NormalizeProvider(p) == IF p \in Providers THEN p ELSE "xai"

NormalizeModel(p, m) ==
    IF m \in StaticModels[p] \/ (p = "ollama" /\ m # NotGiven)
    THEN m ELSE DefaultModelForProvider[p]

Clamp(n, low, high) == IF n < low THEN low ELSE IF n > high THEN high ELSE n

(* Mutant of NormalizeMemoryWindow: no lower bound.                        *)
CapMemoryWindow(n) == IF n = NotGiven THEN 3 ELSE IF n > 20 THEN 20 ELSE n

NormalizeMemoryWindow(n) == IF n = NotGiven THEN 3 ELSE Clamp(n, 1, 20)

NormalizeInterval(n) == IF n = NotGiven THEN 2 ELSE Clamp(n, 1, 30)

Normalize(b) ==
    LET p == NormalizeProvider(b.provider) IN
    [provider |-> p,
     model |-> NormalizeModel(p, b.model),
     memory_window |-> NormalizeMemoryWindow(b.memory_window),
     thinking_interval_seconds |-> NormalizeInterval(b.thinking_interval_seconds)]

DefaultConfig ==
    [provider |-> "xai", model |-> "grok-4",
     memory_window |-> 3, thinking_interval_seconds |-> 2]

IsNormal(c) ==
    /\ c.provider \in Providers
    /\ FitsProvider(c.provider, c.model) /\ c.model # NotGiven
    /\ c.memory_window \in 1..20
    /\ c.thinking_interval_seconds \in 1..30
=============================================================================
