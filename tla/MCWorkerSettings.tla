-------------------------- MODULE MCWorkerSettings --------------------------
(* Model checking of WorkerSettings.                                       *)
EXTENDS WorkerSettings, TLC

Body(p, m, n, i) ==
    [provider |-> p, model |-> m, memory_window |-> n, thinking_interval_seconds |-> i]

(* Out of range, another provider's model, a pulled model, nothing at all. *)
SomeBodies ==
    {Body("xai", NotGiven, 0, 40),
     Body("deepseek", "grok-4", 1, 2),
     Body("ollama", "llama3", 5, NotGiven),
     Body("other", "deepseek-chat", NotGiven, 0)}

SomeEnvModels ==
    [xai |-> "grok-4", deepseek |-> "deepseek-chat", ollama |-> "gemma3:1b"]

Symmetry == Permutations(Saves)
=============================================================================
