--------------------------- MODULE MCSettingsPage ---------------------------
(* Model checking of SettingsPage.                                         *)
EXTENDS SettingsPage, TLC

Choose(p, m) == [provider |-> p, model |-> m]

(* A static model, and one that was pulled and has been removed since.     *)
SomeConfigs == {Choose("xai", "grok-4-latest"), Choose("ollama", "phi4")}

(* Another provider's model.                                               *)
SomeSaves == {Choose("deepseek", "grok-4")}

SomeEnvModels ==
    [xai |-> "grok-4", deepseek |-> "deepseek-chat", ollama |-> "gemma3:1b"]

Symmetry == Permutations(Saves) \cup Permutations(Refreshes)
=============================================================================
