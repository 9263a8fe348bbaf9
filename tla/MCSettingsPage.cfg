\* Two saves and two status refreshes of one page at once, other operators.
SPECIFICATION Spec
CONSTANTS
    NotGiven = NotGiven
    EnvModel <- SomeEnvModels
    Saves = {s1, s2}
    Refreshes = {r1, r2}
    Root = Root
    Pulled = {"llama3"}
    Keys = {"xai", "ollama"}
    MaxSubmits = 2
    Picks = {"grok-4", "llama3"}
    Started <- SomeConfigs
    Others <- SomeSaves
SYMMETRY Symmetry
INVARIANTS
    TypeOK
    PageIsCurrent
PROPERTIES
    SubmitKeepsChoice
