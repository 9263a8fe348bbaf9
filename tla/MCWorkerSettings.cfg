\* Three attempts at jobs of a chat, two saves of the settings, a page view.
SPECIFICATION Spec
CONSTANTS
    Bodies <- SomeBodies
    Saves = {s1, s2}
    Views = {v1}
    MaxAttempts = 3
    EnvModel <- SomeEnvModels
    NotGiven = NotGiven
    Worker = Worker
SYMMETRY Symmetry
INVARIANTS
    TypeOK
    RequestFitsProvider
    MemoryIsRecent
    PromptIsCurrent
CHECK_DEADLOCK FALSE
