\* One worker, two jobs of one chat, two failures or crashes.
SPECIFICATION FairSpec
CONSTANTS
    j1 = j1
    j2 = j2
    c1 = c1
    Jobs = {j1, j2}
    Conversations = {c1}
    ConversationOf <- OneChat
    Workers = {w1}
    MaxTicks = 2
    MemoryWindow = 3
    MaxFaults = 2
    MaxSaves = 2
    NoJob = NoJob
INVARIANTS
    TypeOK
    OneJobPerWorker
    DoneAndRememberedAreAnswered
    RepeatsHaveCause
PROPERTIES
    ImplementsLifecycle
    SavesExtendFile
    QueuedSettles
CHECK_DEADLOCK FALSE
