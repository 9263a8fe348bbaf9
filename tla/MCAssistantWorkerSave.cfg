\* Nothing fails; the configuration is saved once.
SPECIFICATION FairSpec
CONSTANTS
    j1 = j1
    j2 = j2
    c1 = c1
    Jobs = {j1, j2}
    Conversations = {c1}
    ConversationOf <- OneChat
    Workers = {w1}
    MaxTicks = 1
    MemoryWindow = 3
    MaxFaults = 0
    MaxSaves = 1
    NoJob = NoJob
PROPERTIES
    QueuedIsAnswered
CHECK_DEADLOCK FALSE
