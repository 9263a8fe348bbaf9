\* One call fails or one process dies.
SPECIFICATION FairSpec
CONSTANTS
    j1 = j1
    j2 = j2
    c1 = c1
    Jobs = {j1, j2}
    Conversations = {c1}
    ConversationOf <- OneChat
    Workers = {w1}
    MaxTicks = 1
    MemoryWindow = 3
    MaxFaults = 1
    MaxSaves = 0
    NoJob = NoJob
INVARIANTS
    ThinkingWhileWorking
CHECK_DEADLOCK FALSE
