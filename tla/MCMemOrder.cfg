CONSTANTS
    ArchRegs = 1
    PhysicalRegs = 2
    RobEntries = 4
    RenameWidth = 1
    CommitWidth = 1
    RecoveryEpochs = 2
    MemoryEpochs = 5
    LoadQueueEntries = 1
    StoreQueueEntries = 2
    Words = {0}
    Kinds = {"load", "store"}
    Masks <- AllMasks
    Answers <- CachedAnswers
    Misaligned = {FALSE}
    Errors = {FALSE}
    FlushAnytime = FALSE
    EventsPerCycle = 2
    Reach = 3
SPECIFICATION MemorySpec
INVARIANTS
    RetiredLoadsSeeOlderStores
