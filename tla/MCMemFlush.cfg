CONSTANTS
    ArchRegs = 1
    PhysicalRegs = 2
    RobEntries = 3
    RenameWidth = 2
    CommitWidth = 2
    RecoveryEpochs = 2
    MemoryEpochs = 4
    LoadQueueEntries = 1
    StoreQueueEntries = 2
    Words = {0}
    Kinds = {"load", "store"}
    Masks = {{0}}
    Answers <- CachedAnswers
    Misaligned = {FALSE, TRUE}
    Errors = {FALSE}
    FlushAnytime = TRUE
    EventsPerCycle = 2
    Reach = 2
SPECIFICATION MemorySpec
INVARIANTS
    NoCompletionLostOrRepeated
    RetiredStoresKept
    AllocatorMatchesQueues
    TranslationReachesItsOwner
