CONSTANTS
    ArchRegs = 1
    PhysicalRegs = 2
    RobEntries = 2
    RenameWidth = 1
    CommitWidth = 1
    RecoveryEpochs = 2
    MemoryEpochs = 5
    LoadQueueEntries = 2
    StoreQueueEntries = 2
    Words = {0}
    Kinds = {"load", "store", "other"}
    Masks = {{0}}
    Answers <- CachedAnswers
    Misaligned = {FALSE}
    Errors = {FALSE}
    FlushAnytime = FALSE
    EventsPerCycle = 2
    Reach = 6
SPECIFICATION MemorySpec
INVARIANTS
    RetiredLoadsSeeOlderStores
