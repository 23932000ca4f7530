CONSTANTS
    ArchRegs = 1
    PhysicalRegs = 2
    RobEntries = 3
    RenameWidth = 1
    CommitWidth = 1
    RecoveryEpochs = 2
    MemoryEpochs = 4
    LoadQueueEntries = 1
    StoreQueueEntries = 2
    Words = {0}
    Kinds = {"load", "store", "ll", "sc", "barrier"}
    Masks = {{0}}
    Answers <- ReservedAnswers
    Misaligned = {FALSE}
    Errors = {FALSE, TRUE}
    FlushAnytime = FALSE
    EventsPerCycle = 2
    Reach = 2
SPECIFICATION MemorySpec
INVARIANTS
    UncachedAccessesHappenOnce
    BarrierSeparatesAccesses
