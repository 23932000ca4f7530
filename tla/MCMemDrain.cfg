CONSTANTS
    ArchRegs = 1
    PhysicalRegs = 2
    RobEntries = 4
    RenameWidth = 2
    CommitWidth = 2
    RecoveryEpochs = 2
    MemoryEpochs = 5
    LoadQueueEntries = 1
    StoreQueueEntries = 2
    Words = {0}
    Kinds = {"store"}
    Masks = {{0}}
    Answers <- FaultingAnswers
    Misaligned = {FALSE}
    Errors = {FALSE}
    FlushAnytime = TRUE
    EventsPerCycle = 2
    Reach = 2
SPECIFICATION FairMemorySpec
PROPERTIES
    DrainEnds
