CONSTANTS
    ArchRegs = 1
    PhysicalRegs = 2
    RobEntries = 2
    RenameWidth = 2
    CommitWidth = 2
    WritebackWidth = 2
    RecoveryEpochs = 2
    MemoryEpochs = 3
    StaleResults = 0
    Payloads <- MCPayloads
    Decoded <- RedirectDecoded
SPECIFICATION FairBackendSpec
INVARIANTS
    RetirementInOrder
    WindowMatchesPointers
    MemoryEpochCountsBarriers
    AsleepMeansEmpty
PROPERTIES
    RetirementImplemented
    EveryUopLeaves
