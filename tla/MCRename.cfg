CONSTANTS
    ArchRegs = 2
    PhysicalRegs = 3
    RobEntries = 2
    RenameWidth = 2
    CommitWidth = 2
    WritebackWidth = 1
    RecoveryEpochs = 2
    MemoryEpochs = 3
    StaleResults = 1
    Payloads <- MCPayloads
    Decoded <- RegisterDecoded
SPECIFICATION BackendSpec
INVARIANTS
    NoRegisterLostOrShared
    ArchitecturalStatePreserved
    ReadySourcesHoldResults
    CompletedByOwnResult
