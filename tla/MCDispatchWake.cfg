CONSTANTS
    ArchRegs = 1
    PhysicalRegs = 2
    RobEntries = 3
    RenameWidth = 2
    CommitWidth = 1
    RecoveryEpochs = 2
    MemoryEpochs = 4
    DispatchQueueEntries = 4
    DispatchWidth = 2
    Ports <- AllPorts
    LoadStorePort = 3
    CsrPort = 0
    DividePort = 1
    MultiplyPort = 2
    Capabilities <- AllCapabilities
    IssueQueueEntries = 2
    DataSlots = 2
    Shapes <- WakeShapes
    FlushAnytime = TRUE
SPECIFICATION PathSpec
INVARIANTS
    NothingLostOrDuplicated
    NoLostWakeup
    SerializingIsOldest
PROPERTIES
    OperandsHoldResults
