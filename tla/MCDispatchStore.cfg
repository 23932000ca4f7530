CONSTANTS
    ArchRegs = 1
    PhysicalRegs = 2
    RobEntries = 4
    RenameWidth = 2
    CommitWidth = 1
    RecoveryEpochs = 2
    MemoryEpochs = 5
    DispatchQueueEntries = 4
    DispatchWidth = 2
    Ports <- AllPorts
    LoadStorePort = 3
    CsrPort = 0
    DividePort = 1
    MultiplyPort = 2
    Capabilities <- AllCapabilities
    IssueQueueEntries = 2
    DataSlots = 2
    Shapes <- StoreShapes
    FlushAnytime = TRUE
SPECIFICATION PathSpec
INVARIANTS
    
    QueuesHoldProgramOrder
