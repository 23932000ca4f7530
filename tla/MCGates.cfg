CONSTANTS
    r1 = r1
    r2 = r2
    r3 = r3
    r4 = r4
    r5 = r5
    r6 = r6
    out1 = out1
    out2 = out2
    out3 = out3
    out4 = out4
    out5 = out5
    None = None
    Absent = Absent
    Runs <- MCRuns
    Outs <- MCOuts
    Sources <- MCSources
    Declares <- MCDeclares
    Lints <- MCLints
    Variants = {0, 1}
    Scenarios <- MCScenarios
    RtlFiles <- MCRtlFiles
    IncludesOf <- MCIncludesOf
    Waiving = {"unit"}
    Scripts <- MCScripts
    TestCounts <- MCTestCounts
    Verdicts = {"clean", "nonzero"}
    Reports <- MCReports
    Outputs <- MCOutputs
    Elaborations = 2
    CommitLimit = 3
    EventLimit = 1
    Codes = {0, 1}
    Gates = {"test"}
    Required = {"test"}
    Drafts <- MCDrafts
SPECIFICATION Spec
INVARIANTS
    
    OneScalaRunPerOut
    NoWaiverIsReached
    GeneratedFromOneSource
    
    WaiverDescribesItsRtl
    
CHECK_DEADLOCK FALSE
