CONSTANTS
    r1 = r1
    r2 = r2
    r3 = r3
    r4 = r4
    r5 = r5
    r6 = r6
    out1 = out1
    out2 = out2
    work1 = work1
    work2 = work2
    None = None
    Runs <- MCRuns
    Outs <- MCOuts
    Works <- MCWorks
    Iterations = {1, 2}
    Scenarios <- MCScenarios
SPECIFICATION Spec
INVARIANTS
    OneRunPerIteration
    MarkerHashesItsReport
    NothingStandsMeanwhile
    
    
    
PROPERTIES
    ComparedReportsStillStand
    PublishesAsPromised
CHECK_DEADLOCK FALSE
