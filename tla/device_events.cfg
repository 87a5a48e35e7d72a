SPECIFICATION Spec
CONSTANTS
    Operations = {"o1", "o2"}
    Reports <- MCReports
    About <- MCAbout
    Stage <- MCStage
    Failed = {}
    Carries <- MCCarries
    Calls <- MCCalls
    Aborts <- MCAborts
    Cancels = {"user1", "user2"}
    MaxRestarts = 1
    NoCall = NoCall
INVARIANTS
    TypeOK
    AckedMeansApplied
    ReturnVerified
    WaiterReachable
    CancelledMeansStopped
    EarlyPacketsKept
    NoStaleWaiter
CHECK_DEADLOCK FALSE
