SPECIFICATION Spec
CONSTANTS
    Records = {"r1"}
    DueAt <- MCDueAt
    Checkers = {"scheduler", "request"}
    Scheduler = "scheduler"
    MaxTime = 1
    MaxEvents = 2
INVARIANTS
    TypeOK
    AloneSendsOnce
    NoReminderAfterReturn
PROPERTIES
    OverdueReminded
CHECK_DEADLOCK FALSE
