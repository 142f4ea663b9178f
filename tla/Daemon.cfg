SPECIFICATION Spec
CONSTANTS
    Clients = {c1, c2, c3}
    Requests <- MCRequests
    Fds = {3, 4}
    Own <- MCOwn
    Menus <- MCMenus
    Timers <- MCTimers
    MayFail <- MCMayFail
    MaxFailures = 1
INVARIANTS
    TypeOK
    NoMisroute
    PendingLive
    PendingRunning
    ReadsNeverBlock
    SingleQueriesHeld
PROPERTIES
    SingleQueriesAnswered
CHECK_DEADLOCK FALSE
