SPECIFICATION Spec
CONSTANTS
    e = e
    f = f
    Events = {e, f}
    Own = {e}
    Asks <- AsksMixed
    Expiry = 1
    MaxTime = 3
    MaxBack = 1
CHECK_DEADLOCK FALSE
INVARIANTS
    TypeOK
    AnsweredOnce
    BoundsDriven
PROPERTIES
    EveryAskAnswered
