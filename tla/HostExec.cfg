SPECIFICATION FairSpec
CONSTANTS
    Streams = {"stdout", "stderr"}
    Capacity <- OneBusyPipe
INVARIANTS
    TypeOK
    TerminationIsOver
    CleanResultIsComplete
PROPERTIES
    ImplementsContract
    ExitResolves
    StopResolves
CHECK_DEADLOCK FALSE
