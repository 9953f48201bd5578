SPECIFICATION FairSpec
CONSTANTS
    StdinModes = {"none", "fixed", "stream"}
    MaxFrames = 1
INVARIANTS
    TypeOK
    ForgottenNeverRuns
    StoppedServerHasNoWork
PROPERTIES
    ResultIsComplete
    TerminationIsTrue
    KillReachesCommand
    ClosingEndsCommands
CHECK_DEADLOCK FALSE
