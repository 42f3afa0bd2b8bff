SPECIFICATION Spec
CONSTANTS
    Processes = {1, 2}
    NoProcess = NoProcess
    Goroutines = {"g1", "g2"}
    MaxRebuilds = 2
    MaxSignals = 3
    Signals = {"SIGINT", "SIGTERM"}
    Modes = {"default", "notification"}
    MayExit = TRUE
CHECK_DEADLOCK FALSE
INVARIANTS
    TypeOK
    NothingLost
    ExitLeavesNothing
    OneServer
