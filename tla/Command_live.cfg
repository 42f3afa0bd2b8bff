SPECIFICATION Spec
CONSTANTS
    Processes = {1, 2}
    NoProcess = NoProcess
    Goroutines = {"g1", "g2"}
    MaxRebuilds = 2
    MaxSignals = 2
    Signals = {"SIGINT", "SIGTERM"}
    Modes = {"default"}
    MayExit = FALSE
CHECK_DEADLOCK FALSE
PROPERTIES
    SigtermExits
    TerminatedDies
