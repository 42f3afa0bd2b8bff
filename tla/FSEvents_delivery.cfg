SPECIFICATION Spec
CONSTANTS
    Names <- MCNames
    Files <- MCFiles
    DirOf <- MCDirOf
    WantedSets <- MCWantedSets
    FlagSets <- MCFlagSets
    MaxUpdates = 2
    MaxChanges = 3
CHECK_DEADLOCK FALSE
INVARIANTS
    TypeOK
    RootsFit
PROPERTIES
    EventsArrive
    ImplementsWatcher
