SPECIFICATION Spec
CONSTANTS
    Paths = {"a", "b"}
    MaxEvents = 10
    Commands = {"build", "test", "coverage", "run"}
    HookChoices <- MCHookChoices
CHECK_DEADLOCK FALSE
INVARIANTS
    TypeOK
    RemoteFollowsReload
    ChangesAreCumulative
    CommandsAreBracketed
    ListenersAgree
