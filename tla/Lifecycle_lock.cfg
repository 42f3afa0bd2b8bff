SPECIFICATION Spec
CONSTANTS
    Paths = {"a"}
    MaxEvents = 8
    Commands = {"run"}
    HookChoices <- MCHookChoices
CHECK_DEADLOCK FALSE
PROPERTY CommandsFinish
