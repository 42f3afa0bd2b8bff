SPECIFICATION Spec
CONSTANTS
    Regexes <- MCRegexes
    Chars <- MCChars
    Captures <- MCCaptures
    Configs <- MCConfigs
    Outputs <- MCOutputs
    MaxTyped = 2
    MaxChunk = 1
CHECK_DEADLOCK FALSE
INVARIANTS
    EveryCommandOnce
    ArgumentsSubstituted
    ConfirmedIsRun
