SPECIFICATION Spec
CONSTANTS
    Processes = {root, child, grandchild}
    Root = root
    Platforms = {"unix", "windows"}
CHECK_DEADLOCK FALSE
INVARIANTS
    TypeOK
    NoneEscapes
    TerminatedIsGone
PROPERTY TerminateReturns
