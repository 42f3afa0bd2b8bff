SPECIFICATION Spec
CONSTANTS
    SetIds = {1, 2}
    Artifacts = {"old", "new", "doc"}
    PathOf <- MCPathOf
    Groups = {"g", "h"}
    Selected = {"g"}
    NoSet = NoSet
    NoGroup = NoGroup
    MaxEvents = 3
CHECK_DEADLOCK FALSE
INVARIANTS
    TypeOK
    CompleteOutputs
    FailsOnlyWhenItMust
PROPERTY WalkEnds
