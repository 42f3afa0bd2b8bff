SPECIFICATION Spec
CONSTANTS
    main = main
    lib = lib
    BUILD = BUILD
    toolsBUILD = toolsBUILD
    app = app
    helper = helper
    rootDir = rootDir
    libDir = libDir
    toolsDir = toolsDir
    NoFile = NoFile
    SourceFiles <- MCSourceFiles
    BuildFiles <- MCBuildFiles
    Dirs <- MCDirs
    DirOf <- MCDirOf
    Rules <- MCRules
    Targets = {app}
    DeclaredIn <- MCDeclaredIn
    Loads <- MCLoads
    Globs <- MCGlobs
    RuleGraphs <- MCRuleGraphs
    Commands = {"test", "run"}
    RunModes = {"default", "notification"}
    Edits = {"write", "vanish", "dirVanish"}
    MaxEdits = 2
    AddMayFail = TRUE
    LoopFaults = {"query", "resolve", "command"}
CHECK_DEADLOCK FALSE
PROPERTIES
    ImplementsWatcher
    EventuallyBuilt
    ComesToRest
INVARIANTS
    TypeOK
    NoLostEdit
    ConsumerTold
    GraphFollowsEdits
    QuietMeansFresh
