SPECIFICATION NotifySpec
CONSTANTS
    main = main
    lib = lib
    BUILD = BUILD
    libBUILD = libBUILD
    defs = defs
    rootDir = rootDir
    libDir = libDir
    toolsDir = toolsDir
    app = app
    web = web
    api = api
    core = core
    NoFile = NoFile
    SourceFiles <- MCSourceFiles
    BuildFiles <- MCBuildFiles
    Dirs <- MCDirs
    DirOf <- MCDirOf
    Rules <- MCRules
    Root = app
    Targets = {app}
    DeclaredIn <- MCDeclaredIn
    Loads <- MCLoads
    Globs <- MCGlobs
    RuleGraphs <- MCGrowingRuleGraphs
    Commands = {"run"}
    RunModes = {"notification"}
    Edits = {"write"}
    MaxEdits = 2
    AddMayFail = FALSE
    LoopFaults = {}
CHECK_DEADLOCK FALSE
INVARIANT EventListsAffected
