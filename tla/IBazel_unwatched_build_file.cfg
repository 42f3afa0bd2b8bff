SPECIFICATION Spec
CONSTANTS
    main = main
    lib = lib
    BUILD = BUILD
    toolsBUILD = toolsBUILD
    app = app
    helper = helper
    rootDir = rootDir
    libDir = libDir
    toolsDir = toolsDir
    NoFile = NoFile
    SourceFiles <- MCSourceFiles
    BuildFiles <- MCBuildFiles
    Dirs <- MCDirs
    DirOf <- MCDirOf
    Rules <- MCRules
    Targets = {app}
    DeclaredIn <- MCDeclaredIn
    Loads <- MCLoads
    Globs <- MCGlobs
    RuleGraphs <- MCListingRuleGraphs
    Commands = {"run"}
    RunModes = {"notification"}
    Edits = {"write"}
    MaxEdits = 2
    AddMayFail = FALSE
    LoopFaults = {}
CHECK_DEADLOCK FALSE
INVARIANT NothingMissed
