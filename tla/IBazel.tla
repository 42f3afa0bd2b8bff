------------------------------- MODULE IBazel -------------------------------
(***************************************************************************)
(* The main loop of ibazel (internal/ibazel/ibazel.go): one goroutine that *)
(* runs iteration() for ever.  It waits for file events, debounces them,   *)
(* queries Bazel for the files to watch, installs the watches and runs the *)
(* command.  The file system and the watchers run concurrently with it:    *)
(* they act between any two steps of the loop, also while a query or a     *)
(* build is in progress, which is why QUERY and RUN take several steps.    *)
(***************************************************************************)
EXTENDS FSNotify

CONSTANTS
    Commands,   \* the ibazel commands considered: a subset of CommandNames
    RunModes,   \* the rule's tags ask for "default" or "notification" run mode
    LoopFaults  \* what may fail: a subset of {"query", "resolve", "command"}

CommandNames == {"build", "test", "coverage", "run"}

ASSUME IBazelAssumption ==
    /\ Commands \subseteq CommandNames
    /\ RunModes \subseteq {"default", "notification"}
    /\ LoopFaults \subseteq {"query", "resolve", "command"}

States == {"PREPARE", "QUERY", "RUN", "WAIT", "DEBOUNCE_QUERY", "DEBOUNCE_RUN", "EXITED"}
ExecutionModes == {"default", "defaultStartup", "notificationStartup", "notification"}
Steps  == {"begin", "targetsQueried", "queried", "buildWatched", "running"}
Change == [path : Files \cup {NoFile}, kind : {"source", "graph"}]
\* How a command may end.
Outcomes == {"success"} \cup (IF "command" \in LoopFaults THEN {"failure"} ELSE {})

VARIABLES
    commandName,     \* loop()'s command
    state,           \* IBazel.state; PREPARE is prepareRun, EXITED is osExit
    step,            \* how far the current QUERY or RUN iteration got
    executionMode,   \* IBazel.executionMode
    pendingChanges,  \* IBazel.pendingChanges (changeDetected keeps them distinct)
    filesWatched,    \* IBazel.filesWatched, per watcher
    targetGraph      \* the files found by the last query

\* History: what has been read, built and told.  No action reads these.
VARIABLES
    built,        \* per file: the version the last command began with
    told,         \* per file: the version the last NotifyOfChanges accounted for
    queried,      \* per BUILD file: the version the last successful query read
    missed,       \* BUILD files changed since that query, outside every watch
    globbed,      \* sources a glob() found or lost since that query, with no BUILD file changed
    queryFailed   \* the last query failed

history  == <<built, told, queried, missed, globbed, queryFailed>>
loopVars == <<commandName, state, step, executionMode, pendingChanges,
              filesWatched, targetGraph>>
vars     == <<treeVars, fsVars, loopVars, history>>

TypeOK ==
    /\ TreeTypeOK
    /\ FSTypeOK
    /\ commandName \in Commands
    /\ state \in States
    /\ step \in Steps
    /\ executionMode \in ExecutionModes
    /\ pendingChanges \subseteq Change
    /\ filesWatched \in [Watchers -> SUBSET Files]
    /\ targetGraph \subseteq Files
    /\ built \in [Files -> Nat]
    /\ told \in [Files -> Nat]
    /\ queried \in [BuildFiles -> Nat]
    /\ missed \subseteq BuildFiles
    /\ globbed \subseteq SourceFiles
    /\ queryFailed \in BOOLEAN

\* Run, Build, Test and Coverage set the first state.
Init ==
    /\ TreeInit
    /\ FSInit
    /\ commandName \in Commands
    /\ state = IF commandName = "run" THEN "PREPARE" ELSE "QUERY"
    /\ step = "begin"
    /\ executionMode = "default"
    /\ pendingChanges = {}
    /\ filesWatched = [w \in Watchers |-> {}]
    /\ targetGraph = {}
    /\ built = version
    /\ told = version
    /\ queried = [f \in BuildFiles |-> 0]
    /\ missed = {}
    /\ globbed = {}
    /\ queryFailed = FALSE

At(s, p) == state = s /\ step = p

(***************************************************************************)
(* prepareRun: queryRule decides the run mode from the rule's tags.        *)
(***************************************************************************)

PrepareRun(mode) ==
    /\ state = "PREPARE"
    /\ IF mode = "notification"
       THEN executionMode' = "notificationStartup" /\ state' = "RUN"
       ELSE executionMode' = "defaultStartup" /\ state' = "QUERY"
    /\ UNCHANGED <<treeVars, fsVars, commandName, step, pendingChanges,
                   filesWatched, targetGraph, history>>

\* queryRule failed: osExit(4).  test, which coverage calls too, begins with queryRule.
QueryRuleFails ==
    /\ "query" \in LoopFaults
    /\ \/ state = "PREPARE"
       \/ At("RUN", "begin") /\ commandName \in {"test", "coverage"}
    /\ state' = "EXITED"
    /\ UNCHANGED <<treeVars, fsVars, commandName, step, executionMode,
                   pendingChanges, filesWatched, targetGraph, history>>

(***************************************************************************)
(* WAIT and the two DEBOUNCE states.                                       *)
(***************************************************************************)

\* The filter on an event taken from watcher w.
Relevant(w, e) == e.name \in filesWatched[w] /\ e.modifying

ChangeDetected(kind, f) ==
    pendingChanges' = pendingChanges \cup {[path |-> f, kind |-> kind]}

\* Mutant of KindOf: the change is given the name of its watcher.
KindOfWatcher(w) == w

KindOf(w) == IF w = "build" THEN "graph" ELSE "source"

\* `case e := <-w.Events()`: a relevant event is recorded and moves the loop on to
\* state `next`; any other is dropped and leaves the state as it is.
TakeEvent(w, next) ==
    /\ Receive(w)
    /\ LET e == Head(events[w]) IN
       IF Relevant(w, e)
       THEN ChangeDetected(KindOf(w), e.name) /\ state' = next
       ELSE UNCHANGED <<pendingChanges, state>>
    /\ UNCHANGED <<treeVars, commandName, step, executionMode, filesWatched,
                   targetGraph, history>>

WaitSource         == state = "WAIT" /\ TakeEvent("source", "DEBOUNCE_RUN")
WaitBuild          == state = "WAIT" /\ TakeEvent("build", "DEBOUNCE_QUERY")
\* Mutant of DebounceRunEvent: a second event sends the loop back to WAIT.
DebounceRunEventWaits == state = "DEBOUNCE_RUN" /\ TakeEvent("source", "WAIT")


DebounceRunEvent   == state = "DEBOUNCE_RUN" /\ TakeEvent("source", "DEBOUNCE_RUN")
DebounceQueryEvent == state = "DEBOUNCE_QUERY" /\ TakeEvent("build", "DEBOUNCE_QUERY")

\* Mutant of DebounceTimeout: both debounce states lead to RUN.
DebounceTimeoutRuns ==
    /\ state \in {"DEBOUNCE_RUN", "DEBOUNCE_QUERY"}
    /\ state' = "RUN"
    /\ UNCHANGED <<treeVars, fsVars, commandName, step, executionMode,
                   pendingChanges, filesWatched, targetGraph, history>>

\* `case <-time.After(i.debounceDuration)`
DebounceTimeout ==
    /\ \/ state = "DEBOUNCE_RUN" /\ state' = "RUN"
       \/ state = "DEBOUNCE_QUERY" /\ state' = "QUERY"
    /\ UNCHANGED <<treeVars, fsVars, commandName, step, executionMode,
                   pendingChanges, filesWatched, targetGraph, history>>

(***************************************************************************)
(* QUERY.                                                                  *)
(***************************************************************************)

\* queryForBuildFiles first asks for the dependencies of the targets, `cquery deps(...)`.
\* Its answers are held in local variables until both are there.
QueryTargets ==
    /\ At("QUERY", "begin")
    /\ step' = "targetsQueried"
    /\ targetGraph' = graph
    /\ queried' = [f \in BuildFiles |-> version[f]]
    /\ missed' = {}
    /\ globbed' = {}
    /\ queryFailed' = FALSE
    /\ UNCHANGED <<treeVars, fsVars, commandName, state, executionMode,
                   pendingChanges, filesWatched, built, told>>

\* Then for `buildfiles(...)` of the rules it was given.  If the graph changed in between,
\* these are the BUILD files of both graphs, and any of those of one.
QueryBuildFiles ==
    /\ At("QUERY", "targetsQueried")
    /\ step' = "queried"
    /\ \E found \in SUBSET (BuildFiles \cap (targetGraph \cup graph)) :
        /\ BuildFiles \cap targetGraph \cap graph \subseteq found
        /\ targetGraph' = (targetGraph \cap SourceFiles) \cup found
    /\ UNCHANGED <<treeVars, fsVars, commandName, state, executionMode,
                   pendingChanges, filesWatched, history>>

\* Either fails: the error is logged, the watches stay as they were, and the command runs.
QueryFails ==
    /\ "query" \in LoopFaults
    /\ At("QUERY", "begin") \/ At("QUERY", "targetsQueried")
    /\ state' = "RUN"
    /\ step' = "begin"
    /\ queryFailed' = TRUE
    /\ UNCHANGED <<treeVars, fsVars, commandName, executionMode,
                   pendingChanges, filesWatched, targetGraph, built, told,
                   queried, missed, globbed>>

\* watchFiles: a file that EvalSymlinks cannot resolve is skipped; the directories of
\* the others are watched.
WatchFiles(toWatch, w) ==
    LET present == toWatch \cap exists IN
    /\ UpdateAll(w, {DirOf[f] : f \in present})
    /\ filesWatched' = [filesWatched EXCEPT ![w] = present]
    /\ UNCHANGED <<treeVars, events>>

WatchBuildFiles ==
    /\ At("QUERY", "queried")
    /\ WatchFiles(targetGraph \cap BuildFiles, "build")
    /\ step' = "buildWatched"
    /\ UNCHANGED <<commandName, state, executionMode, pendingChanges,
                   targetGraph, history>>

\* The paths sourceFilesFromGraph may find: none when it fails (sourceErr).
SourceFilesFromGraph ==
    {targetGraph \cap SourceFiles} \cup (IF "resolve" \in LoopFaults THEN {{}} ELSE {})

\* Mutant of WatchSourceFiles: no command follows the new watches.
WatchSourceFilesWaits ==
    /\ At("QUERY", "buildWatched")
    /\ \E toWatch \in SourceFilesFromGraph : WatchFiles(toWatch, "source")
    /\ state' = "WAIT"
    /\ step' = "begin"
    /\ UNCHANGED <<commandName, executionMode, pendingChanges, targetGraph, history>>


WatchSourceFiles ==
    /\ At("QUERY", "buildWatched")
    /\ \E toWatch \in SourceFilesFromGraph : WatchFiles(toWatch, "source")
    /\ state' = "RUN"
    /\ step' = "begin"
    /\ UNCHANGED <<commandName, executionMode, pendingChanges, targetGraph, history>>

(***************************************************************************)
(* RUN.                                                                    *)
(***************************************************************************)

\* NotifyOfChanges is told pendingChanges; a graph change stands for any file.
Accounted(f) == \E c \in pendingChanges : c.path = f \/ c.kind = "graph"

\* commandToRun begins: Bazel reads the files no earlier than this.
RunBegin ==
    /\ At("RUN", "begin")
    /\ step' = "running"
    /\ built' = version
    /\ told' = IF executionMode = "notification"
               THEN [f \in Files |-> IF Accounted(f) THEN version[f] ELSE told[f]]
               ELSE version
    /\ UNCHANGED <<treeVars, fsVars, commandName, state, executionMode, pendingChanges,
                   filesWatched, targetGraph, queried, missed, globbed, queryFailed>>

\* Mutant of ModeAfter: the mode stays a startup mode.
ModeAfterStartsAgain(o) ==
    IF executionMode = "defaultStartup" /\ o = "success" THEN "default" ELSE executionMode

\* executionMode after the command and after iteration()'s own switch.
ModeAfter(o) ==
    CASE executionMode = "defaultStartup" /\ o = "success" -> "default"
      [] executionMode = "notificationStartup" -> "notification"
      [] OTHER -> executionMode

\* Mutant of RunEnd: the catch-up build is given no change.
RunEndForgets ==
    /\ At("RUN", "running")
    /\ step' = "begin"
    /\ \E o \in Outcomes : executionMode' = ModeAfter(o)
    /\ state' = IF executionMode = "notificationStartup" THEN "QUERY" ELSE "WAIT"
    /\ pendingChanges' = {}
    /\ UNCHANGED <<treeVars, fsVars, commandName, filesWatched, targetGraph, built,
                   told, queried, missed, globbed, queryFailed>>

\* The command returns, pendingChanges is reset, and a notification-mode start is followed
\* by a query and a catch-up build.
RunEnd ==
    /\ At("RUN", "running")
    /\ step' = "begin"
    /\ \E o \in Outcomes : executionMode' = ModeAfter(o)
    /\ IF executionMode = "notificationStartup"
       THEN state' = "QUERY" /\ pendingChanges' = {[path |-> NoFile, kind |-> "graph"]}
       ELSE state' = "WAIT" /\ pendingChanges' = {}
    /\ UNCHANGED <<treeVars, fsVars, commandName, filesWatched, targetGraph, built,
                   told, queried, missed, globbed, queryFailed>>

LoopNext ==
    \/ \E mode \in RunModes : PrepareRun(mode)
    \/ QueryRuleFails
    \/ WaitSource \/ WaitBuild
    \/ DebounceRunEvent \/ DebounceQueryEvent \/ DebounceTimeout
    \/ QueryTargets \/ QueryBuildFiles \/ QueryFails
    \/ WatchBuildFiles \/ WatchSourceFiles
    \/ RunBegin \/ RunEnd

\* For `globbed`: what rules no longer or newly depend on although f does not declare them.
FoundOrLost(f) ==
    UNION {(deps'[r] \ deps[r]) \cup (deps[r] \ deps'[r]) : r \in {s \in Rules : f \notin Declares(s)}}

\* An edit; for `missed`, whether it is one of a BUILD file that no watch sees.
EnvStep(f) ==
    /\ WriteFile(f) \/ TouchFile(f) \/ RemoveFile(f) \/ CreateFile(f)
    /\ missed' = IF /\ f \in BuildFiles
                    /\ version'[f] # version[f]
                    /\ DirOf[f] \notin kernel["build"]
                 THEN missed \cup {f} ELSE missed
    /\ globbed' = globbed \cup FoundOrLost(f)
    /\ UNCHANGED <<loopVars, built, told, queried, queryFailed>>

EnvNext ==
    \/ \E f \in Files : EnvStep(f)
    \/ \E d \in Dirs : RemoveDir(d) /\ UNCHANGED <<loopVars, history>>

Next == LoopNext \/ EnvNext

\* The loop never stops by itself: a queued event, a timer, a query and a command all
\* finish.  Nothing makes anybody edit a file.
Spec == Init /\ [][Next]_vars /\ WF_vars(LoopNext)

(***************************************************************************)
(* Properties.                                                             *)
(***************************************************************************)

\* A change of f reaches watcher w and passes the loop's filter.
Effective(w, f) == f \in filesWatched[w] /\ DirOf[f] \in kernel[w]

\* A command will begin before the loop waits again.
Committed == state \notin {"WAIT", "EXITED"} /\ step # "running"

\* No change of a watched source file is lost (iteration, ibazel.go:306): whatever the
\* loop does when it happens - waits, debounces, queries, replaces its watches or builds -
\* the file's contents were read by the last command, or an event for it is queued, or a
\* command will begin before the loop waits again.
NoLostEdit ==
    state # "EXITED" =>
        \A f \in SourceFiles : Effective("source", f) =>
            built[f] = version[f] \/ Queued("source", f) \/ Committed

\* A target kept alive in notification mode hears of every change of a watched source
\* file (notify_command.go:112): the build events so far accounted for the present
\* contents, or one still to come will.
ConsumerTold ==
    executionMode = "notification" =>
        \A f \in SourceFiles : Effective("source", f) =>
            told[f] = version[f] \/ Queued("source", f) \/ Accounted(f)

\* A query will read the BUILD files before the loop waits again.
HeadingToQuery == state = "DEBOUNCE_QUERY" \/ At("QUERY", "begin")

\* No change of a watched BUILD file is lost (iteration, ibazel.go:316-351), unless it
\* came before the watch or its query failed.
GraphFollowsEdits ==
    \/ queryFailed
    \/ \A f \in BuildFiles \ missed : Effective("build", f) =>
           queried[f] = version[f] \/ Queued("build", f) \/ HeadingToQuery

\* Nothing is left to do: the loop waits and no event is on its way.
Quiet == state = "WAIT" /\ \A w \in Watchers : events[w] = <<>>

\* Every file the loop means to watch is watched: no watch failed, no file or directory was
\* away when its turn came.
AllWatched == \A f \in targetGraph : \E w \in Watchers : Effective(w, f)

\* File f was built as it is, and is watched.
Fresh(f) == built[f] = version[f] /\ \E w \in Watchers : Effective(w, f)

\* The promise end to end: when the loop is quiet, no BUILD file was changed behind the
\* watches, no query failed and all that should be watched is, the graph it knows is the
\* graph there is and everything in it is built and watched.  The one exception is what a
\* glob() came to find since the query: the loop asks again for a BUILD file only, and the
\* event of a file it does not know is dropped (ibazel.go:311).
QuietMeansFresh ==
    Quiet /\ missed = {} /\ ~queryFailed /\ AllWatched =>
        /\ targetGraph \ globbed = graph \ globbed
        /\ \A f \in graph : Fresh(f) \/ f \in globbed \ targetGraph

\* Every change of a watched file is eventually built, as long as it stays watched.
EventuallyBuilt ==
    \A f \in SourceFiles :
        Effective("source", f) /\ built[f] # version[f]
            ~> built[f] = version[f] \/ ~Effective("source", f) \/ state = "EXITED"

\* Once editing stops, the loop comes to rest: it neither rebuilds nor queries for ever.
ComesToRest == <>[](state = "EXITED" \/ Quiet)

(***************************************************************************)
(* What the documentation says and the code does not do: a run finds it    *)
(* violated.                                                               *)
(***************************************************************************)

\* README.md:93: iBazel "installs the watchers afterward and sends a catch-up build ...
\* without missing changes".  Between the query's answer and the watches it leads to
\* (ibazel.go:336-341) nothing watches the BUILD files: a dependency added then is not
\* watched, and later changes to it are not built.
NothingMissed ==
    Quiet /\ executionMode = "notification" => \A f \in graph : built[f] = version[f]

=============================================================================
