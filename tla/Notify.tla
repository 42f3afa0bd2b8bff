------------------------------- MODULE Notify --------------------------------
(***************************************************************************)
(* Notification mode end to end: the main loop, the owners of a change     *)
(* (ibazel.go: sourceOwnersFromGraph, changeImpact) and the program that   *)
(* is told of it (command/notify_command.go: NotifyOfChanges).             *)
(*                                                                         *)
(* The target that runs, Root, serves its direct rule dependencies, one    *)
(* workload each.  Every build event lists the direct targets its changes  *)
(* affect, and says whether the list is complete.                          *)
(***************************************************************************)
EXTENDS IBazel

CONSTANTS
    Root   \* the rule ibazel runs

\* A label is no path, and what a BUILD file loads declares no rules itself.
ASSUME NotifyAssumption ==
    /\ Root \in Rules
    /\ Targets = {Root}
    /\ Rules \cap BuildFiles = {}
    /\ \A r, s \in Rules : DeclaredIn[r] \notin Loads[s]

VARIABLES
    queriedDeps,     \* deps in the answer of the last `cquery deps(...)`
    directTargets,   \* IBazel.directTargets: the rule inputs of Root
    changeOwners,    \* IBazel.changeOwners, {} for a path that is not in it
    ownershipReady   \* IBazel.ownershipReady

\* The program that is told.  It keeps a workload per direct target, made from a build.
VARIABLES
    stale,    \* direct targets with a file changed since the build their workload is of
    touched,  \* those with a file changed since the present build began
    due,      \* targets listed by the events of failed builds, to be updated at a success
    lapsed    \* history: a change may have escaped the queries, the watches or directTargets

ownerVars    == <<queriedDeps, directTargets, changeOwners, ownershipReady>>
consumerVars == <<stale, touched, due>>
notifyVars   == <<vars, ownerVars, consumerVars, lapsed>>

NotifyTypeOK ==
    /\ TypeOK
    /\ queriedDeps \in RuleGraphs
    /\ directTargets \subseteq Rules \cup SourceFiles
    /\ changeOwners \in [Files -> SUBSET Rules]
    /\ {ownershipReady, lapsed} \subseteq BOOLEAN
    /\ stale \subseteq Rules
    /\ touched \subseteq Rules
    /\ due \subseteq Rules

NotifyInit ==
    /\ Init
    /\ queriedDeps = deps
    /\ directTargets = {}
    /\ changeOwners = [f \in Files |-> {}]
    /\ ownershipReady = FALSE
    /\ stale = {} /\ touched = {} /\ due = {}
    /\ lapsed = FALSE

\* The direct targets of d that depend on file f.
Affected(d, f) == {t \in d[Root] \cap Rules : f \in FilesUnder[d][t]}

(***************************************************************************)
(* Ownership.                                                              *)
(***************************************************************************)

\* sourceOwnersFromGraph: the direct targets that the query reported and that reach f as
\* a source or a rule located in f.  A path that does not resolve gets no owner.
OwnersIn(d, f) ==
    {t \in directTargets \cap Reached[d][Root] :
        f \in exists /\ \E s \in Reached[d][t] : f \in d[s] \/ f = DeclaredIn[s]}

\* changeImpact: a change without an owner makes the list incomplete.
ChangeImpact ==
    IF ~ownershipReady \/ pendingChanges = {}
    THEN [targets |-> {}, complete |-> FALSE]
    ELSE LET paths == {c.path : c \in pendingChanges} IN
         [targets  |-> UNION {changeOwners[f] : f \in paths \cap Files},
          complete |-> \A f \in paths : f \in Files /\ changeOwners[f] # {}]

\* setupRun takes the direct targets from the answer of queryRule, once.
SetupRun(mode) ==
    /\ PrepareRun(mode)
    /\ directTargets' = deps[Root]
    /\ UNCHANGED <<queriedDeps, changeOwners, ownershipReady, consumerVars, lapsed>>

QueryDeps ==
    /\ QueryTargets
    /\ queriedDeps' = deps
    /\ UNCHANGED <<directTargets, changeOwners, ownershipReady, consumerVars, lapsed>>

\* What happens to a file that could not be watched escapes.
SomeEscape(w, wanted) == \E f \in wanted : ~Effective(w, f)'

WatchBuilds ==
    /\ WatchBuildFiles
    /\ lapsed' = (lapsed \/ SomeEscape("build", targetGraph \cap BuildFiles))
    /\ UNCHANGED <<ownerVars, consumerVars>>

\* The sources are resolved and the owners follow from them; or that fails, and the old
\* owners stay.
WatchSources ==
    /\ WatchSourceFiles
    /\ \/ /\ filesWatched'["source"] = targetGraph \cap SourceFiles \cap exists
          /\ ownershipReady' = (directTargets # {})
          /\ changeOwners' = [f \in Files |-> OwnersIn(queriedDeps, f)]
          /\ lapsed' = (lapsed \/ SomeEscape("source", targetGraph \cap SourceFiles))
       \/ /\ "resolve" \in LoopFaults /\ filesWatched'["source"] = {}
          /\ UNCHANGED <<ownershipReady, changeOwners>>
          /\ lapsed' = TRUE
    /\ UNCHANGED <<queriedDeps, directTargets, consumerVars>>

QueryLapses ==
    /\ QueryFails
    /\ lapsed' = TRUE
    /\ UNCHANGED <<ownerVars, consumerVars>>

(***************************************************************************)
(* The build events and the program that reads them.                       *)
(***************************************************************************)

BuildStarted ==
    /\ RunBegin
    /\ touched' = {}
    /\ UNCHANGED <<ownerVars, stale, due, lapsed>>

\* How `bazel build` ends inside NotifyOfChanges, which does not return it to the loop.
Builds == {TRUE} \cup (IF "command" \in LoopFaults THEN {FALSE} ELSE {})

\* The workloads to update: those listed when the list is complete, else all.
ToUpdate == due \cup (IF ChangeImpact.complete THEN ChangeImpact.targets ELSE Rules)

\* Mutant of BuildCompleted: a failed build sends no event.
BuildCompletedOrNot ==
    /\ RunEnd
    /\ IF executionMode # "notification"
       THEN stale' = touched /\ due' = {}
       ELSE \E success \in Builds :
            IF success THEN stale' = (stale \ ToUpdate) \cup touched /\ due' = {}
                       ELSE UNCHANGED <<stale, due>>
    /\ UNCHANGED <<ownerVars, touched, lapsed>>

\* In notification mode an IBAZEL_EVENT, of a success or a failure; before that, the
\* start of the program or the restart of one that is not told anything.
BuildCompleted ==
    /\ RunEnd
    /\ IF executionMode # "notification"
       THEN stale' = touched /\ due' = {}
       ELSE \E success \in Builds :
            IF success THEN stale' = (stale \ ToUpdate) \cup touched /\ due' = {}
                       ELSE due' = ToUpdate /\ UNCHANGED stale
    /\ UNCHANGED <<ownerVars, touched, lapsed>>

\* The direct targets that are of other files after an edit.
Regrouped == {t \in deps'[Root] \cap Rules : FilesUnder[deps'][t] # FilesUnder[deps][t]}

\* What a glob() finds or loses once the program is told escapes: the event of a new file is
\* dropped (ibazel.go:311), and the next query forgets a lost one.
FileChanges(f) ==
    /\ EnvStep(f)
    /\ LET affected == IF version' = version THEN {}
                       ELSE Affected(deps, f) \cup Affected(deps', f) \cup Regrouped
       IN stale' = stale \cup affected /\ touched' = touched \cup affected
    /\ lapsed' = \/ lapsed
                 \/ executionMode = "notification" /\ ~At("QUERY", "begin") /\ missed' # missed
                 \/ executionMode = "notification" /\ FoundOrLost(f) # {}
                 \/ state # "PREPARE" /\ deps'[Root] \cap Rules # deps[Root] \cap Rules
    /\ UNCHANGED <<ownerVars, due>>

\* What happens in a directory that was deleted and comes back escapes.
DirVanishes(d) ==
    /\ RemoveDir(d)
    /\ lapsed' = (lapsed \/ \E w \in Watchers : d \in kernel[w])
    /\ UNCHANGED <<loopVars, history, ownerVars, consumerVars>>

Elsewhere ==
    /\ \/ QueryRuleFails \/ QueryBuildFiles
       \/ WaitSource \/ WaitBuild
       \/ DebounceRunEvent \/ DebounceQueryEvent \/ DebounceTimeout
    /\ UNCHANGED <<ownerVars, consumerVars, lapsed>>

NotifyLoop ==
    \/ \E mode \in RunModes : SetupRun(mode)
    \/ QueryDeps \/ QueryLapses
    \/ WatchBuilds \/ WatchSources
    \/ BuildStarted \/ BuildCompleted
    \/ Elsewhere

NotifyNext ==
    \/ NotifyLoop
    \/ \E f \in Files : FileChanges(f)
    \/ \E d \in Dirs : DirVanishes(d)

NotifySpec == NotifyInit /\ [][NotifyNext]_notifyVars /\ WF_notifyVars(NotifyLoop)

(***************************************************************************)
(* Properties.                                                             *)
(***************************************************************************)

\* A program that updates only the workloads an event lists when the event says its list
\* is complete, and all of them when it does not (README.md:111), is never left with a
\* workload of old files: when the loop is quiet and the last build succeeded, every
\* workload is of the present files, provided that no query failed, no change escaped the
\* watches, no glob() came to find other files and the program has the direct targets it
\* started with.
ConsumerUpToDate ==
    Quiet /\ executionMode = "notification" /\ ~lapsed /\ due = {} => stale = {}

(***************************************************************************)
(* What the documentation says and the code does not do.                   *)
(***************************************************************************)

\* README.md:103: "Events include the direct targets whose dependency graphs contain the
\* changed files", and the list is marked complete.  setupRun asks for the direct targets
\* once, before the program starts (ibazel.go:472): one added later is never listed.
EventListsAffected ==
    At("RUN", "running") /\ executionMode = "notification" /\ ChangeImpact.complete =>
        \A c \in pendingChanges : Affected(queriedDeps, c.path) \subseteq ChangeImpact.targets

=============================================================================
