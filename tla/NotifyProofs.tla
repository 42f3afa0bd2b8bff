---------------------------- MODULE NotifyProofs -----------------------------
(***************************************************************************)
(* Proofs about notification mode: that no workload of the program that    *)
(* is told is left with old files, for every workspace and rule graph.     *)
(***************************************************************************)
EXTENDS Notify, IBazelProofs

(***************************************************************************)
(* The steps and the types.                                                *)
(***************************************************************************)

\* Every step is one of the main loop or its environment, or leaves both alone.
LEMMA LoopSteps == [NotifyNext]_notifyVars => [Next]_vars
<1> SUFFICES ASSUME [NotifyNext]_notifyVars PROVE [Next]_vars
  OBVIOUS
<1>1. CASE NotifyLoop
  BY <1>1 DEF NotifyLoop, SetupRun, QueryDeps, QueryLapses, WatchBuilds, WatchSources, BuildStarted,
              BuildCompleted, Elsewhere, Next, LoopNext
<1>2. ASSUME NEW f \in Files, FileChanges(f) PROVE Next
  BY <1>2 DEF FileChanges, Next, EnvNext
<1>3. ASSUME NEW d \in Dirs, DirVanishes(d) PROVE Next
  BY <1>3 DEF DirVanishes, Next, EnvNext
<1>4. CASE UNCHANGED notifyVars
  BY <1>4 DEF notifyVars
<1> QED
  BY <1>1, <1>2, <1>3, <1>4 DEF NotifyNext

\* The initial state has the right types.
LEMMA NotifyTypeInit == NotifyInit => NotifyTypeOK
<1> SUFFICES ASSUME NotifyInit PROVE NotifyTypeOK
  OBVIOUS
<1>1. TypeOK
  BY TypeInit DEF NotifyInit
<1>2. deps \in RuleGraphs
  BY <1>1 DEF TypeOK, TreeTypeOK
<1> QED
  BY <1>1, <1>2 DEF NotifyInit, NotifyTypeOK

\* Owners are rules, and so are the targets of an event.
LEMMA TargetsAreRules ==
    ASSUME NotifyTypeOK
    PROVE  /\ \A d \in RuleGraphs, f \in Files : OwnersIn(d, f) \subseteq Rules
           /\ ToUpdate \subseteq Rules
           /\ \A d, f : Affected(d, f) \subseteq d[Root] \cap Rules
<1>1. ASSUME NEW d \in RuleGraphs, NEW f \in Files PROVE OwnersIn(d, f) \subseteq Rules
  BY ReachedIsLeast, NotifyAssumption DEF OwnersIn
<1>2. ToUpdate \subseteq Rules
  <2>1. due \subseteq Rules /\ \A f \in Files : changeOwners[f] \subseteq Rules
    BY DEF NotifyTypeOK
  <2>2. ChangeImpact.complete => ChangeImpact.targets \subseteq Rules
    <3>1. CASE ~ownershipReady \/ pendingChanges = {}
      BY <3>1 DEF ChangeImpact
    <3>2. CASE ~(~ownershipReady \/ pendingChanges = {})
      <4> DEFINE paths == {c.path : c \in pendingChanges}
      <4>1. ChangeImpact.targets = UNION {changeOwners[f] : f \in paths \cap Files}
        BY <3>2 DEF ChangeImpact
      <4> QED
        BY <2>1, <4>1
    <3> QED
      BY <3>1, <3>2
  <2> QED
    BY <2>1, <2>2 DEF ToUpdate
<1> QED
  BY <1>1, <1>2 DEF Affected

\* Every step keeps the types.
LEMMA NotifyTypeStep == NotifyTypeOK /\ [NotifyNext]_notifyVars => NotifyTypeOK'
<1> SUFFICES ASSUME NotifyTypeOK, [NotifyNext]_notifyVars PROVE NotifyTypeOK'
  OBVIOUS
<1>0. TypeOK /\ TypeOK'
  BY LoopSteps, TypeStep DEF NotifyTypeOK
<1>1. /\ deps \in RuleGraphs /\ deps' \in RuleGraphs
      /\ \A d \in RuleGraphs : d[Root] \subseteq Rules \cup SourceFiles
  BY <1>0, SourceTreeAssumption, NotifyAssumption DEF TypeOK, TreeTypeOK
<1>a. /\ queriedDeps \in RuleGraphs /\ directTargets \subseteq Rules \cup SourceFiles
      /\ changeOwners \in [Files -> SUBSET Rules]
      /\ ownershipReady \in BOOLEAN /\ lapsed \in BOOLEAN
      /\ stale \subseteq Rules /\ touched \subseteq Rules /\ due \subseteq Rules
  BY DEF NotifyTypeOK
<1>b. ASSUME queriedDeps' \in RuleGraphs, directTargets' \subseteq Rules \cup SourceFiles,
             changeOwners' \in [Files -> SUBSET Rules],
             ownershipReady' \in BOOLEAN, lapsed' \in BOOLEAN,
             stale' \subseteq Rules, touched' \subseteq Rules, due' \subseteq Rules
      PROVE  NotifyTypeOK'
  BY <1>0, <1>b DEF NotifyTypeOK
<1>2. ASSUME NEW mode \in RunModes, SetupRun(mode) PROVE NotifyTypeOK'
  BY <1>1, <1>2, <1>a, <1>b DEF SetupRun, consumerVars
<1>3. CASE QueryDeps
  BY <1>1, <1>3, <1>a, <1>b DEF QueryDeps, consumerVars
<1>4. CASE QueryLapses
  BY <1>4, <1>a, <1>b DEF QueryLapses, ownerVars, consumerVars
<1>5. CASE WatchBuilds
  BY <1>5, <1>a, <1>b DEF WatchBuilds, ownerVars, consumerVars
<1>6. CASE WatchSources
  <2>1. /\ ownershipReady' = (directTargets # {}) \/ ownershipReady' = ownershipReady
        /\ changeOwners' = [f \in Files |-> OwnersIn(queriedDeps, f)] \/ changeOwners' = changeOwners
        /\ lapsed' = (lapsed \/ SomeEscape("source", targetGraph \cap SourceFiles)) \/ lapsed' = TRUE
        /\ UNCHANGED <<queriedDeps, directTargets, consumerVars>>
    BY <1>6 DEF WatchSources
  <2>2. [f \in Files |-> OwnersIn(queriedDeps, f)] \in [Files -> SUBSET Rules]
    BY <1>a, TargetsAreRules
  <2>3. ownershipReady' \in BOOLEAN /\ lapsed' \in BOOLEAN
    BY <1>a, <2>1
  <2> QED
    BY <1>a, <1>b, <2>1, <2>2, <2>3 DEF consumerVars
<1>7. CASE BuildStarted
  BY <1>7, <1>a, <1>b DEF BuildStarted, ownerVars
<1>8. CASE BuildCompleted
  <2>1. ToUpdate \subseteq Rules
    BY TargetsAreRules
  <2>2. stale' \subseteq stale \cup touched /\ due' \subseteq Rules
    BY <1>8, <1>a, <2>1 DEF BuildCompleted
  <2> QED
    BY <1>8, <1>a, <1>b, <2>2 DEF BuildCompleted, ownerVars
<1>9. CASE Elsewhere
  BY <1>9, <1>a, <1>b DEF Elsewhere, ownerVars, consumerVars
<1>10. ASSUME NEW f \in Files, FileChanges(f) PROVE NotifyTypeOK'
  <2>1. stale' \subseteq Rules /\ touched' \subseteq Rules
    BY <1>10, <1>a, TargetsAreRules DEF FileChanges, Regrouped
  <2> QED
    BY <1>10, <1>a, <1>b, <2>1 DEF FileChanges, ownerVars
<1>11. ASSUME NEW d \in Dirs, DirVanishes(d) PROVE NotifyTypeOK'
  BY <1>11, <1>a, <1>b DEF DirVanishes, ownerVars, consumerVars
<1>12. CASE UNCHANGED notifyVars
  BY <1>12, <1>a, <1>b DEF notifyVars, ownerVars, consumerVars
<1> QED
  BY <1>2, <1>3, <1>4, <1>5, <1>6, <1>7, <1>8, <1>9, <1>10, <1>11, <1>12 DEF NotifyNext, NotifyLoop

\* Type correctness of notification mode: the owners of changes, the direct targets and the
\* workloads are rules of the workspace at all times.
THEOREM NotifyTypeCorrect == NotifySpec => []NotifyTypeOK
<1>1. NotifyInit => NotifyTypeOK
  BY NotifyTypeInit
<1>2. NotifyTypeOK /\ [NotifyNext]_notifyVars => NotifyTypeOK'
  BY NotifyTypeStep
<1> QED
  BY <1>1, <1>2, PTL DEF NotifySpec

(***************************************************************************)
(* The files of one target in several graphs.                              *)
(***************************************************************************)

\* Three graphs in which the rules differ only where a BUILD file changed: target t has the
\* same files in all of them, or a file that changed is one of t's in all of them.
LEMMA TargetsAgree ==
    ASSUME NEW c \in RuleGraphs, NEW d \in RuleGraphs, NEW e \in RuleGraphs,
           NEW t \in Rules, NEW changed,
           \A r \in Rules : d[r] # c[r] \/ e[r] # c[r] => \E f \in Declares(r) : f \in changed
    PROVE  \/ FilesUnder[d][t] = FilesUnder[c][t] /\ FilesUnder[e][t] = FilesUnder[c][t]
           \/ \E f \in FilesUnder[c][t] \cap FilesUnder[d][t] \cap FilesUnder[e][t] \cap BuildFiles :
                  f \in changed
<1> DEFINE S == Reached[c][t] \cap Reached[d][t] \cap Reached[e][t]
<1>1. S \subseteq Rules /\ t \in S
  BY ReachedIsLeast
<1>2. CASE \E r \in S : d[r] # c[r] \/ e[r] # c[r]
  <2>1. PICK r \in S : d[r] # c[r] \/ e[r] # c[r]
    BY <1>2
  <2>2. PICK f \in Declares(r) : f \in changed
    BY <1>1, <2>1
  <2>3. f \in BuildFiles
    BY <1>1, <2>1, <2>2, SourceTreeAssumption DEF Declares
  <2>4. f \in FilesUnder[c][t] /\ f \in FilesUnder[d][t] /\ f \in FilesUnder[e][t]
    BY <2>1, <2>2, FilesUnderDef
  <2> QED
    BY <2>2, <2>3, <2>4
<1>3. CASE \A r \in S : d[r] = c[r] /\ e[r] = c[r]
  <2>1. /\ \A q \in Reached[c][t] : c[q] \cap Rules \subseteq Reached[c][t]
        /\ \A q \in Reached[d][t] : d[q] \cap Rules \subseteq Reached[d][t]
        /\ \A q \in Reached[e][t] : e[q] \cap Rules \subseteq Reached[e][t]
    BY ReachedIsLeast
  <2>2. \A q \in S : /\ c[q] \cap Rules \subseteq S
                     /\ d[q] \cap Rules \subseteq S /\ e[q] \cap Rules \subseteq S
    BY <1>3, <2>1
  <2>3. S \in SUBSET Rules
    BY <1>1
  <2>4. Reached[c][t] \subseteq S /\ Reached[d][t] \subseteq S /\ Reached[e][t] \subseteq S
    <3> HIDE DEF S
    <3> QED
      BY <1>1, <2>2, <2>3, ReachedIsLeast
  <2>5. Reached[c][t] = S /\ Reached[d][t] = S /\ Reached[e][t] = S
    BY <2>4
  <2> HIDE DEF S
  <2>6. UNION {Declares(s) \cup (d[s] \cap SourceFiles) : s \in S}
            = UNION {Declares(s) \cup (c[s] \cap SourceFiles) : s \in S}
    BY <1>3
  <2>7. UNION {Declares(s) \cup (e[s] \cap SourceFiles) : s \in S}
            = UNION {Declares(s) \cup (c[s] \cap SourceFiles) : s \in S}
    BY <1>3
  <2>8. /\ FilesUnder[c][t] = UNION {Declares(s) \cup (c[s] \cap SourceFiles) : s \in S}
        /\ FilesUnder[d][t] = UNION {Declares(s) \cup (d[s] \cap SourceFiles) : s \in S}
        /\ FilesUnder[e][t] = UNION {Declares(s) \cup (e[s] \cap SourceFiles) : s \in S}
    BY <2>5, FilesUnderDef
  <2> QED
    BY <2>6, <2>7, <2>8
<1> QED
  BY <1>2, <1>3

\* A direct target of Root brings its files into the graph.
LEMMA DirectFiles ==
    ASSUME NEW d \in RuleGraphs, NEW t \in d[Root] \cap Rules
    PROVE  /\ t \in Reached[d][Root] /\ FilesUnder[d][t] \subseteq GraphOf(d)
           /\ FilesUnder[d][t] \subseteq Files
<1>1. /\ Root \in Reached[d][Root] /\ Root \in Rules
      /\ \A q \in Reached[d][Root] : d[q] \cap Rules \subseteq Reached[d][Root]
      /\ Reached[d][Root] \in SUBSET Rules
  BY ReachedIsLeast, NotifyAssumption
<1>2. t \in Reached[d][Root]
  BY <1>1
<1>3. Reached[d][t] \subseteq Reached[d][Root]
  BY <1>1, <1>2, ReachedIsLeast
<1>4. FilesUnder[d][t] \subseteq FilesUnder[d][Root]
  BY <1>1, <1>3, FilesUnderDef
<1>5. GraphOf(d) = FilesUnder[d][Root]
  BY NotifyAssumption DEF GraphOf
<1> QED
  BY <1>2, <1>4, <1>5, GraphInFiles

(***************************************************************************)
(* The inductive invariant.                                                *)
(***************************************************************************)

\* The build at hand is for a graph change without a path: the catch-up build, or none yet.
CatchUp == \E c \in pendingChanges : c.path = NoFile

\* The program is told of changes, and none escaped.
Active == executionMode = "notification" /\ ~lapsed /\ state # "EXITED"

\* A query of this mode has been answered.
Answered == Active /\ (At("QUERY", "begin") => ~CatchUp)

\* setupRun sets the mode and the direct targets; a quiet loop has nothing to report.
ModeInv ==
    /\ state = "PREPARE" => executionMode = "default"
    /\ state = "WAIT" => pendingChanges = {}

\* The direct targets are those of Root, and the workloads to worry about are theirs.
ServedInv ==
    executionMode \in {"notificationStartup", "notification"} /\ ~lapsed =>
        /\ directTargets \cap Rules = deps[Root] \cap Rules
        /\ step = "running" => touched \subseteq directTargets
        /\ executionMode = "notification" => stale \subseteq directTargets

\* A change that no watch sees, or a query that fails, counts only until the next query.
CleanInv == Active /\ ~At("QUERY", "begin") => missed = {} /\ ~queryFailed

\* d is the graph of a time since the query: a file edited since explains each difference.
ReadSince(d) == \A r \in Rules : d[r] # queriedDeps[r] => \E f \in Declares(r) : Dirty(f)

\* What the loop means to watch: the sources of the first query's graph and the BUILD files
\* that are in it and in the graph of the second query.
AnswerInv ==
    Answered =>
        /\ queriedDeps[Root] \cap Rules = directTargets \cap Rules
        /\ ReadSince(deps)
        /\ GraphOf(queriedDeps) \cap SourceFiles \subseteq targetGraph
        /\ At("QUERY", "targetsQueried") => targetGraph = GraphOf(queriedDeps)
        /\ \E d \in RuleGraphs :
              /\ ReadSince(d) /\ d[Root] \cap Rules = directTargets \cap Rules
              /\ GraphOf(queriedDeps) \cap GraphOf(d) \cap BuildFiles \subseteq targetGraph

\* All that is watched, except while the watches are being replaced.
WatchInv ==
    Answered =>
        /\ ~GraphRead => \A f \in targetGraph \cap BuildFiles : Effective("build", f)
        /\ state # "QUERY" \/ step = "begin" =>
               \A f \in targetGraph \cap SourceFiles : Effective("source", f)

\* A change of f is among those of the next build.
Listed(f) == \E c \in pendingChanges : c.path = f

\* When a query is about to begin, every edit since the last one led to it or is queued.
EditsInv ==
    Answered /\ HeadingToQuery =>
        \A f \in targetGraph \cap BuildFiles : Dirty(f) => Queued("build", f) \/ Listed(f)

\* An event of f is on its way to the watcher that listens to it.
OnItsWay(f) ==
    \/ f \in BuildFiles /\ Queued("build", f)
    \/ f \in SourceFiles /\ Queued("source", f)

\* The files of target t, as the loop knows them, that it means to watch.
KnownFiles(t) == FilesUnder[queriedDeps][t] \cap targetGraph

\* Target t will be listed at a success: it already is, all are, or a file of its is to blame.
Covered(t) ==
    \/ t \in due \/ CatchUp
    \/ \E f \in KnownFiles(t) : OnItsWay(f) \/ Listed(f)

\* Every stale workload will be listed; what changes during a build is on its way; and while
\* new watches are about to be installed, so is every target with a source not yet watched.
CoverInv ==
    Active =>
        /\ \A t \in stale : Covered(t)
        /\ step = "running" => \A t \in touched : \E f \in KnownFiles(t) : OnItsWay(f)
        /\ state = "QUERY" /\ step # "begin" =>
              \A t \in directTargets \cap Rules :
                  Covered(t) \/ \A f \in FilesUnder[queriedDeps][t] \cap SourceFiles :
                                    Effective("source", f)

\* The direct targets that own f in the graph of the last query.
Owners(f) ==
    {t \in directTargets \cap Reached[queriedDeps][Root] :
        \E s \in Reached[queriedDeps][t] : f \in queriedDeps[s] \/ f = DeclaredIn[s]}

\* Outside a query, the owners are those of its graph or nobody.
OwnersInv ==
    Active /\ state # "QUERY" => \A f \in Files : changeOwners[f] \in {{}, Owners(f)}

NotifyInv ==
    /\ ModeInv /\ ServedInv /\ CleanInv
    /\ AnswerInv /\ WatchInv /\ EditsInv
    /\ CoverInv /\ OwnersInv

\* What holds of the main loop at every step.
LoopInv == StepOK /\ GraphInv /\ FreshInv

\* The files of a direct target are those the loop knows, and all of them are meant to be
\* watched; or a BUILD file of the target is, and was edited since the query.
LEMMA KnownTarget ==
    ASSUME NotifyTypeOK, ServedInv, AnswerInv, Answered, NEW t \in directTargets \cap Rules
    PROVE  \/ /\ FilesUnder[queriedDeps][t] = FilesUnder[deps][t]
              /\ FilesUnder[queriedDeps][t] \subseteq targetGraph
           \/ \E h \in KnownFiles(t) \cap FilesUnder[deps][t] \cap BuildFiles : Dirty(h)
<1>1. /\ queriedDeps \in RuleGraphs /\ deps \in RuleGraphs
      /\ deps[Root] \cap Rules = directTargets \cap Rules /\ queriedDeps[Root] \cap Rules = directTargets \cap Rules
      /\ ReadSince(deps) /\ GraphOf(queriedDeps) \cap SourceFiles \subseteq targetGraph
  BY DEF NotifyTypeOK, TypeOK, TreeTypeOK, ServedInv, AnswerInv, Answered, Active
<1>2. PICK d \in RuleGraphs :
          /\ ReadSince(d) /\ d[Root] \cap Rules = directTargets \cap Rules
          /\ GraphOf(queriedDeps) \cap GraphOf(d) \cap BuildFiles \subseteq targetGraph
  BY DEF AnswerInv
<1> DEFINE changed == {f \in BuildFiles : Dirty(f)}
<1>3. \A r \in Rules : d[r] # queriedDeps[r] \/ deps[r] # queriedDeps[r]
          => \E f \in Declares(r) : f \in changed
  BY <1>1, <1>2, SourceTreeAssumption DEF ReadSince, Declares
<1>4. /\ FilesUnder[queriedDeps][t] \subseteq GraphOf(queriedDeps)
      /\ FilesUnder[d][t] \subseteq GraphOf(d)
      /\ FilesUnder[queriedDeps][t] \subseteq Files
  BY <1>1, <1>2, DirectFiles
<1>5. t \in Rules
  OBVIOUS
<1>6. \/ /\ FilesUnder[d][t] = FilesUnder[queriedDeps][t]
         /\ FilesUnder[deps][t] = FilesUnder[queriedDeps][t]
      \/ \E f \in FilesUnder[queriedDeps][t] \cap FilesUnder[d][t] \cap FilesUnder[deps][t] \cap BuildFiles :
             f \in changed
  <2> HIDE DEF changed
  <2> QED
    BY <1>1, <1>2, <1>3, <1>5, TargetsAgree
<1>7. CASE FilesUnder[d][t] = FilesUnder[queriedDeps][t] /\ FilesUnder[deps][t] = FilesUnder[queriedDeps][t]
  BY <1>1, <1>2, <1>4, <1>7 DEF Files
<1>8. ASSUME NEW h \in FilesUnder[queriedDeps][t] \cap FilesUnder[d][t] \cap FilesUnder[deps][t] \cap BuildFiles,
             h \in changed
      PROVE  h \in KnownFiles(t) \cap FilesUnder[deps][t] \cap BuildFiles /\ Dirty(h)
  BY <1>2, <1>4, <1>8 DEF KnownFiles
<1> QED
  BY <1>6, <1>7, <1>8

\* An edit since the query is queued, until a query is about to begin.
LEMMA EditQueued ==
    ASSUME NotifyTypeOK, LoopInv, CleanInv, WatchInv, Answered, ~HeadingToQuery,
           NEW h \in BuildFiles, h \in targetGraph \/ GraphRead, Dirty(h)
    PROVE  Queued("build", h)
<1>1. missed = {} /\ ~queryFailed
  BY DEF CleanInv, Answered, HeadingToQuery
<1>2. GraphRead \/ Effective("build", h)
  BY DEF WatchInv
<1> QED
  BY <1>1, <1>2 DEF LoopInv, GraphInv, Known, Dirty

\* An edit since the query is queued or led to the query that is about to begin.
LEMMA EditKnown ==
    ASSUME NotifyTypeOK, LoopInv, NotifyInv, Answered, NEW h \in BuildFiles \cap targetGraph, Dirty(h)
    PROVE  OnItsWay(h) \/ Listed(h)
BY EditQueued DEF NotifyInv, EditsInv, OnItsWay

\* A direct target is up to date in the loop's books, or it is covered.
LEMMA KnownOrCovered ==
    ASSUME NotifyTypeOK, LoopInv, NotifyInv, Answered, NEW t \in directTargets \cap Rules
    PROVE  \/ /\ FilesUnder[queriedDeps][t] = FilesUnder[deps][t]
              /\ FilesUnder[queriedDeps][t] \subseteq targetGraph
           \/ \E h \in KnownFiles(t) \cap FilesUnder[deps][t] \cap BuildFiles :
                  Dirty(h) /\ (OnItsWay(h) \/ Listed(h))
<1> SUFFICES ASSUME ~(/\ FilesUnder[queriedDeps][t] = FilesUnder[deps][t]
                      /\ FilesUnder[queriedDeps][t] \subseteq targetGraph)
             PROVE  \E h \in KnownFiles(t) \cap FilesUnder[deps][t] \cap BuildFiles :
                        Dirty(h) /\ (OnItsWay(h) \/ Listed(h))
  OBVIOUS
<1>1. PICK h \in KnownFiles(t) \cap FilesUnder[deps][t] \cap BuildFiles : Dirty(h)
  BY KnownTarget DEF NotifyInv
<1>2. h \in BuildFiles \cap targetGraph
  BY DEF KnownFiles
<1> QED
  BY <1>1, <1>2, EditKnown

(***************************************************************************)
(* The simple conjuncts.                                                   *)
(***************************************************************************)

\* Every step keeps ModeInv.
LEMMA ModeInvStep ==
    ASSUME NotifyTypeOK, ModeInv, [NotifyNext]_notifyVars
    PROVE  ModeInv'
<1>1. [Next]_vars
  BY LoopSteps
<1>2. CASE WaitSource \/ WaitBuild \/ DebounceRunEvent \/ DebounceQueryEvent
  <2>1. PICK w \in Watchers, next \in {"DEBOUNCE_RUN", "DEBOUNCE_QUERY"} :
            TakeEvent(w, next) /\ state \in {"WAIT", "DEBOUNCE_RUN", "DEBOUNCE_QUERY"}
    BY <1>2 DEF WaitSource, WaitBuild, DebounceRunEvent, DebounceQueryEvent, Watchers
  <2>2. UNCHANGED <<pendingChanges, state>> \/ state' = next
    BY <2>1 DEF TakeEvent
  <2> QED
    BY <2>1, <2>2 DEF ModeInv
<1>3. CASE (\E mode \in RunModes : PrepareRun(mode)) \/ QueryRuleFails \/ DebounceTimeout
  BY <1>3 DEF PrepareRun, QueryRuleFails, DebounceTimeout, ModeInv
<1>4. CASE QueryTargets \/ QueryBuildFiles \/ QueryFails \/ WatchBuildFiles \/ WatchSourceFiles
  BY <1>4 DEF QueryTargets, QueryBuildFiles, QueryFails, WatchBuildFiles, WatchSourceFiles, At, ModeInv
<1>5. CASE RunBegin \/ RunEnd
  BY <1>5 DEF RunBegin, RunEnd, At, ModeInv
<1>6. CASE EnvNext \/ UNCHANGED vars
  BY <1>6 DEF EnvNext, EnvStep, loopVars, vars, ModeInv
<1> QED
  BY <1>1, <1>2, <1>3, <1>4, <1>5, <1>6 DEF Next, LoopNext

\* The steps that neither build, edit nor set up leave the program and the rules alone.
LEMMA OtherSteps ==
    ASSUME \/ QueryDeps \/ QueryLapses \/ WatchBuilds \/ WatchSources \/ Elsewhere
           \/ (\E d \in Dirs : DirVanishes(d)) \/ UNCHANGED notifyVars
    PROVE  /\ UNCHANGED <<deps, version, directTargets, stale, touched, due, executionMode>>
           /\ lapsed => lapsed'
           /\ step' = "running" => step = "running"
<1>1. CASE QueryDeps
  BY <1>1 DEF QueryDeps, QueryTargets, treeVars, consumerVars
<1>2. CASE QueryLapses
  BY <1>2 DEF QueryLapses, QueryFails, treeVars, ownerVars, consumerVars
<1>3. CASE WatchBuilds
  BY <1>3 DEF WatchBuilds, WatchBuildFiles, WatchFiles, treeVars, ownerVars, consumerVars
<1>4. CASE WatchSources
  BY <1>4 DEF WatchSources, WatchSourceFiles, WatchFiles, treeVars, consumerVars
<1>5. CASE Elsewhere
  <2>1. UNCHANGED <<treeVars, executionMode>> /\ (step' = "running" => step = "running")
    BY <1>5 DEF Elsewhere, QueryRuleFails, QueryBuildFiles, WaitSource, WaitBuild, DebounceRunEvent,
                DebounceQueryEvent, TakeEvent, DebounceTimeout
  <2> QED
    BY <1>5, <2>1 DEF Elsewhere, treeVars, ownerVars, consumerVars
<1>6. ASSUME NEW d \in Dirs, DirVanishes(d)
      PROVE  /\ UNCHANGED <<deps, version, directTargets, stale, touched, due, executionMode>>
             /\ lapsed => lapsed'
             /\ step' = "running" => step = "running"
  BY <1>6 DEF DirVanishes, RemoveDir, TreeRemoveDir, loopVars, ownerVars, consumerVars
<1>7. CASE UNCHANGED notifyVars
  BY <1>7 DEF notifyVars, vars, treeVars, loopVars, ownerVars, consumerVars
<1> QED
  BY <1>1, <1>2, <1>3, <1>4, <1>5, <1>6, <1>7

\* Every step keeps ServedInv.
LEMMA ServedInvStep ==
    ASSUME NotifyTypeOK, StepOK, ModeInv, ServedInv, [NotifyNext]_notifyVars
    PROVE  ServedInv'
<1>1. ASSUME NEW mode \in RunModes, SetupRun(mode) PROVE ServedInv'
  <2>1. step' = step /\ step # "running" /\ executionMode' # "notification"
    BY <1>1 DEF SetupRun, PrepareRun, StepOK
  <2> QED
    BY <1>1, <2>1 DEF SetupRun, PrepareRun, treeVars, ServedInv
<1>2. CASE BuildStarted
  BY <1>2 DEF BuildStarted, RunBegin, treeVars, ownerVars, ServedInv
<1>3. CASE BuildCompleted
  <2>1. /\ step = "running" /\ step' # "running"
        /\ executionMode' \in {"notificationStartup", "notification"}
              => executionMode \in {"notificationStartup", "notification"}
        /\ UNCHANGED <<deps, directTargets, lapsed>>
    BY <1>3 DEF BuildCompleted, RunEnd, ModeAfter, At, treeVars, ownerVars
  <2>2. IF executionMode = "notification" THEN stale' \subseteq stale \cup touched ELSE stale' = touched
    BY <1>3 DEF BuildCompleted
  <2> QED
    BY <2>1, <2>2 DEF ServedInv
<1>4. ASSUME NEW f \in Files, FileChanges(f) PROVE ServedInv'
  <2>1. /\ UNCHANGED <<state, step, executionMode, directTargets>>
        /\ lapsed => lapsed'
        /\ state # "PREPARE" /\ ~lapsed' => deps'[Root] \cap Rules = deps[Root] \cap Rules
    BY <1>4 DEF FileChanges, EnvStep, loopVars, ownerVars
  <2>2. /\ stale' \subseteq stale \cup ((deps[Root] \cup deps'[Root]) \cap Rules)
        /\ touched' \subseteq touched \cup ((deps[Root] \cup deps'[Root]) \cap Rules)
    BY <1>4 DEF FileChanges, Affected, Regrouped
  <2> QED
    BY <2>1, <2>2 DEF ServedInv, ModeInv
<1>5. CASE \/ QueryDeps \/ QueryLapses \/ WatchBuilds \/ WatchSources \/ Elsewhere
           \/ (\E d \in Dirs : DirVanishes(d)) \/ UNCHANGED notifyVars
  BY <1>5, OtherSteps DEF ServedInv
<1> QED
  BY <1>1, <1>2, <1>3, <1>4, <1>5 DEF NotifyNext, NotifyLoop

\* Every step keeps CleanInv.
LEMMA CleanInvStep ==
    ASSUME NotifyTypeOK, LoopInv, ModeInv, CleanInv, [NotifyNext]_notifyVars
    PROVE  CleanInv'
<1>1. ASSUME NEW mode \in RunModes, SetupRun(mode) PROVE CleanInv'
  BY <1>1 DEF SetupRun, PrepareRun, CleanInv, Active
<1>2. CASE QueryDeps
  BY <1>2 DEF QueryDeps, QueryTargets, CleanInv
<1>3. CASE QueryLapses
  BY <1>3 DEF QueryLapses, CleanInv, Active
<1>4. CASE WatchBuilds \/ WatchSources
  <2>1. UNCHANGED <<missed, queryFailed, executionMode>> /\ ~At("QUERY", "begin") /\ state # "EXITED"
    BY <1>4 DEF WatchBuilds, WatchBuildFiles, WatchSources, WatchSourceFiles, At, history
  <2>2. lapsed => lapsed'
    BY <1>4, OtherSteps
  <2> QED
    BY <2>1, <2>2 DEF CleanInv, Active
<1>5. CASE BuildStarted
  BY <1>5 DEF BuildStarted, RunBegin, CleanInv, Active, At
<1>6. CASE BuildCompleted
  <2>1. /\ state = "RUN" /\ UNCHANGED <<missed, queryFailed, lapsed>> /\ step' = "begin"
        /\ executionMode' = "notification" =>
               executionMode = "notification" \/ (executionMode = "notificationStartup" /\ state' = "QUERY")
    BY <1>6 DEF BuildCompleted, RunEnd, ModeAfter, At
  <2> QED
    BY <2>1 DEF CleanInv, Active, At
<1>7. CASE Elsewhere
  <2>1. UNCHANGED <<missed, queryFailed, executionMode, lapsed>>
    BY <1>7 DEF Elsewhere, QueryRuleFails, QueryBuildFiles, WaitSource, WaitBuild, DebounceRunEvent,
                DebounceQueryEvent, TakeEvent, DebounceTimeout, history
  <2>2. At("QUERY", "begin") => At("QUERY", "begin")' \/ state' = "EXITED"
    BY <1>7 DEF Elsewhere, QueryRuleFails, QueryBuildFiles, WaitSource, WaitBuild, DebounceRunEvent,
                DebounceQueryEvent, DebounceTimeout, At
  <2>3. state = "EXITED" => state' = "EXITED"
    BY <1>7 DEF Elsewhere, QueryRuleFails, QueryBuildFiles, WaitSource, WaitBuild, DebounceRunEvent,
                DebounceQueryEvent, DebounceTimeout, At
  <2> QED
    BY <2>1, <2>2, <2>3 DEF CleanInv, Active
<1>8. ASSUME NEW f \in Files, FileChanges(f) PROVE CleanInv'
  <2>1. UNCHANGED <<state, step, executionMode, queryFailed>>
    BY <1>8 DEF FileChanges, EnvStep, loopVars
  <2>2. /\ lapsed => lapsed'
        /\ executionMode = "notification" /\ ~At("QUERY", "begin") /\ ~lapsed' => missed' = missed
    BY <1>8 DEF FileChanges
  <2> QED
    BY <2>1, <2>2 DEF CleanInv, Active, At
<1>9. CASE (\E d \in Dirs : DirVanishes(d)) \/ UNCHANGED notifyVars
  <2>1. UNCHANGED <<state, step, executionMode, queryFailed, missed>>
    BY <1>9 DEF DirVanishes, notifyVars, vars, loopVars, history
  <2>2. lapsed => lapsed'
    BY <1>9, OtherSteps
  <2> QED
    BY <2>1, <2>2 DEF CleanInv, Active, At
<1> QED
  BY <1>1, <1>2, <1>3, <1>4, <1>5, <1>6, <1>7, <1>8, <1>9 DEF NotifyNext, NotifyLoop

\* Every step keeps OwnersInv.
LEMMA OwnersInvStep ==
    ASSUME NotifyTypeOK, ModeInv, FreshInv, OwnersInv, [NotifyNext]_notifyVars
    PROVE  OwnersInv'
<1>1. ASSUME NEW mode \in RunModes, SetupRun(mode) PROVE OwnersInv'
  BY <1>1 DEF SetupRun, PrepareRun, OwnersInv, Active
<1>2. CASE QueryDeps
  BY <1>2 DEF QueryDeps, QueryTargets, At, OwnersInv
<1>3. CASE QueryLapses
  BY <1>3 DEF QueryLapses, OwnersInv, Active
<1>4. CASE WatchBuilds
  BY <1>4 DEF WatchBuilds, WatchBuildFiles, At, OwnersInv
<1>5. CASE WatchSources
  <2>1. CASE lapsed'
    BY <2>1 DEF OwnersInv, Active
  <2>2. CASE ~lapsed'
    <3>1. /\ changeOwners' = [f \in Files |-> OwnersIn(queriedDeps, f)]
          /\ UNCHANGED <<queriedDeps, directTargets>>
      BY <1>5, <2>2 DEF WatchSources
    <3>2. \A f \in Files : OwnersIn(queriedDeps, f) \in {{}, Owners(f)}
      BY DEF OwnersIn, Owners
    <3>3. \A f : Owners(f)' = Owners(f)
      BY <3>1 DEF Owners
    <3> QED
      BY <3>1, <3>2, <3>3 DEF OwnersInv
  <2> QED
    BY <2>1, <2>2
<1>6. CASE BuildStarted
  BY <1>6 DEF BuildStarted, RunBegin, At, ownerVars, OwnersInv, Active, Owners
<1>7. CASE BuildCompleted
  <2>1. UNCHANGED <<ownerVars, lapsed>> /\ state = "RUN"
    BY <1>7 DEF BuildCompleted, RunEnd, At
  <2>2. executionMode' = "notification" => executionMode = "notification" \/ state' = "QUERY"
    BY <1>7 DEF BuildCompleted, RunEnd, ModeAfter
  <2> QED
    BY <2>1, <2>2 DEF ownerVars, OwnersInv, Active, Owners
<1>8. CASE Elsewhere
  <2>1. UNCHANGED <<executionMode, ownerVars, lapsed>>
    BY <1>8 DEF Elsewhere, QueryRuleFails, QueryBuildFiles, WaitSource, WaitBuild, DebounceRunEvent,
                DebounceQueryEvent, TakeEvent, DebounceTimeout
  <2>2. state' \notin {"QUERY", "EXITED"} => state \notin {"QUERY", "EXITED"}
    BY <1>8 DEF Elsewhere, QueryRuleFails, QueryBuildFiles, WaitSource, WaitBuild, DebounceRunEvent,
                DebounceQueryEvent, DebounceTimeout, At
  <2>3. Active' /\ state' # "QUERY" => Active /\ state # "QUERY"
    BY <2>1, <2>2 DEF Active
  <2> QED
    BY <2>1, <2>3 DEF ownerVars, OwnersInv, Owners
<1>9. CASE (\E f \in Files : FileChanges(f)) \/ (\E d \in Dirs : DirVanishes(d)) \/ UNCHANGED notifyVars
  <2>1. UNCHANGED <<state, executionMode, ownerVars>>
    BY <1>9 DEF FileChanges, EnvStep, DirVanishes, notifyVars, vars, loopVars
  <2>2. lapsed => lapsed'
    BY <1>9, OtherSteps DEF FileChanges
  <2> QED
    BY <2>1, <2>2 DEF ownerVars, OwnersInv, Active, Owners
<1> QED
  BY <1>1, <1>2, <1>3, <1>4, <1>5, <1>6, <1>7, <1>8, <1>9 DEF NotifyNext, NotifyLoop

(***************************************************************************)
(* The answer of the query, the watches and the edits since.               *)
(***************************************************************************)

\* No step but a query makes the mode answered, or changes what the query read.
LEMMA AnsweredBefore ==
    ASSUME NotifyTypeOK, StepOK, ModeInv,
           \/ WatchBuilds \/ WatchSources \/ BuildStarted \/ BuildCompleted \/ Elsewhere
           \/ (\E f \in Files : FileChanges(f)) \/ (\E d \in Dirs : DirVanishes(d))
           \/ UNCHANGED notifyVars,
           Answered'
    PROVE  Answered /\ UNCHANGED <<queriedDeps, directTargets, queried>>
<1>0. Active' /\ state' # "EXITED" /\ ~lapsed'
  BY DEF Answered, Active
<1>1. CASE WatchBuilds \/ WatchSources
  <2>1. /\ UNCHANGED <<executionMode, queriedDeps, directTargets, queried>>
        /\ state = "QUERY" /\ step # "begin"
    BY <1>1 DEF WatchBuilds, WatchBuildFiles, WatchSources, WatchSourceFiles, At, history, ownerVars
  <2>2. lapsed => lapsed'
    BY <1>1, OtherSteps
  <2> QED
    BY <1>0, <2>1, <2>2 DEF Answered, Active, At
<1>2. CASE BuildStarted
  BY <1>2 DEF BuildStarted, RunBegin, At, Answered, Active, ownerVars
<1>3. CASE BuildCompleted
  <2>1. /\ UNCHANGED <<ownerVars, lapsed, queried>> /\ state = "RUN" /\ step' = "begin"
        /\ IF executionMode = "notificationStartup"
           THEN state' = "QUERY" /\ pendingChanges' = {[path |-> NoFile, kind |-> "graph"]}
           ELSE executionMode' = "notification" => executionMode = "notification"
    BY <1>3 DEF BuildCompleted, RunEnd, ModeAfter, At
  <2>2. executionMode # "notificationStartup"
    <3> SUFFICES ASSUME executionMode = "notificationStartup" PROVE FALSE
      OBVIOUS
    <3> DEFINE c == [path |-> NoFile, kind |-> "graph"]
    <3>1. c \in pendingChanges' /\ c.path = NoFile
      BY <2>1
    <3>2. CatchUp'
      BY <3>1 DEF CatchUp
    <3> QED
      BY <2>1, <3>2 DEF Answered, At
  <2> QED
    BY <2>1, <2>2, <1>0 DEF Answered, Active, At, ownerVars
<1>4. CASE Elsewhere
  <2>1. UNCHANGED <<executionMode, ownerVars, lapsed, queried>>
    BY <1>4 DEF Elsewhere, QueryRuleFails, QueryBuildFiles, WaitSource, WaitBuild, DebounceRunEvent,
                DebounceQueryEvent, TakeEvent, DebounceTimeout, history
  <2>2. state # "EXITED" /\ ~At("QUERY", "begin")
    BY <1>0, <1>4 DEF Elsewhere, QueryRuleFails, QueryBuildFiles, WaitSource, WaitBuild, DebounceRunEvent,
                DebounceQueryEvent, DebounceTimeout, At
  <2> QED
    BY <1>0, <2>1, <2>2 DEF Answered, Active, ownerVars
<1>5. CASE (\E f \in Files : FileChanges(f)) \/ (\E d \in Dirs : DirVanishes(d)) \/ UNCHANGED notifyVars
  <2>1. UNCHANGED <<state, step, executionMode, pendingChanges, ownerVars, queried>>
    BY <1>5 DEF FileChanges, EnvStep, DirVanishes, notifyVars, vars, loopVars, history
  <2>2. lapsed => lapsed'
    BY <1>5, OtherSteps DEF FileChanges
  <2> QED
    BY <1>0, <2>1, <2>2 DEF Answered, Active, At, CatchUp, ownerVars
<1> QED
  BY <1>1, <1>2, <1>3, <1>4, <1>5

\* What is left alone by the steps that neither query nor edit.
LEMMA QuietSteps ==
    ASSUME NotifyTypeOK, StepOK,
           \/ WatchBuilds \/ WatchSources \/ BuildStarted \/ BuildCompleted
           \/ (Elsewhere /\ ~QueryBuildFiles)
           \/ (\E d \in Dirs : DirVanishes(d)) \/ UNCHANGED notifyVars
    PROVE  /\ UNCHANGED <<deps, version, queried, targetGraph, queriedDeps, directTargets>>
           /\ At("QUERY", "targetsQueried")' => At("QUERY", "targetsQueried")
<1>1. CASE WatchBuilds \/ WatchSources
  BY <1>1 DEF WatchBuilds, WatchBuildFiles, WatchSources, WatchSourceFiles, WatchFiles, treeVars, history,
              ownerVars, At
<1>2. CASE BuildStarted \/ BuildCompleted
  BY <1>2 DEF BuildStarted, RunBegin, BuildCompleted, RunEnd, treeVars, ownerVars, At
<1>3. CASE Elsewhere /\ ~QueryBuildFiles
  <2>1. UNCHANGED <<treeVars, targetGraph, step, queried, ownerVars>>
    BY <1>3 DEF Elsewhere, QueryRuleFails, WaitSource, WaitBuild, DebounceRunEvent,
                DebounceQueryEvent, TakeEvent, DebounceTimeout, history
  <2>2. step = "targetsQueried" => state = "QUERY"
    BY DEF StepOK
  <2> QED
    BY <2>1, <2>2 DEF treeVars, ownerVars, At
<1>4. ASSUME NEW d \in Dirs, DirVanishes(d)
      PROVE  /\ UNCHANGED <<deps, version, queried, targetGraph, queriedDeps, directTargets>>
             /\ At("QUERY", "targetsQueried")' => At("QUERY", "targetsQueried")
  BY <1>4 DEF DirVanishes, RemoveDir, TreeRemoveDir, loopVars, history, ownerVars, At
<1>5. CASE UNCHANGED notifyVars
  BY <1>5 DEF notifyVars, vars, treeVars, loopVars, history, ownerVars, At
<1> QED
  BY <1>1, <1>2, <1>3, <1>4, <1>5

\* A file that was edited since the query stays so.
LEMMA EditedStays ==
    ASSUME TypeOK, FreshInv, NEW f \in Files, EnvStep(f)
    PROVE  \A g \in BuildFiles : /\ Dirty(g) => Dirty(g)'
                                 /\ version'[g] = version[g] + 1 => Dirty(g)'
<1>1. queried' = queried
  BY DEF EnvStep
<1>2. \A g \in Files : version[g] \in Nat /\ version'[g] \in Nat /\ version[g] <= version'[g]
  BY EditGrows
<1>3. \A g \in BuildFiles : g \in Files /\ queried[g] \in Nat /\ queried[g] <= version[g]
  BY DEF TypeOK, FreshInv, ReadInOrder, Files
<1> QED
  BY <1>1, <1>2, <1>3 DEF Dirty

\* Every step keeps AnswerInv.
LEMMA AnswerInvStep ==
    ASSUME NotifyTypeOK, LoopInv, ModeInv, ServedInv, AnswerInv, [NotifyNext]_notifyVars
    PROVE  AnswerInv'
<1>0. TypeOK /\ StepOK /\ FreshInv /\ deps \in RuleGraphs /\ queriedDeps \in RuleGraphs
  BY DEF NotifyTypeOK, LoopInv, TypeOK, TreeTypeOK
<1>1. ASSUME NEW mode \in RunModes, SetupRun(mode) PROVE AnswerInv'
  BY <1>1 DEF SetupRun, PrepareRun, AnswerInv, Answered, Active
<1>2. CASE QueryDeps
  <2> SUFFICES ASSUME Answered' PROVE AnswerInv'
    BY DEF AnswerInv
  <2>1. /\ queriedDeps' = deps /\ deps' = deps /\ targetGraph' = GraphOf(deps)
        /\ UNCHANGED <<directTargets, executionMode, lapsed>>
    BY <1>2 DEF QueryDeps, QueryTargets, treeVars, graph
  <2>2. deps[Root] \cap Rules = directTargets \cap Rules
    BY <2>1 DEF ServedInv, Answered, Active
  <2>3. ReadSince(deps)'
    BY <2>1 DEF ReadSince
  <2> QED
    BY <1>0, <2>1, <2>2, <2>3 DEF AnswerInv
<1>3. CASE QueryBuildFiles /\ Elsewhere
  <2> SUFFICES ASSUME Answered' PROVE AnswerInv'
    BY DEF AnswerInv
  <2>1. Answered /\ UNCHANGED <<queriedDeps, directTargets, queried>>
    BY <1>0, <1>3, AnsweredBefore
  <2>2. UNCHANGED <<deps, version>> /\ At("QUERY", "targetsQueried") /\ step' = "queried"
    BY <1>3 DEF QueryBuildFiles, At, treeVars
  <2>3. PICK found \in SUBSET (BuildFiles \cap (targetGraph \cup graph)) :
            /\ BuildFiles \cap targetGraph \cap graph \subseteq found
            /\ targetGraph' = (targetGraph \cap SourceFiles) \cup found
    BY <1>3 DEF QueryBuildFiles
  <2>4. /\ queriedDeps[Root] \cap Rules = directTargets \cap Rules /\ ReadSince(deps)
        /\ targetGraph = GraphOf(queriedDeps) /\ deps[Root] \cap Rules = directTargets \cap Rules
    BY <2>1, <2>2 DEF AnswerInv, ServedInv, Answered, Active
  <2>5. \A d : ReadSince(d)' = ReadSince(d)
    BY <2>1, <2>2 DEF ReadSince, Dirty
  <2>6. /\ GraphOf(queriedDeps) \cap SourceFiles \subseteq targetGraph'
        /\ GraphOf(queriedDeps) \cap GraphOf(deps) \cap BuildFiles \subseteq targetGraph'
    BY <2>3, <2>4 DEF graph
  <2>7. ReadSince(deps)'
    BY <2>1, <2>2, <2>4 DEF ReadSince, Dirty
  <2>8. \E d \in RuleGraphs :
            /\ ReadSince(d)' /\ d[Root] \cap Rules = directTargets \cap Rules
            /\ GraphOf(queriedDeps) \cap GraphOf(d) \cap BuildFiles \subseteq targetGraph'
    BY <1>0, <2>4, <2>5, <2>6
  <2> QED
    BY <2>1, <2>2, <2>4, <2>6, <2>7, <2>8 DEF AnswerInv, At
<1>4. CASE QueryLapses
  BY <1>4 DEF QueryLapses, AnswerInv, Answered, Active
<1>5. ASSUME NEW f \in Files, FileChanges(f) PROVE AnswerInv'
  <2> SUFFICES ASSUME Answered' PROVE AnswerInv'
    BY DEF AnswerInv
  <2>1. Answered /\ UNCHANGED <<queriedDeps, directTargets, queried>>
    BY <1>0, <1>5, AnsweredBefore
  <2>2. EnvStep(f) /\ UNCHANGED <<targetGraph, state, step>> /\ FoundOrLost(f) = {}
    BY <1>5, <2>1 DEF FileChanges, EnvStep, loopVars, Answered, Active
  <2>3. \A g \in BuildFiles : /\ Dirty(g) => Dirty(g)'
                              /\ version'[g] = version[g] + 1 => Dirty(g)'
    BY <1>0, <2>2, EditedStays
  <2>4. \A r \in Rules : /\ Declares(r) \subseteq BuildFiles
                         /\ deps'[r] # deps[r] => f \in Declares(r) /\ version'[f] = version[f] + 1
    BY <1>0, <2>2, EditGrows, SourceTreeAssumption DEF Declares
  <2>5. ASSUME NEW d, ReadSince(d) PROVE ReadSince(d)'
    BY <2>1, <2>3, <2>4, <2>5 DEF ReadSince
  <2>6. ReadSince(deps)'
    <3> SUFFICES ASSUME NEW r \in Rules, deps'[r] # queriedDeps[r]
                 PROVE  \E g \in Declares(r) : Dirty(g)'
      BY <2>1 DEF ReadSince
    <3>1. CASE deps'[r] = deps[r]
      BY <2>1, <2>3, <2>4, <3>1 DEF AnswerInv, ReadSince
    <3>2. CASE deps'[r] # deps[r]
      BY <2>3, <2>4, <3>2
    <3> QED
      BY <3>1, <3>2
  <2>7. PICK d \in RuleGraphs :
            /\ ReadSince(d) /\ d[Root] \cap Rules = directTargets \cap Rules
            /\ GraphOf(queriedDeps) \cap GraphOf(d) \cap BuildFiles \subseteq targetGraph
    BY <2>1 DEF AnswerInv
  <2>8. ReadSince(d)'
    BY <2>5, <2>7
  <2> QED
    BY <2>1, <2>2, <2>6, <2>7, <2>8 DEF AnswerInv, At
<1>6. CASE \/ WatchBuilds \/ WatchSources \/ BuildStarted \/ BuildCompleted
           \/ (Elsewhere /\ ~QueryBuildFiles)
           \/ (\E d \in Dirs : DirVanishes(d)) \/ UNCHANGED notifyVars
  <2> SUFFICES ASSUME Answered' PROVE AnswerInv'
    BY DEF AnswerInv
  <2>1. Answered
    BY <1>0, <1>6, AnsweredBefore
  <2>2. /\ UNCHANGED <<deps, version, queried, targetGraph, queriedDeps, directTargets>>
        /\ At("QUERY", "targetsQueried")' => At("QUERY", "targetsQueried")
    BY <1>0, <1>6, QuietSteps
  <2>3. \A d : ReadSince(d)' = ReadSince(d)
    BY <2>2 DEF ReadSince, Dirty
  <2>4. ReadSince(deps)'
    BY <2>1, <2>2 DEF ReadSince, Dirty, AnswerInv
  <2> QED
    BY <2>1, <2>2, <2>3, <2>4 DEF AnswerInv
<1> QED
  BY <1>1, <1>2, <1>3, <1>4, <1>5, <1>6 DEF NotifyNext, NotifyLoop

\* Every step keeps WatchInv.
LEMMA WatchInvStep ==
    ASSUME NotifyTypeOK, LoopInv, ModeInv, WatchInv, [NotifyNext]_notifyVars
    PROVE  WatchInv'
<1>0. NotifyTypeOK /\ TypeOK /\ StepOK /\ "build" \in Watchers /\ "source" \in Watchers
  BY DEF NotifyTypeOK, LoopInv, Watchers
<1>1. ASSUME NEW mode \in RunModes, SetupRun(mode) PROVE WatchInv'
  BY <1>1 DEF SetupRun, PrepareRun, WatchInv, Answered, Active
<1>2. CASE QueryDeps \/ QueryBuildFiles
  BY <1>2 DEF QueryDeps, QueryTargets, QueryBuildFiles, At, WatchInv, GraphRead
<1>3. CASE QueryLapses
  BY <1>3 DEF QueryLapses, WatchInv, Answered, Active
<1>4. CASE WatchBuilds
  <2> SUFFICES ASSUME Answered' PROVE WatchInv'
    BY DEF WatchInv
  <2>1. /\ state' = "QUERY" /\ step' = "buildWatched" /\ targetGraph' = targetGraph
        /\ lapsed' = (lapsed \/ SomeEscape("build", targetGraph \cap BuildFiles))
    BY <1>4 DEF WatchBuilds, WatchBuildFiles, At
  <2>2. \A f \in targetGraph \cap BuildFiles : Effective("build", f)'
    BY <2>1 DEF SomeEscape, Answered, Active
  <2> QED
    BY <2>1, <2>2 DEF WatchInv
<1>5. CASE WatchSources
  <2> SUFFICES ASSUME Answered' PROVE WatchInv'
    BY DEF WatchInv
  <2>1. Answered
    BY <1>0, <1>5, AnsweredBefore DEF LoopInv
  <2>2. /\ state = "QUERY" /\ step = "buildWatched" /\ targetGraph' = targetGraph
        /\ lapsed' = (lapsed \/ SomeEscape("source", targetGraph \cap SourceFiles)) \/ lapsed' = TRUE
    BY <1>5 DEF WatchSources, WatchSourceFiles, At
  <2>3. \A f \in targetGraph \cap SourceFiles : Effective("source", f)'
    BY <2>2 DEF SomeEscape, Answered, Active
  <2>4. PICK toWatch \in SourceFilesFromGraph : WatchFiles(toWatch, "source")
    BY <1>5 DEF WatchSources, WatchSourceFiles
  <2>5. toWatch \in SUBSET Files
    BY DEF SourceFilesFromGraph, Files
  <2>6. filesWatched'["build"] = filesWatched["build"] /\ kernel'["build"] = kernel["build"]
    BY <1>0, <2>4, <2>5, WatchFilesStep DEF Watchers
  <2>7. \A f \in targetGraph \cap BuildFiles : Effective("build", f)'
    BY <2>1, <2>2, <2>6 DEF WatchInv, GraphRead, Effective
  <2> QED
    BY <2>2, <2>3, <2>7 DEF WatchInv
<1>6. ASSUME Answered' => Answered, UNCHANGED <<targetGraph, filesWatched>>,
             Answered' => \A w \in Watchers : kernel'[w] = kernel[w],
             GraphRead => GraphRead',
             state' # "QUERY" \/ step' = "begin" => state # "QUERY" \/ step = "begin"
      PROVE  WatchInv'
  <2> SUFFICES ASSUME Answered' PROVE WatchInv'
    BY DEF WatchInv
  <2>1. \A w \in Watchers : \A f : Effective(w, f) => Effective(w, f)'
    BY <1>6 DEF Effective
  <2>2. /\ ~GraphRead' => \A f \in targetGraph' \cap BuildFiles : Effective("build", f)'
        /\ state' # "QUERY" \/ step' = "begin" =>
               \A f \in targetGraph' \cap SourceFiles : Effective("source", f)'
    BY <1>0, <1>6, <2>1 DEF WatchInv
  <2> QED
    BY <2>2 DEF WatchInv
<1>7. CASE BuildStarted \/ BuildCompleted
  <2>1. /\ UNCHANGED <<targetGraph, filesWatched, kernel>> /\ state = "RUN"
        /\ state' # "QUERY" \/ step' = "begin"
    BY <1>7 DEF BuildStarted, RunBegin, BuildCompleted, RunEnd, At, fsVars
  <2>2. Answered' => Answered
    BY <1>0, <1>7, AnsweredBefore
  <2> QED
    BY <1>6, <2>1, <2>2 DEF GraphRead
<1>8. CASE Elsewhere /\ ~QueryBuildFiles
  <2>1. UNCHANGED <<targetGraph, filesWatched, kernel>>
    BY <1>8 DEF Elsewhere, QueryRuleFails, WaitSource, WaitBuild, DebounceRunEvent,
                DebounceQueryEvent, TakeEvent, Receive, DebounceTimeout, fsVars
  <2>2. /\ state # "QUERY"
        /\ step' = step
    BY <1>8 DEF Elsewhere, QueryRuleFails, WaitSource, WaitBuild, DebounceRunEvent,
                DebounceQueryEvent, TakeEvent, DebounceTimeout, At
  <2>3. Answered' => Answered
    BY <1>0, <1>8, AnsweredBefore
  <2> QED
    BY <1>6, <2>1, <2>2, <2>3 DEF GraphRead
<1>9. ASSUME NEW f \in Files, FileChanges(f) PROVE WatchInv'
  <2>1. UNCHANGED <<targetGraph, filesWatched, kernel, state, step>>
    BY <1>0, <1>9, EditStep DEF FileChanges, loopVars
  <2>2. Answered' => Answered
    BY <1>0, <1>9, AnsweredBefore
  <2> QED
    BY <1>6, <2>1, <2>2 DEF GraphRead
<1>10. ASSUME NEW d \in Dirs, DirVanishes(d) PROVE WatchInv'
  <2>1. UNCHANGED <<targetGraph, filesWatched, state, step>>
    BY <1>10 DEF DirVanishes, loopVars
  <2>2. /\ kernel' = [w \in Watchers |-> kernel[w] \ {d}]
        /\ lapsed' = (lapsed \/ \E w \in Watchers : d \in kernel[w])
    BY <1>10 DEF DirVanishes, RemoveDir
  <2>3. Answered' => \A w \in Watchers : kernel'[w] = kernel[w]
    BY <2>2 DEF Answered, Active
  <2>4. Answered' => Answered
    BY <1>0, <1>10, AnsweredBefore
  <2> QED
    BY <1>6, <2>1, <2>3, <2>4 DEF GraphRead
<1>11. CASE UNCHANGED notifyVars
  BY <1>11 DEF notifyVars, vars, fsVars, loopVars, WatchInv, Answered, Active, CatchUp, At, GraphRead,
               Effective
<1> QED
  BY <1>1, <1>2, <1>3, <1>4, <1>5, <1>7, <1>8, <1>9, <1>10, <1>11 DEF NotifyNext, NotifyLoop

\* An event that is taken for a file that the loop means to watch is listed.
LEMMA TakenIsListed ==
    ASSUME NotifyTypeOK, StepOK, WatchInv, Answered,
           NEW w \in Watchers, NEW next, TakeEvent(w, next), state # "QUERY",
           NEW v \in Watchers, NEW f \in targetGraph,
           f \in IF v = "build" THEN BuildFiles ELSE SourceFiles, Queued(v, f)
    PROVE  Queued(v, f)' \/ (v = w /\ state' = next /\ Listed(f)')
<1>1. f \in Files /\ TypeOK
  BY DEF Files, NotifyTypeOK
<1>2. f \in filesWatched[v]
  BY DEF WatchInv, GraphRead, Effective, Watchers
<1>3. \/ Queued(v, f)'
      \/ v = w /\ state' = next /\ [path |-> f, kind |-> KindOf(w)] \in pendingChanges'
  BY <1>1, <1>2, TakeEventStep
<1>4. ASSUME [path |-> f, kind |-> KindOf(w)] \in pendingChanges' PROVE Listed(f)'
  <2> DEFINE c == [path |-> f, kind |-> KindOf(w)]
  <2>1. c \in pendingChanges' /\ c.path = f
    BY <1>4
  <2> QED
    BY <2>1 DEF Listed
<1> QED
  BY <1>3, <1>4

\* Every step keeps EditsInv.
LEMMA EditsInvStep ==
    ASSUME NotifyTypeOK, LoopInv, NotifyInv, [NotifyNext]_notifyVars
    PROVE  EditsInv'
<1>0. /\ TypeOK /\ StepOK /\ FreshInv /\ ModeInv /\ WatchInv /\ CleanInv /\ EditsInv
      /\ "build" \in Watchers
  BY DEF NotifyTypeOK, LoopInv, NotifyInv, Watchers
<1>1. ASSUME NEW mode \in RunModes, SetupRun(mode) PROVE EditsInv'
  BY <1>1 DEF SetupRun, PrepareRun, EditsInv, Answered, Active
<1>2. CASE QueryDeps \/ QueryBuildFiles \/ QueryLapses
  BY <1>2 DEF QueryDeps, QueryTargets, QueryBuildFiles, QueryLapses, QueryFails, At, EditsInv,
              HeadingToQuery
<1>3. CASE WatchBuilds \/ WatchSources \/ BuildStarted
  BY <1>3 DEF WatchBuilds, WatchBuildFiles, WatchSources, WatchSourceFiles, BuildStarted, RunBegin, At,
              EditsInv, HeadingToQuery
<1> SUFFICES ASSUME Answered', HeadingToQuery', NEW f \in targetGraph' \cap BuildFiles, Dirty(f)',
                    \/ BuildCompleted \/ (Elsewhere /\ ~QueryBuildFiles)
                    \/ (\E g \in Files : FileChanges(g)) \/ (\E d \in Dirs : DirVanishes(d))
                    \/ UNCHANGED notifyVars
             PROVE  Queued("build", f)' \/ Listed(f)'
  BY <1>1, <1>2, <1>3 DEF NotifyNext, NotifyLoop, EditsInv, Elsewhere
<1>4. Answered
  BY <1>0, AnsweredBefore
<1>5. CASE BuildCompleted
  <2>1. /\ state' \in {"QUERY", "WAIT"}
        /\ state' = "QUERY" => executionMode = "notificationStartup"
    BY <1>5 DEF BuildCompleted, RunEnd
  <2> QED
    BY <1>4, <2>1 DEF HeadingToQuery, At, Answered, Active
<1>6. CASE Elsewhere /\ ~QueryBuildFiles
  <2>1. UNCHANGED <<version, queried, targetGraph>>
    BY <1>0, <1>6, QuietSteps
  <2>2. Dirty(f) /\ f \in targetGraph
    BY <2>1 DEF Dirty
  <2>3. Queued("build", f) \/ HeadingToQuery
    BY <1>0, <1>4, <2>2, EditQueued
  <2>4. Queued("build", f) \/ Listed(f)
    BY <1>0, <1>4, <2>2, <2>3 DEF EditsInv
  <2>5. CASE QueryRuleFails
    BY <1>4, <2>5 DEF QueryRuleFails, HeadingToQuery, At
  <2>6. CASE DebounceTimeout
    BY <2>4, <2>6 DEF DebounceTimeout, fsVars, Queued, Listed
  <2>7. ASSUME NEW w \in Watchers, NEW next, TakeEvent(w, next), state # "QUERY"
        PROVE  Queued("build", f)' \/ Listed(f)'
    <3>1. pendingChanges \subseteq pendingChanges'
      BY <1>0, <2>7, TakeEventStep
    <3>2. CASE Listed(f)
      BY <3>1, <3>2 DEF Listed
    <3>3. CASE Queued("build", f)
      BY <1>0, <1>4, <2>2, <2>7, <3>3, TakenIsListed
    <3> QED
      BY <2>4, <3>2, <3>3
  <2>8. CASE WaitSource \/ WaitBuild \/ DebounceRunEvent \/ DebounceQueryEvent
    BY <2>7, <2>8 DEF WaitSource, WaitBuild, DebounceRunEvent, DebounceQueryEvent, Watchers
  <2> QED
    BY <1>6, <2>5, <2>6, <2>8 DEF Elsewhere
<1>7. ASSUME NEW g \in Files, FileChanges(g) PROVE Queued("build", f)' \/ Listed(f)'
  <2>1. EnvStep(g) /\ UNCHANGED <<targetGraph, pendingChanges, state, step>>
    BY <1>7 DEF FileChanges, EnvStep, loopVars
  <2>2. HeadingToQuery /\ f \in targetGraph \cap BuildFiles
    BY <2>1 DEF HeadingToQuery, At
  <2>3. CASE Dirty(f)
    <3>1. Queued("build", f) \/ Listed(f)
      BY <1>0, <1>4, <2>2, <2>3 DEF EditsInv
    <3>2. Queued("build", f) => Queued("build", f)'
      BY <1>0, <2>1, EditStep
    <3> QED
      BY <2>1, <3>1, <3>2 DEF Listed
  <2>4. CASE ~Dirty(f)
    <3>1. version'[f] # version[f]
      BY <2>1, <2>4 DEF Dirty, EnvStep
    <3>2. DirOf[f] \in kernel["build"]
      BY <1>0, <1>4, <2>2 DEF WatchInv, GraphRead, HeadingToQuery, At, Effective
    <3> QED
      BY <1>0, <2>1, <2>2, <3>1, <3>2, EditStep DEF Files
  <2> QED
    BY <2>3, <2>4
<1>8. CASE (\E d \in Dirs : DirVanishes(d)) \/ UNCHANGED notifyVars
  <2>1. UNCHANGED <<version, queried, targetGraph, events, pendingChanges, state, step>>
    BY <1>8 DEF DirVanishes, RemoveDir, TreeRemoveDir, notifyVars, vars, treeVars, fsVars, loopVars, history
  <2> QED
    BY <1>0, <1>4, <2>1 DEF EditsInv, HeadingToQuery, At, Dirty, Queued, Listed
<1> QED
  BY <1>5, <1>6, <1>7, <1>8

(***************************************************************************)
(* What is stale will be listed.                                           *)
(***************************************************************************)

\* A target stays covered while the file to blame stays one of its, queued or listed.
LEMMA CoveredStays ==
    ASSUME NEW t, Covered(t), t \in due => t \in due', CatchUp => CatchUp',
           \A f \in KnownFiles(t) : OnItsWay(f) \/ Listed(f) =>
               f \in KnownFiles(t)' /\ (OnItsWay(f)' \/ Listed(f)')
    PROVE  Covered(t)'
BY DEF Covered

\* An edit takes nothing off the queues.
LEMMA OnItsWayStays ==
    ASSUME TypeOK, NEW f \in Files, EnvStep(f), NEW g, OnItsWay(g)
    PROVE  OnItsWay(g)'
<1>1. \A w \in Watchers : \A h : Queued(w, h) => Queued(w, h)'
  BY EditStep
<1> QED
  BY <1>1 DEF OnItsWay, Watchers

\* The workload of a covered target is updated by a successful build, unless the file to
\* blame is still queued.
LEMMA ListedIsUpdated ==
    ASSUME NotifyTypeOK, ServedInv, AnswerInv, OwnersInv, Answered, state # "QUERY",
           NEW t \in stale, t \in due \/ CatchUp \/ \E f \in KnownFiles(t) : Listed(f)
    PROVE  t \in ToUpdate
<1>1. t \in Rules /\ t \in directTargets
  BY DEF NotifyTypeOK, ServedInv, Answered, Active
<1> SUFFICES ASSUME t \notin due, ChangeImpact.complete PROVE t \in ChangeImpact.targets
  BY <1>1 DEF ToUpdate
<1> DEFINE paths == {c.path : c \in pendingChanges}
<1>2. /\ ChangeImpact.targets = UNION {changeOwners[f] : f \in paths \cap Files}
      /\ ChangeImpact.complete <=> \A f \in paths : f \in Files /\ changeOwners[f] # {}
  <2>1. ~(~ownershipReady \/ pendingChanges = {})
    BY DEF ChangeImpact
  <2> QED
    BY <2>1 DEF ChangeImpact
<1>3. \A f \in paths : f \in Files /\ changeOwners[f] # {}
  BY <1>2
<1>4. ~CatchUp
  BY <1>3, SourceTreeAssumption DEF CatchUp
<1>5. PICK f \in KnownFiles(t) : Listed(f)
  BY <1>4
<1>6. f \in paths \cap Files /\ changeOwners[f] # {}
  BY <1>3, <1>5 DEF Listed
<1>7. changeOwners[f] = Owners(f)
  BY <1>6 DEF OwnersInv, Answered
<1>8. queriedDeps \in RuleGraphs /\ queriedDeps[Root] \cap Rules = directTargets \cap Rules
  BY DEF NotifyTypeOK, AnswerInv
<1>9. t \in Reached[queriedDeps][Root]
  BY <1>1, <1>8, DirectFiles
<1>10. PICK s \in Reached[queriedDeps][t] : f \in Declares(s) \cup (queriedDeps[s] \cap SourceFiles)
  <2>1. f \in FilesUnder[queriedDeps][t]
    BY <1>5 DEF KnownFiles
  <2> QED
    BY <1>1, <1>8, <2>1, FilesUnderDef
<1>11. s \in Rules
  BY <1>1, <1>8, ReachedIsLeast
<1>12. f \notin Loads[s]
  <2> SUFFICES ASSUME f \in Loads[s] PROVE FALSE
    OBVIOUS
  <2>1. f \in BuildFiles /\ \A r \in Rules : f # DeclaredIn[r]
    BY <1>11, SourceTreeAssumption, NotifyAssumption
  <2>2. \A r \in Rules : f \notin queriedDeps[r]
    <3>1. f \notin Rules /\ f \notin SourceFiles
      BY <2>1, SourceTreeAssumption, NotifyAssumption DEF Files
    <3>2. \A r \in Rules : queriedDeps[r] \subseteq Rules \cup SourceFiles
      BY <1>8, SourceTreeAssumption
    <3> QED
      BY <3>1, <3>2
  <2>3. \A u \in Reached[queriedDeps][Root] : \A r \in Reached[queriedDeps][u] : r \in Rules
    BY <1>8, ReachedIsLeast, NotifyAssumption
  <2>4. Owners(f) = {}
    BY <2>1, <2>2, <2>3 DEF Owners
  <2> QED
    BY <1>6, <1>7, <2>4
<1>13. f \in queriedDeps[s] \/ f = DeclaredIn[s]
  BY <1>10, <1>12 DEF Declares
<1>14. t \in changeOwners[f]
  BY <1>1, <1>7, <1>9, <1>10, <1>13 DEF Owners
<1> QED
  BY <1>2, <1>6, <1>14

\* A target that a change affects is covered after it, by an event on its way if the change
\* comes during a build.
LEMMA AffectedIsCovered ==
    ASSUME NotifyTypeOK, LoopInv, NotifyInv, Answered, Active',
           NEW f \in Files, FileChanges(f), version' # version,
           NEW t \in Affected(deps, f) \cup Affected(deps', f) \cup Regrouped
    PROVE  Covered(t)' /\ (step = "running" => \E g \in KnownFiles(t)' : OnItsWay(g)')
<1>0. /\ TypeOK /\ StepOK /\ FreshInv /\ ServedInv /\ CleanInv /\ WatchInv /\ CoverInv /\ ModeInv
      /\ "build" \in Watchers /\ "source" \in Watchers
  BY DEF NotifyTypeOK, LoopInv, NotifyInv, Watchers
<1>1. /\ EnvStep(f) /\ ~lapsed' /\ Active
      /\ UNCHANGED <<queriedDeps, due, kernel, filesWatched, targetGraph, pendingChanges, state, step,
                     executionMode>>
  BY <1>0, EditStep DEF FileChanges, EnvStep, Active, Answered, loopVars, ownerVars
<1>2. deps'[Root] \cap Rules = deps[Root] \cap Rules /\ deps[Root] \cap Rules = directTargets \cap Rules
  <2>1. state # "PREPARE" => deps'[Root] \cap Rules = deps[Root] \cap Rules
    BY <1>1 DEF FileChanges
  <2> QED
    BY <1>0, <1>1, <2>1 DEF ServedInv, ModeInv, Active
<1>3. t \in directTargets \cap Rules
  BY <1>2 DEF Affected, Regrouped
<1>4. deps \in RuleGraphs /\ deps' \in RuleGraphs
  BY <1>0, <1>1, EditGrows DEF TypeOK, TreeTypeOK
<1>5. f \in FilesUnder[deps][t]
  <2>1. \A r \in Rules : deps'[r] # deps[r] \/ deps'[r] # deps[r] => \E g \in Declares(r) : g \in {f}
    <3>1. FoundOrLost(f) = {}
      BY <1>1 DEF FileChanges, Active
    <3> QED
      BY <1>0, <1>1, <3>1, EditGrows
  <2>2. \/ FilesUnder[deps'][t] = FilesUnder[deps][t]
        \/ \E g \in FilesUnder[deps][t] : g \in {f}
    BY <1>3, <1>4, <2>1, TargetsAgree
  <2> QED
    BY <2>2 DEF Affected, Regrouped
<1>6. version'[f] # version[f]
  <2>1. \A g \in Files : version'[g] # version[g] => g = f
    BY <1>0, <1>1, EditStep
  <2>2. version \in [Files -> Nat] /\ version' \in [Files -> Nat]
    BY <1>0, <1>1, EditStep DEF TypeOK, TreeTypeOK
  <2>3. \E g \in Files : version'[g] # version[g]
    BY <2>2
  <2> QED
    BY <2>1, <2>3
<1>7. \A w \in Watchers : DirOf[f] \in kernel[w] => Queued(w, f)'
  BY <1>0, <1>1, <1>6, EditStep
<1>8. \A g : OnItsWay(g) => OnItsWay(g)'
  BY <1>0, <1>1, OnItsWayStays
<1>9. KnownFiles(t)' = KnownFiles(t) /\ \A g : Listed(g) => Listed(g)'
  BY <1>1 DEF KnownFiles, Listed
<1>10. Covered(t) => Covered(t)'
  BY <1>1, <1>8, <1>9 DEF Covered, CatchUp
<1>11. CASE f \in KnownFiles(t) /\ f \in BuildFiles
  <2>1. DirOf[f] \in kernel["build"]
    <3>1. CASE GraphRead
      <4>1. missed' = missed /\ missed = {}
        BY <1>0, <1>1, <3>1 DEF FileChanges, GraphRead, At, CleanInv, Active
      <4>2. DirOf[f] \notin kernel["build"] => missed' = missed \cup {f}
        BY <1>1, <1>6, <1>11 DEF EnvStep
      <4> QED
        BY <4>1, <4>2
    <3>2. CASE ~GraphRead
      BY <1>0, <1>11, <3>2 DEF WatchInv, KnownFiles, Effective
    <3> QED
      BY <3>1, <3>2
  <2>2. OnItsWay(f)'
    BY <1>0, <1>7, <1>11, <2>1 DEF OnItsWay
  <2> QED
    BY <1>9, <1>11, <2>2 DEF Covered
<1>12. CASE f \in KnownFiles(t) /\ f \in SourceFiles
  <2>1. CASE Effective("source", f)
    <3>1. OnItsWay(f)'
      BY <1>0, <1>7, <1>12, <2>1 DEF OnItsWay, Effective
    <3> QED
      BY <1>9, <1>12, <3>1 DEF Covered
  <2>2. CASE ~Effective("source", f)
    <3>1. state = "QUERY" /\ step # "begin"
      BY <1>0, <1>12, <2>2 DEF WatchInv, KnownFiles
    <3>2. Covered(t)
      BY <1>0, <1>1, <1>3, <1>12, <2>2, <3>1 DEF CoverInv, KnownFiles
    <3> QED
      BY <1>0, <1>10, <3>1, <3>2 DEF StepOK
  <2> QED
    BY <2>1, <2>2
<1>13. ASSUME NEW h \in KnownFiles(t) \cap BuildFiles, Dirty(h), OnItsWay(h) \/ Listed(h)
       PROVE  Covered(t)' /\ (step = "running" => \E g \in KnownFiles(t)' : OnItsWay(g)')
  <2>1. Covered(t)'
    BY <1>10, <1>13 DEF Covered
  <2>2. ASSUME step = "running" PROVE OnItsWay(h)'
    <3>1. ~HeadingToQuery
      BY <1>0, <2>2 DEF StepOK, HeadingToQuery, At
    <3>2. Queued("build", h)
      BY <1>0, <1>13, <3>1, EditQueued DEF KnownFiles
    <3> QED
      BY <1>8, <3>2 DEF OnItsWay
  <2> QED
    BY <1>9, <2>1, <2>2
<1>14. \/ f \in KnownFiles(t)
       \/ \E h \in KnownFiles(t) \cap BuildFiles : Dirty(h) /\ (OnItsWay(h) \/ Listed(h))
  BY <1>3, <1>5, KnownOrCovered DEF KnownFiles
<1> QED
  BY <1>11, <1>12, <1>13, <1>14 DEF Files

\* A query begins: what was covered is so in the graph it reads.
LEMMA CoverQueryDeps ==
    ASSUME NotifyTypeOK, LoopInv, NotifyInv, QueryDeps
    PROVE  CoverInv'
<1> SUFFICES ASSUME Active' PROVE CoverInv'
  BY DEF CoverInv
<1>1. /\ queriedDeps' = deps /\ deps' = deps /\ targetGraph' = GraphOf(deps) /\ step' = "targetsQueried"
      /\ UNCHANGED <<directTargets, stale, due, events, filesWatched, kernel, pendingChanges>>
      /\ Active /\ At("QUERY", "begin")
  BY DEF QueryDeps, QueryTargets, treeVars, fsVars, consumerVars, graph, Active, At
<1>2. /\ deps \in RuleGraphs /\ deps[Root] \cap Rules = directTargets \cap Rules /\ stale \subseteq directTargets \cap Rules
      /\ \A t \in stale : Covered(t)
  BY <1>1 DEF NotifyTypeOK, TypeOK, TreeTypeOK, NotifyInv, ServedInv, CoverInv, Active
<1>3. \A f : /\ OnItsWay(f)' <=> OnItsWay(f)
             /\ Listed(f)' <=> Listed(f)
             /\ Effective("source", f)' <=> Effective("source", f)
  BY <1>1 DEF OnItsWay, Queued, Listed, Effective
<1>4. \A t \in directTargets \cap Rules :
          KnownFiles(t)' = FilesUnder[deps][t] /\ FilesUnder[queriedDeps'][t] = FilesUnder[deps][t]
  BY <1>1, <1>2, DirectFiles DEF KnownFiles
<1>5. CASE CatchUp
  BY <1>1, <1>5 DEF CoverInv, Covered, CatchUp
<1>6. CASE ~CatchUp
  <2>1. Answered
    BY <1>1, <1>6 DEF Answered
  <2>2. ASSUME NEW t \in directTargets \cap Rules
        PROVE  /\ Covered(t) => Covered(t)'
               /\ Covered(t)' \/ \A f \in FilesUnder[deps][t] \cap SourceFiles : Effective("source", f)
    <3>1. CASE /\ FilesUnder[queriedDeps][t] = FilesUnder[deps][t]
               /\ FilesUnder[queriedDeps][t] \subseteq targetGraph
      <4>1. KnownFiles(t)' = KnownFiles(t)
        BY <1>4, <3>1 DEF KnownFiles
      <4>2. Covered(t) => Covered(t)'
        BY <1>1, <1>3, <4>1 DEF Covered, CatchUp
      <4>3. \A f \in targetGraph \cap SourceFiles : Effective("source", f)
        BY <1>1, <2>1 DEF NotifyInv, WatchInv, At
      <4> QED
        BY <3>1, <4>2, <4>3
    <3>2. ASSUME NEW h \in KnownFiles(t) \cap FilesUnder[deps][t] \cap BuildFiles,
                 OnItsWay(h) \/ Listed(h)
          PROVE  Covered(t)'
      BY <1>3, <1>4, <3>2 DEF Covered
    <3> QED
      BY <2>1, <3>1, <3>2, KnownOrCovered
  <2>3. \A t \in stale' : Covered(t)'
    BY <1>1, <1>2, <2>2
  <2>4. \A t \in directTargets' \cap Rules :
            Covered(t)' \/ \A f \in FilesUnder[queriedDeps'][t] \cap SourceFiles : Effective("source", f)'
    BY <1>1, <1>3, <1>4, <2>2
  <2> QED
    BY <1>1, <2>3, <2>4 DEF CoverInv
<1> QED
  BY <1>5, <1>6

\* The second answer: what it leaves out is not among the files to blame.
LEMMA CoverQueryBuildFiles ==
    ASSUME NotifyTypeOK, LoopInv, NotifyInv, QueryBuildFiles, Elsewhere
    PROVE  CoverInv'
<1> SUFFICES ASSUME Active' PROVE CoverInv'
  BY DEF CoverInv
<1>0. StepOK /\ ModeInv /\ NotifyTypeOK
  BY DEF LoopInv, NotifyInv
<1>1. /\ UNCHANGED <<deps, stale, due, touched, events, filesWatched, kernel, pendingChanges>>
      /\ At("QUERY", "targetsQueried") /\ step' = "queried"
  BY DEF QueryBuildFiles, Elsewhere, treeVars, fsVars, consumerVars, At
<1>2. Answered /\ UNCHANGED <<queriedDeps, directTargets>>
  <2>1. Answered'
    BY <1>1 DEF Answered, At
  <2> QED
    BY <1>0, <2>1, AnsweredBefore
<1>3. \A f : /\ OnItsWay(f)' <=> OnItsWay(f)
             /\ Listed(f)' <=> Listed(f)
             /\ Effective("source", f)' <=> Effective("source", f)
  BY <1>1 DEF OnItsWay, Queued, Listed, Effective
<1>4. PICK found \in SUBSET (BuildFiles \cap (targetGraph \cup graph)) :
          /\ BuildFiles \cap targetGraph \cap graph \subseteq found
          /\ targetGraph' = (targetGraph \cap SourceFiles) \cup found
  BY DEF QueryBuildFiles
<1>5. /\ deps \in RuleGraphs /\ deps[Root] \cap Rules = directTargets \cap Rules /\ graph = GraphOf(deps)
      /\ stale \subseteq directTargets \cap Rules
      /\ \A t \in stale : Covered(t)
      /\ \A t \in directTargets \cap Rules :
            Covered(t) \/ \A f \in FilesUnder[queriedDeps][t] \cap SourceFiles : Effective("source", f)
  BY <1>1, <1>2 DEF NotifyTypeOK, TypeOK, TreeTypeOK, NotifyInv, ServedInv, CoverInv, Answered, Active,
                    graph, At
<1>6. ASSUME NEW t \in directTargets \cap Rules, Covered(t) PROVE Covered(t)'
  <2>1. FilesUnder[deps][t] \subseteq graph /\ FilesUnder[deps][t] \subseteq Files
    BY <1>5, DirectFiles
  <2>2. CASE FilesUnder[queriedDeps][t] = FilesUnder[deps][t]
    <3>1. KnownFiles(t) \subseteq KnownFiles(t)'
      BY <1>2, <1>4, <2>1, <2>2 DEF KnownFiles, Files
    <3> QED
      BY <1>1, <1>3, <1>6, <3>1 DEF Covered, CatchUp
  <2>3. ASSUME NEW h \in KnownFiles(t) \cap FilesUnder[deps][t] \cap BuildFiles,
               OnItsWay(h) \/ Listed(h)
        PROVE  Covered(t)'
    <3>1. h \in KnownFiles(t)'
      BY <1>2, <1>4, <2>1, <2>3 DEF KnownFiles
    <3> QED
      BY <1>3, <2>3, <3>1 DEF Covered
  <2> QED
    BY <1>2, <2>2, <2>3, KnownOrCovered
<1>7. \A t \in stale' : Covered(t)'
  BY <1>1, <1>5, <1>6
<1>8. \A t \in directTargets' \cap Rules :
          Covered(t)' \/ \A f \in FilesUnder[queriedDeps'][t] \cap SourceFiles : Effective("source", f)'
  BY <1>2, <1>3, <1>5, <1>6
<1> QED
  BY <1>1, <1>2, <1>7, <1>8 DEF CoverInv

\* A build ends: a success updates the workloads that its list covers.
LEMMA CoverBuildCompleted ==
    ASSUME NotifyTypeOK, LoopInv, NotifyInv, BuildCompleted
    PROVE  CoverInv'
<1> SUFFICES ASSUME Active' PROVE CoverInv'
  BY DEF CoverInv
<1>1. /\ UNCHANGED <<targetGraph, queriedDeps, events, touched>>
      /\ At("RUN", "running") /\ step' = "begin" /\ lapsed' = lapsed
      /\ executionMode' = ModeAfter("success") \/ executionMode' = ModeAfter("failure")
  BY DEF BuildCompleted, RunEnd, fsVars, ownerVars, Outcomes
<1>2. CASE executionMode # "notification"
  <2>1. executionMode = "notificationStartup"
    BY <1>1, <1>2 DEF ModeAfter, Active
  <2>2. [path |-> NoFile, kind |-> "graph"] \in pendingChanges'
    BY <2>1 DEF BuildCompleted, RunEnd
  <2>3. CatchUp'
    <3> DEFINE c == [path |-> NoFile, kind |-> "graph"]
    <3>1. c \in pendingChanges' /\ c.path = NoFile
      BY <2>2
    <3> QED
      BY <3>1 DEF CatchUp
  <2> QED
    BY <1>1, <2>3 DEF CoverInv, Covered
<1>3. CASE executionMode = "notification"
  <2>1. /\ Active /\ Answered /\ state # "QUERY"
        /\ ServedInv /\ AnswerInv /\ OwnersInv
        /\ \A t \in stale : Covered(t)
        /\ \A t \in touched : \E f \in KnownFiles(t) : OnItsWay(f)
    BY <1>1, <1>3 DEF Active, Answered, At, NotifyInv, CoverInv
  <2>2. /\ state' = "WAIT"
        /\ \/ stale' = (stale \ ToUpdate) \cup touched /\ due' = {}
           \/ stale' = stale /\ due' = ToUpdate
    BY <1>3 DEF BuildCompleted, RunEnd
  <2>3. \A f, t : /\ OnItsWay(f) => OnItsWay(f)'
                  /\ KnownFiles(t)' = KnownFiles(t)
    BY <1>1 DEF OnItsWay, Queued, KnownFiles
  <2>4. ASSUME NEW t, \E f \in KnownFiles(t) : OnItsWay(f) PROVE Covered(t)'
    BY <2>3, <2>4 DEF Covered
  <2>5. ASSUME NEW t \in stale, ~\E f \in KnownFiles(t) : OnItsWay(f) PROVE t \in ToUpdate
    <3>1. t \in due \/ CatchUp \/ \E f \in KnownFiles(t) : Listed(f)
      BY <2>1, <2>5 DEF Covered
    <3> QED
      BY <2>1, <3>1, ListedIsUpdated
  <2>6. ASSUME NEW t \in stale' PROVE Covered(t)'
    <3>1. CASE \E f \in KnownFiles(t) : OnItsWay(f)
      BY <2>4, <3>1
    <3>2. CASE ~\E f \in KnownFiles(t) : OnItsWay(f)
      <4>1. t \in stale /\ t \notin touched /\ t \in ToUpdate
        BY <2>1, <2>2, <2>5, <3>2
      <4>2. t \in due'
        BY <2>2, <4>1
      <4> QED
        BY <4>2 DEF Covered
    <3> QED
      BY <3>1, <3>2
  <2> QED
    BY <1>1, <2>2, <2>6 DEF CoverInv
<1> QED
  BY <1>2, <1>3

\* The loop waits or debounces: a file to blame whose event is taken is listed.
LEMMA CoverElsewhere ==
    ASSUME NotifyTypeOK, LoopInv, NotifyInv, Elsewhere, ~QueryBuildFiles
    PROVE  CoverInv'
<1> SUFFICES ASSUME Active' PROVE CoverInv'
  BY DEF CoverInv
<1>0. /\ NotifyTypeOK /\ StepOK /\ ModeInv /\ WatchInv
      /\ "build" \in Watchers /\ "source" \in Watchers
  BY DEF LoopInv, NotifyInv, Watchers
<1>1. /\ UNCHANGED <<stale, touched, due, queriedDeps, targetGraph, directTargets>>
      /\ state # "QUERY" /\ step = "begin" /\ step' = step /\ state' # "EXITED"
      /\ Active
  <2>1. UNCHANGED <<stale, touched, due, queriedDeps, directTargets, lapsed>>
    BY DEF Elsewhere, ownerVars, consumerVars
  <2>2. ~QueryRuleFails
    BY DEF QueryRuleFails, Active
  <2>3. /\ UNCHANGED <<executionMode, targetGraph, step>>
        /\ state \in {"WAIT", "DEBOUNCE_RUN", "DEBOUNCE_QUERY"}
    BY <2>2 DEF Elsewhere, WaitSource, WaitBuild, DebounceRunEvent, DebounceQueryEvent, TakeEvent,
                DebounceTimeout
  <2>4. step = "begin"
    BY <2>3 DEF StepOK, NotifyTypeOK, TypeOK, Steps, LoopInv
  <2> QED
    BY <2>1, <2>3, <2>4 DEF Active
<1>2. Answered
  BY <1>1 DEF Answered, At
<1>3. \A t : KnownFiles(t)' = KnownFiles(t)
  BY <1>1 DEF KnownFiles
<1>4. CASE DebounceTimeout
  <2>1. UNCHANGED <<events, pendingChanges>>
    BY <1>4 DEF DebounceTimeout, fsVars
  <2>2. \A t : Covered(t) => Covered(t)'
    BY <1>1, <1>3, <2>1 DEF Covered, CatchUp, OnItsWay, Queued, Listed
  <2> QED
    BY <1>1, <2>2 DEF NotifyInv, CoverInv
<1>5. ASSUME NEW w \in Watchers, NEW next, TakeEvent(w, next) PROVE CoverInv'
  <2>1. pendingChanges \subseteq pendingChanges'
    BY <1>5, TakeEventStep DEF NotifyTypeOK
  <2>2. ASSUME NEW f \in targetGraph, OnItsWay(f) PROVE OnItsWay(f)' \/ Listed(f)'
    <3>1. CASE f \in BuildFiles /\ Queued("build", f)
      <4>1. Queued("build", f)' \/ Listed(f)'
        BY <1>0, <1>1, <1>2, <1>5, <3>1, TakenIsListed
      <4> QED
        BY <3>1, <4>1 DEF OnItsWay
    <3>2. CASE f \in SourceFiles /\ Queued("source", f)
      <4>1. Queued("source", f)' \/ Listed(f)'
        BY <1>0, <1>1, <1>2, <1>5, <3>2, TakenIsListed
      <4> QED
        BY <3>2, <4>1 DEF OnItsWay
    <3> QED
      BY <2>2, <3>1, <3>2 DEF OnItsWay
  <2>3. \A f : Listed(f) => Listed(f)'
    BY <2>1 DEF Listed
  <2>4. ASSUME NEW t, Covered(t) PROVE Covered(t)'
    <3>1. CatchUp => CatchUp'
      BY <2>1 DEF CatchUp
    <3>2. \A f \in KnownFiles(t) : OnItsWay(f) \/ Listed(f) => OnItsWay(f)' \/ Listed(f)'
      BY <2>2, <2>3 DEF KnownFiles
    <3> QED
      BY <1>1, <1>3, <2>4, <3>1, <3>2 DEF Covered
  <2> QED
    BY <1>1, <2>4 DEF NotifyInv, CoverInv
<1>6. ~QueryRuleFails
  BY <1>1 DEF QueryRuleFails
<1> QED
  BY <1>4, <1>5, <1>6
     DEF Elsewhere, WaitSource, WaitBuild, DebounceRunEvent, DebounceQueryEvent, Watchers

\* A file changes: what it affects is covered, and what was covered stays so.
LEMMA CoverFileChanges ==
    ASSUME NotifyTypeOK, LoopInv, NotifyInv, NEW f \in Files, FileChanges(f)
    PROVE  CoverInv'
<1> SUFFICES ASSUME Active' PROVE CoverInv'
  BY DEF CoverInv
<1>1. /\ EnvStep(f) /\ Active
      /\ UNCHANGED <<queriedDeps, directTargets, due, kernel, filesWatched, targetGraph,
                     pendingChanges, state, step>>
  BY EditStep DEF FileChanges, EnvStep, Active, loopVars, ownerVars, NotifyTypeOK
<1>2. \A g : OnItsWay(g) => OnItsWay(g)'
  BY <1>1, OnItsWayStays DEF NotifyTypeOK
<1>3. \A t : KnownFiles(t)' = KnownFiles(t) /\ (Covered(t) => Covered(t)')
  BY <1>1, <1>2 DEF KnownFiles, Covered, CatchUp, Listed
<1> DEFINE affected == IF version' = version THEN {} 
                     ELSE Affected(deps, f) \cup Affected(deps', f) \cup Regrouped
<1>4. stale' = stale \cup affected /\ touched' = touched \cup affected
  BY DEF FileChanges
<1>5. ASSUME NEW t \in affected, Answered
      PROVE  Covered(t)' /\ (step = "running" => \E g \in KnownFiles(t)' : OnItsWay(g)')
  BY <1>5, AffectedIsCovered
<1>6. ~Answered => CatchUp' /\ step = "begin"
  BY <1>1 DEF Answered, CatchUp, At
<1>7. \A t \in stale' : Covered(t)'
  <2>1. CASE Answered
    BY <1>1, <1>3, <1>4, <1>5, <2>1 DEF NotifyInv, CoverInv
  <2>2. CASE ~Answered
    BY <1>6, <2>2 DEF Covered
  <2> QED
    BY <2>1, <2>2
<1>8. ASSUME step = "running", NEW t \in touched' PROVE \E g \in KnownFiles(t)' : OnItsWay(g)'
  <2>1. Answered
    BY <1>6, <1>8
  <2>2. CASE t \in touched
    BY <1>1, <1>2, <1>3, <1>8, <2>2 DEF NotifyInv, CoverInv
  <2>3. CASE t \in affected
    BY <1>5, <1>8, <2>1, <2>3
  <2> QED
    BY <1>4, <1>8, <2>2, <2>3
<1>9. ASSUME state = "QUERY", step # "begin", NEW t \in directTargets \cap Rules
      PROVE  \/ Covered(t)'
             \/ \A g \in FilesUnder[queriedDeps][t] \cap SourceFiles : Effective("source", g)'
  <2>1. Covered(t) \/ \A g \in FilesUnder[queriedDeps][t] \cap SourceFiles : Effective("source", g)
    BY <1>1, <1>9 DEF NotifyInv, CoverInv
  <2> QED
    BY <1>1, <1>3, <2>1 DEF Effective
<1> HIDE DEF affected
<1> QED
  BY <1>1, <1>7, <1>8, <1>9 DEF CoverInv

\* Every step keeps CoverInv.
LEMMA CoverInvStep ==
    ASSUME NotifyTypeOK, LoopInv, NotifyInv, [NotifyNext]_notifyVars
    PROVE  CoverInv'
<1>1. ASSUME NEW mode \in RunModes, SetupRun(mode) PROVE CoverInv'
  BY <1>1 DEF SetupRun, PrepareRun, CoverInv, Active
<1>2. CASE QueryLapses
  BY <1>2 DEF QueryLapses, CoverInv, Active
<1>3. ASSUME UNCHANGED <<stale, due, queriedDeps, directTargets, targetGraph, events, pendingChanges>>,
             Active' => Active,
             step' = "running" => touched' = {} \/ (step = "running" /\ touched' = touched),
             Active' /\ state' = "QUERY" /\ step' # "begin" =>
                /\ state = "QUERY" /\ step # "begin"
                /\ filesWatched'["source"] = filesWatched["source"]
                /\ kernel'["source"] = kernel["source"]
      PROVE  CoverInv'
  <2> SUFFICES ASSUME Active' PROVE CoverInv'
    BY DEF CoverInv
  <2>1. \A f, t : /\ OnItsWay(f)' <=> OnItsWay(f)
                  /\ KnownFiles(t)' = KnownFiles(t)
                  /\ Covered(t) => Covered(t)'
    BY <1>3 DEF OnItsWay, Queued, KnownFiles, Covered, CatchUp, Listed
  <2>2. \A t \in stale' : Covered(t)'
    BY <1>3, <2>1 DEF NotifyInv, CoverInv
  <2>3. step' = "running" => \A t \in touched' : \E f \in KnownFiles(t)' : OnItsWay(f)'
    BY <1>3, <2>1 DEF NotifyInv, CoverInv
  <2>4. ASSUME state' = "QUERY", step' # "begin", NEW t \in directTargets' \cap Rules
        PROVE  \/ Covered(t)'
               \/ \A f \in FilesUnder[queriedDeps'][t] \cap SourceFiles : Effective("source", f)'
    <3>1. \/ Covered(t)
          \/ \A f \in FilesUnder[queriedDeps][t] \cap SourceFiles : Effective("source", f)
      BY <1>3, <2>4 DEF NotifyInv, CoverInv
    <3> QED
      BY <1>3, <2>1, <2>4, <3>1 DEF Effective
  <2> QED
    BY <2>2, <2>3, <2>4 DEF CoverInv
<1>4. CASE WatchBuilds
  <2>1. /\ UNCHANGED <<stale, due, touched, queriedDeps, directTargets, targetGraph, pendingChanges,
                       executionMode, state>>
        /\ WatchFiles(targetGraph \cap BuildFiles, "build")
        /\ state = "QUERY" /\ step = "queried" /\ step' = "buildWatched"
    BY <1>4 DEF WatchBuilds, WatchBuildFiles, At, ownerVars, consumerVars
  <2>2. /\ UNCHANGED events
        /\ filesWatched'["source"] = filesWatched["source"] /\ kernel'["source"] = kernel["source"]
    BY <2>1, WatchFilesStep DEF Files, Watchers, NotifyTypeOK
  <2>3. lapsed => lapsed'
    BY <1>4, OtherSteps
  <2> QED
    BY <1>3, <2>1, <2>2, <2>3 DEF Active
<1>5. CASE WatchSources
  <2>1. /\ UNCHANGED <<stale, due, touched, queriedDeps, directTargets, targetGraph, pendingChanges,
                       executionMode, events>>
        /\ state = "QUERY" /\ state' = "RUN" /\ step' = "begin"
    BY <1>5 DEF WatchSources, WatchSourceFiles, WatchFiles, At, consumerVars
  <2>2. lapsed => lapsed'
    BY <1>5, OtherSteps
  <2> QED
    BY <1>3, <2>1, <2>2 DEF Active
<1>6. CASE BuildStarted
  <2>1. /\ UNCHANGED <<stale, due, queriedDeps, directTargets, targetGraph, pendingChanges,
                       executionMode, events, state, lapsed>>
        /\ state = "RUN" /\ touched' = {}
    BY <1>6 DEF BuildStarted, RunBegin, At, ownerVars, fsVars
  <2> QED
    BY <1>3, <2>1 DEF Active
<1>7. ASSUME NEW d \in Dirs, DirVanishes(d) PROVE CoverInv'
  <2>1. /\ UNCHANGED <<stale, due, touched, queriedDeps, directTargets, targetGraph, pendingChanges,
                       executionMode, events, state, step, filesWatched>>
        /\ kernel' = [w \in Watchers |-> kernel[w] \ {d}]
        /\ lapsed' = (lapsed \/ \E w \in Watchers : d \in kernel[w])
    BY <1>7 DEF DirVanishes, RemoveDir, loopVars, ownerVars, consumerVars
  <2>2. Active' => Active /\ kernel'["source"] = kernel["source"]
    BY <2>1 DEF Active, Watchers
  <2> QED
    BY <1>3, <2>1, <2>2
<1>8. CASE UNCHANGED notifyVars
  <2>1. /\ UNCHANGED <<stale, due, touched, queriedDeps, directTargets, targetGraph, pendingChanges,
                       executionMode, events, state, step, filesWatched, kernel, lapsed>>
    BY <1>8 DEF notifyVars, vars, fsVars, loopVars, ownerVars, consumerVars
  <2> QED
    BY <1>3, <2>1 DEF Active
<1> QED
  BY <1>1, <1>2, <1>4, <1>5, <1>6, <1>7, <1>8, CoverQueryDeps, CoverQueryBuildFiles,
     CoverBuildCompleted, CoverElsewhere, CoverFileChanges DEF NotifyNext, NotifyLoop

(***************************************************************************)
(* The theorem.                                                            *)
(***************************************************************************)

\* Every step keeps the inductive invariant.
LEMMA NotifyInvStep ==
    NotifyTypeOK /\ LoopInv /\ NotifyInv /\ [NotifyNext]_notifyVars => (NotifyTypeOK /\ LoopInv /\ NotifyInv)'
<1> SUFFICES ASSUME NotifyTypeOK, LoopInv, NotifyInv, [NotifyNext]_notifyVars
             PROVE  (NotifyTypeOK /\ LoopInv /\ NotifyInv)'
  OBVIOUS
<1>1. LoopInv'
  BY LoopSteps, StepOKStep, GraphStep, FreshStep DEF LoopInv, NotifyTypeOK
<1>2. NotifyTypeOK'
  BY NotifyTypeStep
<1>3. /\ StepOK /\ FreshInv /\ ModeInv /\ ServedInv /\ CleanInv /\ AnswerInv /\ WatchInv /\ OwnersInv
  BY DEF LoopInv, NotifyInv
<1>4. ModeInv' /\ ServedInv' /\ CleanInv' /\ OwnersInv'
  BY <1>3, ModeInvStep, ServedInvStep, CleanInvStep, OwnersInvStep
<1>5. AnswerInv' /\ WatchInv'
  BY <1>3, AnswerInvStep, WatchInvStep
<1>6. EditsInv' /\ CoverInv'
  BY EditsInvStep, CoverInvStep
<1> QED
  BY <1>1, <1>2, <1>4, <1>5, <1>6 DEF NotifyInv

\* A program that trusts the lists of the build events is never left with a workload of old
\* files: at rest after a success, every workload is of the present files, unless a query
\* failed, a change escaped the watches or the program's direct targets changed.
THEOREM ConsumerUpToDateHolds == NotifySpec => []ConsumerUpToDate
<1>1. NotifyInit => NotifyTypeOK /\ LoopInv /\ NotifyInv
  <2> SUFFICES ASSUME NotifyInit PROVE LoopInv /\ NotifyInv
    BY NotifyTypeInit
  <2>1. Init /\ executionMode = "default" /\ pendingChanges = {}
    BY DEF NotifyInit, Init
  <2>2. NotifyInv
    BY <2>1 DEF NotifyInv, ModeInv, ServedInv, CleanInv, AnswerInv, WatchInv, EditsInv, CoverInv,
                OwnersInv, Answered, Active
  <2>3. LoopInv
    BY <2>1, FreshInit DEF LoopInv
  <2> QED
    BY <2>2, <2>3
<1>2. NotifyTypeOK /\ LoopInv /\ NotifyInv /\ [NotifyNext]_notifyVars
      => (NotifyTypeOK /\ LoopInv /\ NotifyInv)'
  BY NotifyInvStep
<1>3. NotifyTypeOK /\ LoopInv /\ NotifyInv => ConsumerUpToDate
  <2> SUFFICES ASSUME NotifyInv, Quiet, executionMode = "notification", ~lapsed, due = {},
                      NEW t \in stale
               PROVE  FALSE
    BY DEF ConsumerUpToDate
  <2>1. Active /\ pendingChanges = {}
    BY DEF Quiet, Active, NotifyInv, ModeInv
  <2>2. \A f : ~OnItsWay(f)
    <3>1. events["build"] = <<>> /\ events["source"] = <<>>
      BY DEF Quiet, Watchers
    <3> QED
      BY <3>1 DEF OnItsWay, Queued, InQueue
  <2>3. Covered(t)
    BY <2>1 DEF NotifyInv, CoverInv
  <2> QED
    BY <2>1, <2>2, <2>3 DEF Covered, CatchUp, Listed
<1> QED
  BY <1>1, <1>2, <1>3, PTL DEF NotifySpec

=============================================================================
