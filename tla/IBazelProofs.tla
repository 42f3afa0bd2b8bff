---------------------------- MODULE IBazelProofs ----------------------------
(***************************************************************************)
(* Proofs about the main loop of ibazel, for all files, directories, rules *)
(* and their graphs, bounds and combinations of faults.                    *)
(***************************************************************************)
EXTENDS IBazel, TLAPS

(***************************************************************************)
(* The dependency graph.                                                   *)
(***************************************************************************)

\* Reached[d][r] holds r, is closed under d and is the least such set.
LEMMA ReachedIsLeast ==
    ASSUME NEW d \in RuleGraphs, NEW r \in Rules
    PROVE  /\ Reached[d][r] \subseteq Rules /\ r \in Reached[d][r]
           /\ \A q \in Reached[d][r] : d[q] \cap Rules \subseteq Reached[d][r]
           /\ \A S \in SUBSET Rules :
                  r \in S /\ (\A q \in S : d[q] \cap Rules \subseteq S) => Reached[d][r] \subseteq S
<1>1. Reached[d][r] = {s \in Rules : \A S \in SUBSET Rules :
          r \in S /\ (\A q \in S : d[q] \cap Rules \subseteq S) => s \in S}
  BY DEF Reached
<1> QED
  BY <1>1

\* The files of a rule are those of the rules it reaches.
LEMMA FilesUnderDef ==
    ASSUME NEW d \in RuleGraphs, NEW r \in Rules
    PROVE  FilesUnder[d][r] = UNION {Declares(s) \cup (d[s] \cap SourceFiles) : s \in Reached[d][r]}
BY DEF FilesUnder

\* A graph is made of files.
LEMMA GraphInFiles ==
    ASSUME NEW d \in RuleGraphs
    PROVE  GraphOf(d) \subseteq Files
<1>1. ASSUME NEW t \in Targets PROVE FilesUnder[d][t] \subseteq Files
  <2>1. t \in Rules
    BY SourceTreeAssumption
  <2>2. \A s \in Reached[d][t] : s \in Rules
    BY <2>1, ReachedIsLeast
  <2>3. \A s \in Rules : Declares(s) \subseteq Files
    BY SourceTreeAssumption DEF Declares, Files
  <2> QED
    BY <2>1, <2>2, <2>3, FilesUnderDef DEF Files
<1> QED
  BY <1>1 DEF GraphOf

\* Rules depend on the same in c and d, those that a changed file declares and the sources
\* in `some` excepted.
SameBut(c, d, changed, some) ==
    \A r \in Rules : c[r] \ some # d[r] \ some => \E f \in Declares(r) : f \in changed

\* Two graphs differ, but for some sources, only if a BUILD file that is in both says
\* different things: the first file of a path that differs is reached in either.
LEMMA GraphsAgree ==
    ASSUME NEW c \in RuleGraphs, NEW d \in RuleGraphs, NEW changed, NEW some \in SUBSET SourceFiles,
           SameBut(c, d, changed, some),
           GraphOf(c) \cap GraphOf(d) \cap BuildFiles \cap changed = {}
    PROVE  GraphOf(c) \ some = GraphOf(d) \ some
<1>1. ASSUME NEW t \in Targets PROVE FilesUnder[c][t] \ some = FilesUnder[d][t] \ some
  <2> DEFINE S == Reached[c][t] \cap Reached[d][t]
  <2>1. t \in Rules /\ Targets \subseteq Rules
    BY SourceTreeAssumption
  <2>2. S \subseteq Rules /\ t \in S
    BY <2>1, ReachedIsLeast
  <2>3. ASSUME NEW r \in S PROVE c[r] \ some = d[r] \ some
    <3>1. Declares(r) \subseteq FilesUnder[c][t] /\ Declares(r) \subseteq FilesUnder[d][t]
      BY <2>1, <2>3, FilesUnderDef
    <3>2. Declares(r) \subseteq GraphOf(c) \cap GraphOf(d)
      BY <3>1 DEF GraphOf
    <3>3. Declares(r) \subseteq BuildFiles
      BY <2>2, SourceTreeAssumption DEF Declares
    <3> QED
      BY <2>2, <3>2, <3>3 DEF SameBut
  <2>4. ASSUME NEW q \in S PROVE c[q] \cap Rules \subseteq S /\ d[q] \cap Rules \subseteq S
    <3>1. c[q] \cap Rules \subseteq Reached[c][t] /\ d[q] \cap Rules \subseteq Reached[d][t]
      BY <2>1, ReachedIsLeast
    <3>2. Rules \cap some = {}
      BY SourceTreeAssumption
    <3>3. c[q] \cap Rules = d[q] \cap Rules
      BY <2>3, <2>4, <3>2
    <3> QED
      BY <3>1, <3>3
  <2>5. Reached[c][t] \subseteq S /\ Reached[d][t] \subseteq S
    <3>1. S \in SUBSET Rules
      BY <2>2
    <3>2. t \in S
      BY <2>2
    <3> HIDE DEF S
    <3> QED
      BY <2>1, <2>4, <3>1, <3>2, ReachedIsLeast
  <2>6. Reached[c][t] = S /\ Reached[d][t] = S
    BY <2>5
  <2> HIDE DEF S
  <2>7. ASSUME NEW x, x \notin some
        PROVE  x \in FilesUnder[c][t] <=> x \in FilesUnder[d][t]
    <3>1. x \in FilesUnder[c][t] <=> \E s \in S : x \in Declares(s) \cup (c[s] \cap SourceFiles)
      BY <2>1, <2>6, FilesUnderDef
    <3>2. x \in FilesUnder[d][t] <=> \E s \in S : x \in Declares(s) \cup (d[s] \cap SourceFiles)
      BY <2>1, <2>6, FilesUnderDef
    <3>3. \A s \in S : x \in c[s] <=> x \in d[s]
      BY <2>3, <2>7
    <3> QED
      BY <3>1, <3>2, <3>3
  <2> QED
    BY <2>7
<1> QED
  BY <1>1 DEF GraphOf

(***************************************************************************)
(* Event queues.                                                           *)
(***************************************************************************)

\* Appending an event keeps the events of the queue and adds the new one.
LEMMA InQueueAppend ==
    ASSUME NEW q \in Seq(Event), NEW e \in Event, NEW f
    PROVE  /\ Append(q, e) \in Seq(Event)
           /\ InQueue(q, f) => InQueue(Append(q, e), f)
           /\ e.name = f /\ e.modifying => InQueue(Append(q, e), f)
<1>1. /\ Append(q, e) \in Seq(Event)
      /\ Len(Append(q, e)) = Len(q) + 1
      /\ Append(q, e)[Len(q) + 1] = e
      /\ \A i \in 1..Len(q) : Append(q, e)[i] = q[i]
  OBVIOUS
<1>2. Len(q) \in Nat
  OBVIOUS
<1>3. ASSUME InQueue(q, f) PROVE InQueue(Append(q, e), f)
  <2>1. PICK i \in 1..Len(q) : q[i].name = f /\ q[i].modifying
    BY <1>3 DEF InQueue
  <2>2. i \in 1..Len(Append(q, e)) /\ Append(q, e)[i] = q[i]
    BY <1>1, <1>2
  <2> QED
    BY <2>1, <2>2 DEF InQueue
<1>4. ASSUME e.name = f, e.modifying PROVE InQueue(Append(q, e), f)
  <2>1. Len(q) + 1 \in 1..Len(Append(q, e))
    BY <1>1, <1>2
  <2> QED
    BY <1>1, <1>4, <2>1 DEF InQueue
<1> QED
  BY <1>1, <1>3, <1>4

\* Taking the first event loses at most that event.
LEMMA InQueueTail ==
    ASSUME NEW q \in Seq(Event), q # <<>>, NEW f
    PROVE  /\ Head(q) \in Event
           /\ Tail(q) \in Seq(Event)
           /\ InQueue(q, f) =>
                InQueue(Tail(q), f) \/ (Head(q).name = f /\ Head(q).modifying)
<1>1. /\ Len(q) \in Nat /\ Len(q) > 0
      /\ Head(q) = q[1] /\ Head(q) \in Event
      /\ Tail(q) \in Seq(Event)
      /\ Len(Tail(q)) = Len(q) - 1
      /\ \A i \in 1..(Len(q) - 1) : Tail(q)[i] = q[i + 1]
  OBVIOUS
<1>2. ASSUME InQueue(q, f), ~(Head(q).name = f /\ Head(q).modifying)
      PROVE  InQueue(Tail(q), f)
  <2>1. PICK i \in 1..Len(q) : q[i].name = f /\ q[i].modifying
    BY <1>2 DEF InQueue
  <2>2. i # 1
    BY <1>1, <1>2, <2>1
  <2>3. i - 1 \in 1..Len(Tail(q)) /\ Tail(q)[i - 1] = q[i]
    <3>1. i - 1 \in 1..(Len(q) - 1) /\ (i - 1) + 1 = i
      BY <1>1, <2>2
    <3> QED
      BY <1>1, <3>1
  <2> QED
    BY <2>1, <2>3 DEF InQueue
<1> QED
  BY <1>1, <1>2

(***************************************************************************)
(* Type correctness.                                                       *)
(***************************************************************************)

\* Deliver appends one event, to the queues of the watchers of the file's directory.
LEMMA DeliverQueues ==
    ASSUME NEW f \in Files, NEW b \in BOOLEAN, FSTypeOK, Deliver(f, b)
    PROVE  /\ events' \in [Watchers -> Seq(Event)]
           /\ \A w \in Watchers : \A g : Queued(w, g) => Queued(w, g)'
           /\ b => \A w \in Watchers : DirOf[f] \in kernel[w] => Queued(w, f)'
<1> DEFINE e == [name |-> f, modifying |-> b]
<1>1. e \in Event /\ e.name = f /\ e.modifying = b
  BY DEF Event
<1>2. ASSUME NEW w \in Watchers
      PROVE  /\ events[w] \in Seq(Event)
             /\ events'[w] = IF DirOf[f] \in kernel[w] THEN Append(events[w], e) ELSE events[w]
  BY <1>2 DEF FSTypeOK, Deliver
<1>3. ASSUME NEW w \in Watchers, NEW g
      PROVE  /\ events'[w] \in Seq(Event)
             /\ Queued(w, g) => Queued(w, g)'
             /\ b /\ g = f /\ DirOf[f] \in kernel[w] => Queued(w, g)'
  <2> HIDE DEF e
  <2>1. /\ Append(events[w], e) \in Seq(Event)
        /\ InQueue(events[w], g) => InQueue(Append(events[w], e), g)
        /\ e.name = g /\ e.modifying => InQueue(Append(events[w], e), g)
    BY <1>1, <1>2, InQueueAppend
  <2>2. CASE DirOf[f] \in kernel[w]
    <3>1. events'[w] = Append(events[w], e)
      BY <1>2, <2>2
    <3> QED
      BY <1>1, <2>1, <3>1 DEF Queued
  <2>3. CASE DirOf[f] \notin kernel[w]
    BY <1>2, <2>3 DEF Queued
  <2> QED
    BY <2>2, <2>3
<1>4. events' = [w \in Watchers |-> events'[w]]
  BY DEF Deliver
<1> QED
  BY <1>3, <1>4

\* Receive keeps every event but the first.
LEMMA ReceiveQueues ==
    ASSUME NEW w \in Watchers, FSTypeOK, Receive(w)
    PROVE  /\ events' \in [Watchers -> Seq(Event)]
           /\ Head(events[w]) \in Event
           /\ \A v \in Watchers \ {w} : events'[v] = events[v]
           /\ \A g : Queued(w, g) =>
                Queued(w, g)' \/ (Head(events[w]).name = g /\ Head(events[w]).modifying)
<1>1. /\ events[w] \in Seq(Event) /\ events[w] # <<>>
      /\ events' = [events EXCEPT ![w] = Tail(events[w])]
      /\ events \in [Watchers -> Seq(Event)]
  BY DEF FSTypeOK, Receive
<1>2. Head(events[w]) \in Event /\ Tail(events[w]) \in Seq(Event)
  BY <1>1, InQueueTail
<1>3. events'[w] = Tail(events[w])
  BY <1>1
<1>4. ASSUME NEW g, Queued(w, g)
      PROVE  Queued(w, g)' \/ (Head(events[w]).name = g /\ Head(events[w]).modifying)
  <2>1. InQueue(events[w], g)
    BY <1>4 DEF Queued
  <2>2. InQueue(Tail(events[w]), g) \/ (Head(events[w]).name = g /\ Head(events[w]).modifying)
    BY <1>1, <2>1, InQueueTail
  <2> QED
    BY <1>3, <2>2 DEF Queued
<1> QED
  BY <1>1, <1>2, <1>4

\* The initial state has the right types.
LEMMA TypeInit == Init => TypeOK
<1> SUFFICES ASSUME Init PROVE TypeOK
  OBVIOUS
<1>1. TreeTypeOK
  BY SourceTreeAssumption DEF Init, TreeInit, TreeTypeOK
<1>2. FSTypeOK
  BY DEF Init, FSInit, FSTypeOK
<1>3. built \in [Files -> Nat] /\ told \in [Files -> Nat]
  BY DEF Init, TreeInit
<1> QED
  BY <1>1, <1>2, <1>3, IBazelAssumption
     DEF Init, TypeOK, States, Steps, ExecutionModes

\* A step that edits a file keeps the types of the tree.
LEMMA TreeTypeStep ==
    ASSUME TreeTypeOK,
           NEW f \in Files,
           TreeWrite(f) \/ TreeTouch(f) \/ TreeRemove(f) \/ TreeCreate(f)
    PROVE  TreeTypeOK'
<1>1. DirOf[f] \in Dirs
  BY SourceTreeAssumption
<1>2. ASSUME NewContents(f) PROVE version' \in [Files -> Nat]
  BY <1>2 DEF NewContents, TreeTypeOK
<1>3. DepsAfter(f) => deps' \in RuleGraphs
  BY DEF DepsAfter
<1>4. ASSUME NEW kind, AnEdit(kind) PROVE edits' \in 0..MaxEdits
  BY <1>4, SourceTreeAssumption DEF AnEdit, TreeTypeOK
<1>5. CASE TreeWrite(f)
  BY <1>2, <1>3, <1>4, <1>5 DEF TreeWrite, TreeTypeOK
<1>6. CASE TreeTouch(f)
  BY <1>4, <1>6 DEF TreeTouch, TreeTypeOK
<1>7. CASE TreeRemove(f)
  BY <1>2, <1>3, <1>4, <1>7 DEF TreeRemove, TreeTypeOK
<1>8. CASE TreeCreate(f)
  BY <1>1, <1>2, <1>3, <1>4, <1>8 DEF TreeCreate, TreeTypeOK
<1> QED
  BY <1>5, <1>6, <1>7, <1>8

\* An edit of a file keeps the types of the tree and of the queues, and touches neither
\* the watches nor the state of the loop.
LEMMA EditStep ==
    ASSUME TypeOK, NEW f \in Files, EnvStep(f)
    PROVE  /\ TreeTypeOK' /\ FSTypeOK'
           /\ UNCHANGED <<watched, kernel, loopVars, built, told, queried, queryFailed>>
           /\ \A w \in Watchers : \A g : Queued(w, g) => Queued(w, g)'
           /\ \A g \in Files : version'[g] # version[g] =>
                /\ g = f
                /\ \A w \in Watchers : DirOf[g] \in kernel[w] => Queued(w, g)'
<1>1. TreeTypeOK /\ FSTypeOK
  BY DEF TypeOK
<1>2. PICK b \in BOOLEAN :
        /\ Deliver(f, b)
        /\ UNCHANGED <<watched, kernel>>
        /\ TreeWrite(f) \/ TreeTouch(f) \/ TreeRemove(f) \/ TreeCreate(f)
        /\ ~b => version' = version
  <2>1. CASE TouchFile(f)
    BY <2>1 DEF TouchFile, TreeTouch
  <2>2. CASE WriteFile(f) \/ RemoveFile(f) \/ CreateFile(f)
    BY <2>2 DEF WriteFile, RemoveFile, CreateFile
  <2> QED
    BY <2>1, <2>2 DEF EnvStep
<1>3. TreeTypeOK'
  BY <1>1, <1>2, TreeTypeStep
<1>4. /\ events' \in [Watchers -> Seq(Event)]
      /\ \A w \in Watchers : \A g : Queued(w, g) => Queued(w, g)'
      /\ b => \A w \in Watchers : DirOf[f] \in kernel[w] => Queued(w, f)'
  BY <1>1, <1>2, DeliverQueues
<1>5. FSTypeOK'
  BY <1>1, <1>2, <1>4 DEF FSTypeOK
<1>6. UNCHANGED <<watched, kernel, loopVars, built, told, queried, queryFailed>>
  BY <1>2 DEF EnvStep
<1>7. ASSUME NEW g \in Files, version'[g] # version[g] PROVE g = f
  BY <1>1, <1>2, <1>7
     DEF TreeWrite, TreeTouch, TreeRemove, TreeCreate, NewContents, TreeTypeOK
<1>8. ASSUME NEW g \in Files, version'[g] # version[g] PROVE b
  BY <1>2, <1>8
<1> QED
  BY <1>3, <1>4, <1>5, <1>6, <1>7, <1>8

\* watchFiles keeps the types of the watchers, leaves the other watcher alone and loses
\* no event.
LEMMA WatchFilesStep ==
    ASSUME TypeOK, NEW toWatch \in SUBSET Files, NEW w \in Watchers, WatchFiles(toWatch, w)
    PROVE  /\ TreeTypeOK' /\ FSTypeOK'
           /\ filesWatched' \in [Watchers -> SUBSET Files]
           /\ UNCHANGED <<treeVars, events>>
           /\ \A v \in Watchers \ {w} :
                filesWatched'[v] = filesWatched[v] /\ kernel'[v] = kernel[v]
<1> DEFINE present == toWatch \cap exists
           names   == {DirOf[f] : f \in present}
<1>1. present \subseteq Files /\ names \subseteq Dirs
  BY SourceTreeAssumption
<1>2. PICK failed : 
        /\ kernel' = [kernel EXCEPT ![w] =
                         (kernel[w] \cap names) \cup ((names \ watched[w]) \ failed)]
        /\ watched' = [watched EXCEPT ![w] = names]
  BY DEF WatchFiles, UpdateAll
<1>3. /\ filesWatched' = [filesWatched EXCEPT ![w] = present]
      /\ UNCHANGED <<treeVars, events>>
  BY DEF WatchFiles
<1>4. /\ kernel \in [Watchers -> SUBSET Dirs] /\ watched \in [Watchers -> SUBSET Dirs]
      /\ events \in [Watchers -> Seq(Event)] /\ filesWatched \in [Watchers -> SUBSET Files]
  BY DEF TypeOK, FSTypeOK
<1>5. (kernel[w] \cap names) \cup ((names \ watched[w]) \ failed) \subseteq Dirs
  BY <1>1
<1> HIDE DEF names, present
<1>6. kernel' \in [Watchers -> SUBSET Dirs] /\ watched' \in [Watchers -> SUBSET Dirs]
  BY <1>1, <1>2, <1>4, <1>5
<1>7. filesWatched' \in [Watchers -> SUBSET Files]
  BY <1>1, <1>3, <1>4
<1>8. \A v \in Watchers \ {w} : filesWatched'[v] = filesWatched[v] /\ kernel'[v] = kernel[v]
  BY <1>2, <1>3, <1>4
<1>9. TreeTypeOK'
  BY <1>3 DEF TypeOK, TreeTypeOK, treeVars
<1> QED
  BY <1>3, <1>4, <1>6, <1>7, <1>8, <1>9 DEF FSTypeOK

\* What a rule that f does not declare depends on after f came or went differs in sources.
LEMMA GlobsFindSources ==
    ASSUME NEW f \in Files, EnvStep(f)
    PROVE  FoundOrLost(f) \subseteq SourceFiles
<1> SUFFICES ASSUME NEW r \in Rules, f \notin Declares(r), deps'[r] # deps[r]
             PROVE  deps'[r] \ deps[r] \subseteq SourceFiles /\ deps[r] \ deps'[r] \subseteq SourceFiles
  BY DEF FoundOrLost
<1>1. DepsAfter(f)
  BY DEF EnvStep, WriteFile, TouchFile, RemoveFile, CreateFile, TreeWrite, TreeTouch, TreeRemove,
         TreeCreate
<1>2. GlobAfter(r, f)
  BY <1>1 DEF DepsAfter
<1>3. PICK found \in SUBSET (IF f \in SourceFiles THEN {f} ELSE Globs[r] \cap SourceFiles) :
        \/ deps'[r] = deps[r] \cup (found \cap exists')
        \/ deps'[r] = deps[r] \ found
  BY <1>2 DEF GlobAfter
<1>4. found \subseteq SourceFiles
  OBVIOUS
<1> QED
  BY <1>3, <1>4

\* What every action preserves: the types.
LEMMA TypeStep == TypeOK /\ [Next]_vars => TypeOK'
<1> SUFFICES ASSUME TypeOK, [Next]_vars PROVE TypeOK'
  OBVIOUS
<1> USE DEF States, Steps, ExecutionModes
<1>a. TreeTypeOK /\ FSTypeOK
  BY DEF TypeOK
<1>b. UNCHANGED treeVars => TreeTypeOK'
  BY <1>a DEF TreeTypeOK, treeVars
<1>c. UNCHANGED fsVars => FSTypeOK'
  BY <1>a DEF FSTypeOK, fsVars
<1>d. version \in [Files -> Nat]
  BY DEF TypeOK, TreeTypeOK
<1>1. ASSUME NEW mode \in RunModes, PrepareRun(mode) PROVE TypeOK'
  BY <1>1, <1>b, <1>c DEF PrepareRun, TypeOK, history
<1>2. CASE QueryRuleFails
  BY <1>2, <1>b, <1>c DEF QueryRuleFails, TypeOK, history
<1>3. ASSUME NEW w \in Watchers, NEW next \in States, TakeEvent(w, next) PROVE TypeOK'
  <2>1. events' \in [Watchers -> Seq(Event)] /\ Head(events[w]) \in Event
    BY <1>3, <1>a, ReceiveQueues DEF TakeEvent
  <2>2. FSTypeOK'
    BY <1>3, <1>a, <2>1 DEF TakeEvent, Receive, FSTypeOK
  <2>3. Head(events[w]).name \in Files
    BY <2>1 DEF Event
  <2>4. pendingChanges' \subseteq Change /\ state' \in States
    BY <1>3, <2>3 DEF TakeEvent, ChangeDetected, KindOf, Change, TypeOK
  <2> QED
    BY <1>3, <1>b, <2>2, <2>4 DEF TakeEvent, TypeOK, history
<1>4. CASE DebounceTimeout
  BY <1>4, <1>b, <1>c DEF DebounceTimeout, TypeOK, history
<1>5. CASE QueryTargets
  <2>1. queried' \in [BuildFiles -> Nat]
    BY <1>5, <1>d DEF QueryTargets, Files
  <2>2. targetGraph' \subseteq Files
    BY <1>5, <1>a, GraphInFiles DEF QueryTargets, TreeTypeOK, graph
  <2> QED
    BY <1>5, <1>b, <1>c, <2>1, <2>2 DEF QueryTargets, TypeOK
<1>15. CASE QueryBuildFiles
  <2>1. targetGraph' \subseteq Files
    BY <1>15 DEF QueryBuildFiles, Files
  <2> QED
    BY <1>15, <1>b, <1>c, <2>1 DEF QueryBuildFiles, TypeOK, history
<1>6. CASE QueryFails
  BY <1>6, <1>b, <1>c DEF QueryFails, TypeOK
<1>7. CASE WatchBuildFiles
  <2>1. TreeTypeOK' /\ FSTypeOK' /\ filesWatched' \in [Watchers -> SUBSET Files]
    BY <1>7, WatchFilesStep DEF WatchBuildFiles, TypeOK, Watchers, Files
  <2> QED
    BY <1>7, <2>1 DEF WatchBuildFiles, TypeOK, history
<1>8. CASE WatchSourceFiles
  <2>1. TreeTypeOK' /\ FSTypeOK' /\ filesWatched' \in [Watchers -> SUBSET Files]
    <3>1. PICK toWatch \in SourceFilesFromGraph : WatchFiles(toWatch, "source")
      BY <1>8 DEF WatchSourceFiles
    <3>2. toWatch \in SUBSET Files
      BY DEF SourceFilesFromGraph, Files
    <3> QED
      BY <3>1, <3>2, WatchFilesStep DEF Watchers
  <2> QED
    BY <1>8, <2>1 DEF WatchSourceFiles, TypeOK, history
<1>9. CASE RunBegin
  <2>1. told' \in [Files -> Nat]
    BY <1>9, <1>d DEF RunBegin, TypeOK
  <2> QED
    BY <1>9, <1>b, <1>c, <1>d, <2>1 DEF RunBegin, TypeOK
<1>10. CASE RunEnd
  <2>1. PICK o \in Outcomes : executionMode' = ModeAfter(o)
    BY <1>10 DEF RunEnd
  <2>2. executionMode' \in ExecutionModes
    BY <2>1 DEF ModeAfter, TypeOK
  <2>3. pendingChanges' \subseteq Change
    BY <1>10 DEF RunEnd, Change
  <2> QED
    BY <1>10, <1>b, <1>c, <2>1, <2>2, <2>3 DEF RunEnd, TypeOK
<1>11. ASSUME NEW f \in Files, EnvStep(f) PROVE TypeOK'
  <2>1. TreeTypeOK' /\ FSTypeOK'
    BY <1>11, EditStep
  <2>2. missed' \subseteq BuildFiles
    BY <1>11 DEF EnvStep, TypeOK
  <2>3. globbed' \subseteq SourceFiles
    BY <1>11, GlobsFindSources DEF EnvStep, TypeOK
  <2> QED
    BY <1>11, <2>1, <2>2, <2>3 DEF EnvStep, TypeOK, loopVars
<1>12. ASSUME NEW d \in Dirs, RemoveDir(d), UNCHANGED <<loopVars, history>> PROVE TypeOK'
  <2>1. TreeTypeOK'
    BY <1>12, <1>a, SourceTreeAssumption DEF RemoveDir, TreeRemoveDir, AnEdit, TreeTypeOK
  <2>2. FSTypeOK'
    BY <1>12, <1>a DEF RemoveDir, FSTypeOK
  <2> QED
    BY <1>12, <2>1, <2>2 DEF TypeOK, loopVars, history
<1>13. CASE UNCHANGED vars
  BY <1>13, <1>b, <1>c DEF vars, TypeOK, loopVars, history
<1>14. CASE WaitSource \/ WaitBuild \/ DebounceRunEvent \/ DebounceQueryEvent
  BY <1>14, <1>3 DEF WaitSource, WaitBuild, DebounceRunEvent, DebounceQueryEvent, Watchers
<1> QED
  BY <1>1, <1>2, <1>4, <1>5, <1>6, <1>7, <1>8, <1>9, <1>10, <1>11, <1>12, <1>13, <1>14,
     <1>15 DEF Next, LoopNext, EnvNext

\* The variables keep their types, whatever is edited and whatever fails.
THEOREM TypeCorrect == Spec => []TypeOK
<1>1. Init => TypeOK
  BY TypeInit
<1>2. TypeOK /\ [Next]_vars => TypeOK'
  BY TypeStep
<1> QED
  BY <1>1, <1>2, PTL DEF Spec

(***************************************************************************)
(* No lost edit.                                                           *)
(***************************************************************************)

\* Where the steps of an iteration belong: without it the loop could wait in the middle
\* of a command and take an event of a change the command may have missed.
StepOK ==
    /\ step = "running" => state = "RUN"
    /\ step \in {"targetsQueried", "queried", "buildWatched"} => state = "QUERY"

\* The steps of an iteration happen in the states they belong to.
LEMMA StepOKStep == StepOK /\ [Next]_vars => StepOK'
<1> SUFFICES ASSUME StepOK, [Next]_vars PROVE StepOK'
  OBVIOUS
<1> USE DEF StepOK
<1>1. CASE LoopNext
  <2>1. CASE WaitSource \/ WaitBuild \/ DebounceRunEvent \/ DebounceQueryEvent
    BY <2>1 DEF WaitSource, WaitBuild, DebounceRunEvent, DebounceQueryEvent, TakeEvent
  <2>2. CASE (\E mode \in RunModes : PrepareRun(mode)) \/ QueryRuleFails \/ DebounceTimeout
    BY <2>2 DEF PrepareRun, QueryRuleFails, DebounceTimeout, At
  <2>3. CASE QueryTargets \/ QueryBuildFiles \/ QueryFails \/ WatchBuildFiles \/ WatchSourceFiles
    BY <2>3 DEF QueryTargets, QueryBuildFiles, QueryFails, WatchBuildFiles, WatchSourceFiles, At
  <2>4. CASE RunBegin \/ RunEnd
    BY <2>4 DEF RunBegin, RunEnd, At
  <2> QED
    BY <1>1, <2>1, <2>2, <2>3, <2>4 DEF LoopNext
<1>2. CASE EnvNext \/ UNCHANGED vars
  BY <1>2 DEF EnvNext, EnvStep, loopVars, vars
<1> QED
  BY <1>1, <1>2 DEF Next

\* Taking an event from w loses no event for a watched file: it is still queued, or it was
\* recorded in pendingChanges and moved the loop on.
LEMMA TakeEventStep ==
    ASSUME TypeOK, NEW w \in Watchers, NEW next, TakeEvent(w, next)
    PROVE  /\ UNCHANGED <<treeVars, kernel, filesWatched, step, executionMode, history>>
           /\ pendingChanges \subseteq pendingChanges'
           /\ \/ state' = state
              \/ /\ state' = next
                 /\ \E c \in pendingChanges' : c.kind = KindOf(w)
           /\ \A v \in Watchers, g \in Files : Queued(v, g) =>
                \/ Queued(v, g)'
                \/ v = w /\ g \notin filesWatched[w]
                \/ /\ v = w
                   /\ state' = next
                   /\ [path |-> g, kind |-> KindOf(w)] \in pendingChanges'
<1> DEFINE e == Head(events[w])
<1>1. FSTypeOK /\ Receive(w)
  BY DEF TypeOK, TakeEvent
<1>2. /\ \A v \in Watchers \ {w} : events'[v] = events[v]
      /\ \A g : Queued(w, g) => Queued(w, g)' \/ (e.name = g /\ e.modifying)
  BY <1>1, ReceiveQueues
<1>3. IF Relevant(w, e) THEN ChangeDetected(KindOf(w), e.name) /\ state' = next
                        ELSE UNCHANGED <<pendingChanges, state>>
  BY DEF TakeEvent
<1>4. ASSUME NEW v \in Watchers, NEW g \in Files, Queued(v, g), ~Queued(v, g)',
             g \in filesWatched[w]
      PROVE  v = w /\ state' = next /\ [path |-> g, kind |-> KindOf(w)] \in pendingChanges'
  <2>1. v = w
    BY <1>2, <1>4 DEF Queued
  <2>2. e.name = g /\ e.modifying
    BY <1>2, <1>4, <2>1
  <2>3. Relevant(w, e)
    BY <1>4, <2>2 DEF Relevant
  <2> QED
    BY <1>3, <2>1, <2>2, <2>3 DEF ChangeDetected
<1>5. ASSUME state' # state
      PROVE  state' = next /\ \E c \in pendingChanges' : c.kind = KindOf(w)
  <2>1. state' = next /\ [path |-> e.name, kind |-> KindOf(w)] \in pendingChanges'
    BY <1>3, <1>5 DEF ChangeDetected
  <2> QED
    BY <2>1
<1>6. pendingChanges \subseteq pendingChanges'
  BY <1>3 DEF ChangeDetected
<1>7. UNCHANGED <<treeVars, kernel, filesWatched, step, executionMode, history>>
  BY <1>1 DEF TakeEvent, Receive
<1>8. ASSUME NEW v \in Watchers, NEW g \in Files, Queued(v, g)
      PROVE  \/ Queued(v, g)'
             \/ v = w /\ g \notin filesWatched[w]
             \/ v = w /\ state' = next /\ [path |-> g, kind |-> KindOf(w)] \in pendingChanges'
  <2>1. CASE v # w
    BY <1>2, <1>8, <2>1 DEF Queued
  <2>2. CASE v = w
    BY <1>4, <1>8, <2>2
  <2> QED
    BY <2>1, <2>2
<1> QED
  BY <1>5, <1>6, <1>7, <1>8

\* NoLostEdit for one file, as the steps below preserve it.
Safe(f) ==
    state # "EXITED" /\ Effective("source", f) =>
        built[f] = version[f] \/ Queued("source", f) \/ Committed

\* The loop commits to a command before it drops the last sign of a change.
LEMMA NoLostEditStep == TypeOK /\ StepOK /\ NoLostEdit /\ [Next]_vars => NoLostEdit'
<1> SUFFICES ASSUME TypeOK, StepOK, NoLostEdit, [Next]_vars, NEW f \in SourceFiles
             PROVE  Safe(f)'
  BY DEF NoLostEdit, Safe
<1>a. Safe(f) /\ f \in Files /\ "source" \in Watchers
  BY DEF NoLostEdit, Safe, Files, Watchers
<1>b. StepOK'
  BY StepOKStep
<1>1. ASSUME NEW mode \in RunModes, PrepareRun(mode) PROVE Safe(f)'
  BY <1>1, <1>b DEF PrepareRun, Safe, Committed, StepOK
<1>2. CASE QueryRuleFails
  BY <1>2 DEF QueryRuleFails, Safe
<1>3. CASE WaitSource \/ WaitBuild \/ DebounceRunEvent \/ DebounceQueryEvent
  <2>1. PICK w \in Watchers, next \in {"DEBOUNCE_RUN", "DEBOUNCE_QUERY"} :
          TakeEvent(w, next) /\ state \in {"WAIT", "DEBOUNCE_RUN", "DEBOUNCE_QUERY"}
    BY <1>3 DEF WaitSource, WaitBuild, DebounceRunEvent, DebounceQueryEvent, Watchers
  <2>2. /\ UNCHANGED <<treeVars, kernel, filesWatched, history>>
        /\ state' = state \/ state' = next
        /\ Queued("source", f) =>
             Queued("source", f)' \/ f \notin filesWatched["source"] \/ state' = next
    BY <1>a, <2>1, TakeEventStep
  <2>3. state' \in {"DEBOUNCE_RUN", "DEBOUNCE_QUERY"} => Committed'
    BY <1>b DEF Committed, StepOK
  <2>4. CASE state' = "WAIT"
    <3>1. state = "WAIT" /\ ~Committed
      BY <2>1, <2>2, <2>4 DEF Committed
    <3> QED
      BY <1>a, <2>1, <2>2, <2>4, <3>1 DEF Safe, Effective, treeVars, history
  <2> QED
    BY <2>1, <2>2, <2>3, <2>4 DEF Safe
<1>4. CASE DebounceTimeout
  BY <1>4, <1>b DEF DebounceTimeout, Safe, Committed, StepOK
<1>5. CASE QueryTargets \/ QueryBuildFiles
  BY <1>5 DEF QueryTargets, QueryBuildFiles, Safe, Committed, At
<1>6. CASE QueryFails
  BY <1>6 DEF QueryFails, Safe, Committed, At
<1>7. CASE WatchBuildFiles
  BY <1>7 DEF WatchBuildFiles, Safe, Committed, At
<1>8. CASE WatchSourceFiles
  BY <1>8 DEF WatchSourceFiles, Safe, Committed
<1>9. CASE RunBegin
  BY <1>9 DEF RunBegin, Safe, treeVars
<1>10. CASE RunEnd
  <2>1. UNCHANGED <<treeVars, fsVars, filesWatched, built>> /\ step' = "begin" /\ ~Committed
    BY <1>10 DEF RunEnd, At, Committed
  <2>2. state # "EXITED"
    BY <1>10 DEF RunEnd, At
  <2> QED
    BY <1>a, <2>1, <2>2 DEF Safe, Effective, Queued, treeVars, fsVars
<1>11. ASSUME NEW g \in Files, EnvStep(g) PROVE Safe(f)'
  <2>1. /\ UNCHANGED <<kernel, loopVars, built>>
        /\ Queued("source", f) => Queued("source", f)'
        /\ version'[f] # version[f] =>
             (DirOf[f] \in kernel["source"] => Queued("source", f)')
    BY <1>a, <1>11, EditStep
  <2> QED
    BY <1>a, <2>1 DEF Safe, Effective, Committed, loopVars
<1>12. ASSUME NEW d \in Dirs, RemoveDir(d), UNCHANGED <<loopVars, history>> PROVE Safe(f)'
  <2>1. UNCHANGED <<events, version>> /\ kernel'["source"] \subseteq kernel["source"]
    BY <1>12, <1>a DEF RemoveDir, TreeRemoveDir
  <2> QED
    BY <1>a, <1>12, <2>1 DEF Safe, Effective, Queued, Committed, loopVars, history
<1>13. CASE UNCHANGED vars
  BY <1>a, <1>13
     DEF Safe, Effective, Queued, Committed, vars, loopVars, treeVars, fsVars, history
<1> QED
  BY <1>1, <1>2, <1>3, <1>4, <1>5, <1>6, <1>7, <1>8, <1>9, <1>10, <1>11, <1>12, <1>13
     DEF Next, LoopNext, EnvNext

\* No change of a watched source file is lost, at whatever point of the loop it comes.
THEOREM NoLostEditHolds == Spec => []NoLostEdit
<1>1. Init => TypeOK /\ StepOK /\ NoLostEdit
  <2>1. Init => StepOK
    BY DEF Init, StepOK
  <2>2. Init => NoLostEdit
    BY DEF Init, NoLostEdit
  <2> QED
    BY <2>1, <2>2, TypeInit
<1>2. TypeOK /\ StepOK /\ NoLostEdit /\ [Next]_vars => (TypeOK /\ StepOK /\ NoLostEdit)'
  BY TypeStep, StepOKStep, NoLostEditStep
<1> QED
  BY <1>1, <1>2, PTL DEF Spec

(***************************************************************************)
(* Notification mode: the consumer hears of every change.                  *)
(***************************************************************************)

GraphPending == \E c \in pendingChanges : c.kind = "graph"

\* ConsumerTold for one file, strengthened: while NotifyOfChanges runs, pendingChanges no
\* longer counts, because it is reset when the command ends.
Told(f) ==
    executionMode = "notification" /\ Effective("source", f) =>
        \/ told[f] = version[f]
        \/ Queued("source", f)
        \/ step # "running" /\ Accounted(f)

\* A watch list is replaced only while a graph change is pending: the first query of
\* notification mode is that of the catch-up build, every other one follows a BUILD edit.
QueryForGraph ==
    /\ state = "DEBOUNCE_QUERY" => GraphPending
    /\ executionMode = "notification" => state # "PREPARE" /\ (state = "QUERY" => GraphPending)

ConsumerInv == QueryForGraph /\ \A f \in SourceFiles : Told(f)

\* Queries of notification mode have a graph change to report.
LEMMA QueryForGraphStep == TypeOK /\ StepOK /\ QueryForGraph /\ [Next]_vars => QueryForGraph'
<1> SUFFICES ASSUME TypeOK, StepOK, QueryForGraph, [Next]_vars PROVE QueryForGraph'
  OBVIOUS
<1>1. CASE (\E mode \in RunModes : PrepareRun(mode)) \/ QueryRuleFails
  BY <1>1 DEF PrepareRun, QueryRuleFails, QueryForGraph
<1>2. ASSUME NEW w \in Watchers, NEW next, TakeEvent(w, next),
             state \in {"WAIT", "DEBOUNCE_RUN", "DEBOUNCE_QUERY"},
             next = "DEBOUNCE_RUN" \/ (next = "DEBOUNCE_QUERY" /\ w = "build")
      PROVE  QueryForGraph'
  <2>1. /\ UNCHANGED executionMode
        /\ pendingChanges \subseteq pendingChanges'
        /\ \/ state' = state
           \/ state' = next /\ \E c \in pendingChanges' : c.kind = KindOf(w)
    BY <1>2, TakeEventStep
  <2>2. GraphPending => GraphPending'
    BY <2>1 DEF GraphPending
  <2>3. state' = "DEBOUNCE_QUERY" => GraphPending'
    BY <1>2, <2>1, <2>2 DEF QueryForGraph, GraphPending, KindOf
  <2>4. state' \notin {"PREPARE", "QUERY"}
    BY <1>2, <2>1
  <2> QED
    BY <2>3, <2>4 DEF QueryForGraph
<1>7. CASE WaitSource \/ WaitBuild \/ DebounceRunEvent \/ DebounceQueryEvent
  <2>1. PICK w \in Watchers, next \in {"DEBOUNCE_RUN", "DEBOUNCE_QUERY"} :
          /\ TakeEvent(w, next)
          /\ state \in {"WAIT", "DEBOUNCE_RUN", "DEBOUNCE_QUERY"}
          /\ next = "DEBOUNCE_RUN" \/ (next = "DEBOUNCE_QUERY" /\ w = "build")
    BY <1>7 DEF WaitSource, WaitBuild, DebounceRunEvent, DebounceQueryEvent, Watchers
  <2> QED
    BY <1>2, <2>1
<1>3. CASE DebounceTimeout
  BY <1>3 DEF DebounceTimeout, QueryForGraph, GraphPending
<1>4. CASE QueryTargets \/ QueryBuildFiles \/ QueryFails \/ WatchBuildFiles \/ WatchSourceFiles
           \/ RunBegin
  BY <1>4 DEF QueryTargets, QueryBuildFiles, QueryFails, WatchBuildFiles, WatchSourceFiles,
              RunBegin, At, QueryForGraph, GraphPending
<1>5. CASE RunEnd
  <2>1. CASE executionMode = "notificationStartup"
    <3>1. state' = "QUERY" /\ [path |-> NoFile, kind |-> "graph"] \in pendingChanges'
      BY <1>5, <2>1 DEF RunEnd
    <3> QED
      BY <3>1 DEF QueryForGraph, GraphPending
  <2>2. CASE executionMode # "notificationStartup"
    BY <1>5, <2>2 DEF RunEnd, QueryForGraph
  <2> QED
    BY <2>1, <2>2
<1>6. CASE EnvNext \/ UNCHANGED vars
  BY <1>6 DEF EnvNext, EnvStep, loopVars, vars, QueryForGraph, GraphPending
<1> QED
  BY <1>1, <1>3, <1>4, <1>5, <1>6, <1>7 DEF Next, LoopNext

\* A pending graph change accounts for every file.
LEMMA GraphPendingAccounts == ASSUME NEW f, GraphPending PROVE Accounted(f)
BY DEF GraphPending, Accounted

\* No step makes the consumer miss a change.
LEMMA ConsumerStep == TypeOK /\ StepOK /\ ConsumerInv /\ [Next]_vars => ConsumerInv'
<1> SUFFICES ASSUME TypeOK, StepOK, ConsumerInv, [Next]_vars, NEW f \in SourceFiles
             PROVE  Told(f)'
  BY QueryForGraphStep DEF ConsumerInv
<1>a. Told(f) /\ QueryForGraph /\ f \in Files /\ "source" \in Watchers
  BY DEF ConsumerInv, Files, Watchers
<1>b. StepOK' /\ QueryForGraph'
  BY <1>a, StepOKStep, QueryForGraphStep
<1>c. ASSUME executionMode' = "notification", state' = "QUERY", step' # "running" PROVE Told(f)'
  <2>1. GraphPending'
    BY <1>b, <1>c DEF QueryForGraph
  <2>2. Accounted(f)'
    BY <2>1 DEF GraphPending, Accounted
  <2> QED
    BY <1>c, <2>2 DEF Told
<1>1. CASE (\E mode \in RunModes : PrepareRun(mode))
  BY <1>1 DEF PrepareRun, Told
<1>2. CASE QueryRuleFails \/ DebounceTimeout \/ QueryTargets \/ QueryBuildFiles \/ QueryFails
  <2>1. UNCHANGED <<version, fsVars, executionMode, filesWatched, pendingChanges, told>>
    BY <1>2 DEF QueryRuleFails, DebounceTimeout, QueryTargets, QueryBuildFiles, QueryFails,
                treeVars, history
  <2>2. step' # "running" \/ step' = step
    BY <1>2 DEF QueryRuleFails, DebounceTimeout, QueryTargets, QueryBuildFiles, QueryFails
  <2> QED
    BY <1>a, <2>1, <2>2 DEF Told, Effective, Queued, Accounted, fsVars
<1>3. CASE WaitSource \/ WaitBuild \/ DebounceRunEvent \/ DebounceQueryEvent
  <2>1. PICK w \in Watchers, next \in {"DEBOUNCE_RUN", "DEBOUNCE_QUERY"} :
          TakeEvent(w, next) /\ state # "RUN"
    BY <1>3 DEF WaitSource, WaitBuild, DebounceRunEvent, DebounceQueryEvent, Watchers
  <2>2. /\ UNCHANGED <<treeVars, kernel, filesWatched, step, executionMode, history>>
        /\ pendingChanges \subseteq pendingChanges'
        /\ Queued("source", f) =>
             \/ Queued("source", f)'
             \/ f \notin filesWatched["source"]
             \/ [path |-> f, kind |-> KindOf(w)] \in pendingChanges'
    BY <1>a, <2>1, TakeEventStep
  <2>3. [path |-> f, kind |-> KindOf(w)] \in pendingChanges' => Accounted(f)'
    BY DEF Accounted
  <2>4. Accounted(f) => Accounted(f)'
    BY <2>2 DEF Accounted
  <2>5. step # "running"
    BY <2>1 DEF StepOK
  <2> QED
    BY <1>a, <2>2, <2>3, <2>4, <2>5 DEF Told, Effective, treeVars, history
<1>4. CASE WatchBuildFiles
  BY <1>4, <1>c DEF WatchBuildFiles, At, Told
<1>5. CASE WatchSourceFiles
  <2>1. executionMode' = executionMode /\ state = "QUERY" /\ step' = "begin"
        /\ pendingChanges' = pendingChanges
    BY <1>5 DEF WatchSourceFiles, At
  <2>2. executionMode = "notification" => Accounted(f)
    BY <1>a, <2>1, GraphPendingAccounts DEF QueryForGraph
  <2> QED
    BY <2>1, <2>2 DEF Told, Accounted
<1>6. CASE RunBegin
  <2>1. /\ UNCHANGED <<version, fsVars, executionMode, filesWatched>>
        /\ step = "begin"
        /\ executionMode = "notification" =>
             told'[f] = IF Accounted(f) THEN version[f] ELSE told[f]
    BY <1>a, <1>6 DEF RunBegin, At, treeVars
  <2> QED
    BY <1>a, <2>1 DEF Told, Effective, Queued, fsVars
<1>7. CASE RunEnd
  <2>1. /\ UNCHANGED <<version, fsVars, filesWatched, told>>
        /\ step = "running" /\ step' = "begin"
    BY <1>7 DEF RunEnd, At, treeVars
  <2>2. CASE executionMode = "notificationStartup"
    BY <1>7, <1>c, <2>1, <2>2 DEF RunEnd, Told
  <2>3. CASE executionMode = "notification"
    BY <1>a, <2>1, <2>3 DEF Told, Effective, Queued, fsVars
  <2>4. CASE executionMode \notin {"notificationStartup", "notification"}
    BY <1>7, <2>4 DEF RunEnd, ModeAfter, Told
  <2> QED
    BY <2>2, <2>3, <2>4
<1>8. ASSUME NEW g \in Files, EnvStep(g) PROVE Told(f)'
  <2>1. /\ UNCHANGED <<kernel, loopVars, told>>
        /\ Queued("source", f) => Queued("source", f)'
        /\ version'[f] # version[f] =>
             (DirOf[f] \in kernel["source"] => Queued("source", f)')
    BY <1>a, <1>8, EditStep
  <2> QED
    BY <1>a, <2>1 DEF Told, Effective, Accounted, loopVars
<1>9. ASSUME NEW d \in Dirs, RemoveDir(d), UNCHANGED <<loopVars, history>> PROVE Told(f)'
  <2>1. UNCHANGED <<events, version>> /\ kernel'["source"] \subseteq kernel["source"]
    BY <1>9, <1>a DEF RemoveDir, TreeRemoveDir
  <2> QED
    BY <1>a, <1>9, <2>1 DEF Told, Effective, Queued, Accounted, loopVars, history
<1>10. CASE UNCHANGED vars
  BY <1>a, <1>10
     DEF Told, Effective, Queued, Accounted, vars, loopVars, treeVars, fsVars, history
<1> QED
  BY <1>1, <1>2, <1>3, <1>4, <1>5, <1>6, <1>7, <1>8, <1>9, <1>10 DEF Next, LoopNext, EnvNext

\* In notification mode every change of a watched source file is reported to the target,
\* or will be.
THEOREM ConsumerToldHolds == Spec => []ConsumerTold
<1>1. Init => TypeOK /\ StepOK /\ ConsumerInv
  <2>1. Init => StepOK /\ ConsumerInv
    BY DEF Init, StepOK, ConsumerInv, QueryForGraph, Told
  <2> QED
    BY <2>1, TypeInit
<1>2. TypeOK /\ StepOK /\ ConsumerInv /\ [Next]_vars => (TypeOK /\ StepOK /\ ConsumerInv)'
  BY TypeStep, StepOKStep, ConsumerStep
<1>3. ConsumerInv => ConsumerTold
  BY DEF ConsumerInv, Told, ConsumerTold
<1> QED
  BY <1>1, <1>2, <1>3, PTL DEF Spec

(***************************************************************************)
(* BUILD files: the graph the loop knows follows them.                     *)
(***************************************************************************)

\* Nothing about BUILD file f is forgotten.
Known(f) == f \in missed \/ queried[f] = version[f] \/ Queued("build", f)

\* The answers of the queries wait to become watches.
GraphRead == state = "QUERY" /\ step \in {"targetsQueried", "queried"}

\* GraphFollowsEdits, strengthened: between the query's answer and the watches it leads to,
\* nothing is forgotten of any BUILD file, watched or not.
GraphInv ==
    \A f \in BuildFiles :
        /\ GraphRead => Known(f)
        /\ ~queryFailed /\ Effective("build", f) => Known(f) \/ HeadingToQuery

\* No step forgets a change of a watched BUILD file.
LEMMA GraphStep == TypeOK /\ StepOK /\ GraphInv /\ [Next]_vars => GraphInv'
<1> SUFFICES ASSUME TypeOK, StepOK, GraphInv, [Next]_vars, NEW f \in BuildFiles
             PROVE  /\ GraphRead' => Known(f)'
                    /\ ~queryFailed' /\ Effective("build", f)' => Known(f)' \/ HeadingToQuery'
  BY DEF GraphInv
<1>a. /\ f \in Files /\ "build" \in Watchers
      /\ GraphRead => Known(f)
      /\ ~queryFailed /\ Effective("build", f) => Known(f) \/ HeadingToQuery
  BY DEF GraphInv, Files, Watchers
<1> USE DEF At, HeadingToQuery, GraphRead
<1>1. CASE (\E mode \in RunModes : PrepareRun(mode)) \/ QueryRuleFails \/ RunBegin \/ RunEnd
  <2>1. UNCHANGED <<version, fsVars, filesWatched, queried, missed, queryFailed>>
    BY <1>1 DEF PrepareRun, QueryRuleFails, RunBegin, RunEnd, treeVars, history
  <2>2. ~HeadingToQuery /\ ~GraphRead'
    BY <1>1 DEF PrepareRun, QueryRuleFails, RunBegin, RunEnd, StepOK
  <2> QED
    BY <1>a, <2>1, <2>2 DEF Known, Effective, Queued, fsVars
<1>2. CASE DebounceTimeout
  <2>1. /\ UNCHANGED <<version, fsVars, filesWatched, queried, missed, queryFailed, step>>
        /\ state = "DEBOUNCE_QUERY" => state' = "QUERY"
        /\ state \in {"DEBOUNCE_QUERY", "DEBOUNCE_RUN"}
    BY <1>2 DEF DebounceTimeout, treeVars, history
  <2>2. step \notin {"targetsQueried", "queried", "buildWatched", "running"}
    BY <2>1 DEF StepOK
  <2>3. step = "begin"
    BY <2>2 DEF TypeOK, Steps
  <2> QED
    BY <1>a, <2>1, <2>3 DEF Known, Effective, Queued, fsVars
<1>3. CASE WaitSource \/ WaitBuild \/ DebounceRunEvent \/ DebounceQueryEvent
  <2>1. PICK w \in Watchers, next \in {"DEBOUNCE_RUN", "DEBOUNCE_QUERY"} :
          /\ TakeEvent(w, next)
          /\ state \in {"WAIT", "DEBOUNCE_RUN", "DEBOUNCE_QUERY"}
          /\ w = "build" => next = "DEBOUNCE_QUERY"
          /\ state = "DEBOUNCE_QUERY" => next = "DEBOUNCE_QUERY"
    BY <1>3 DEF WaitSource, WaitBuild, DebounceRunEvent, DebounceQueryEvent, Watchers
  <2>2. /\ UNCHANGED <<treeVars, kernel, filesWatched, history>>
        /\ state' = state \/ state' = next
        /\ Queued("build", f) =>
             \/ Queued("build", f)'
             \/ f \notin filesWatched["build"]
             \/ w = "build" /\ state' = next
    BY <1>a, <2>1, TakeEventStep
  <2> QED
    BY <1>a, <2>1, <2>2 DEF Known, Effective, treeVars, history
<1>4. CASE QueryTargets
  BY <1>4 DEF QueryTargets, Known, treeVars
<1>11. CASE QueryBuildFiles
  <2>1. UNCHANGED <<version, events, queried, missed>>
    BY <1>11 DEF QueryBuildFiles, treeVars, fsVars, history
  <2>2. Known(f)
    BY <1>a, <1>11 DEF QueryBuildFiles
  <2> QED
    BY <2>1, <2>2 DEF Known, Queued
<1>5. CASE QueryFails
  BY <1>5 DEF QueryFails
<1>6. CASE WatchBuildFiles
  <2>1. UNCHANGED <<version, events, queried, missed>>
    BY <1>6 DEF WatchBuildFiles, WatchFiles, treeVars, history
  <2>2. Known(f)
    BY <1>a, <1>6 DEF WatchBuildFiles
  <2> QED
    BY <2>1, <2>2 DEF Known, Queued
<1>7. CASE WatchSourceFiles
  <2>1. PICK toWatch \in SourceFilesFromGraph : WatchFiles(toWatch, "source")
    BY <1>7 DEF WatchSourceFiles
  <2>2. /\ UNCHANGED <<treeVars, events>>
        /\ filesWatched'["build"] = filesWatched["build"] /\ kernel'["build"] = kernel["build"]
    BY <2>1, WatchFilesStep DEF SourceFilesFromGraph, Files, Watchers
  <2> QED
    BY <1>a, <1>7, <2>2 DEF WatchSourceFiles, Known, Effective, Queued, treeVars, history
<1>8. ASSUME NEW g \in Files, EnvStep(g)
      PROVE  /\ GraphRead' => Known(f)'
             /\ ~queryFailed' /\ Effective("build", f)' => Known(f)' \/ HeadingToQuery'
  <2>1. /\ UNCHANGED <<kernel, loopVars, queried, queryFailed>>
        /\ Queued("build", f) => Queued("build", f)'
        /\ version'[f] # version[f] =>
             /\ f = g
             /\ DirOf[f] \in kernel["build"] => Queued("build", f)'
    BY <1>a, <1>8, EditStep
  <2>2. /\ missed \subseteq missed'
        /\ version'[f] # version[f] /\ DirOf[f] \notin kernel["build"] => f \in missed'
    BY <1>8, <2>1 DEF EnvStep
  <2>3. Known(f) => Known(f)'
    BY <2>1, <2>2 DEF Known
  <2> QED
    BY <1>a, <2>1, <2>3 DEF Effective, loopVars
<1>9. ASSUME NEW d \in Dirs, RemoveDir(d), UNCHANGED <<loopVars, history>>
      PROVE  /\ GraphRead' => Known(f)'
             /\ ~queryFailed' /\ Effective("build", f)' => Known(f)' \/ HeadingToQuery'
  <2>1. UNCHANGED <<events, version>> /\ kernel'["build"] \subseteq kernel["build"]
    BY <1>9, <1>a DEF RemoveDir, TreeRemoveDir
  <2> QED
    BY <1>a, <1>9, <2>1 DEF Known, Effective, Queued, loopVars, history
<1>10. CASE UNCHANGED vars
  BY <1>a, <1>10 DEF Known, Effective, Queued, vars, loopVars, treeVars, fsVars, history
<1> QED
  BY <1>1, <1>2, <1>3, <1>4, <1>5, <1>6, <1>7, <1>8, <1>9, <1>10, <1>11
     DEF Next, LoopNext, EnvNext

\* No change of a watched BUILD file is lost, unless it came before the watch or its query
\* failed.
THEOREM GraphFollowsEditsHolds == Spec => []GraphFollowsEdits
<1>1. Init => TypeOK /\ StepOK /\ GraphInv
  <2>1. Init => StepOK /\ GraphInv
    BY DEF Init, FSInit, StepOK, GraphInv, GraphRead, Effective, Watchers
  <2> QED
    BY <2>1, TypeInit
<1>2. TypeOK /\ StepOK /\ GraphInv /\ [Next]_vars => (TypeOK /\ StepOK /\ GraphInv)'
  BY TypeStep, StepOKStep, GraphStep
<1>3. TypeOK /\ GraphInv => GraphFollowsEdits
  BY DEF GraphInv, Known, GraphFollowsEdits, TypeOK
<1> QED
  BY <1>1, <1>2, <1>3, PTL DEF Spec

(***************************************************************************)
(* Quiet means fresh.                                                      *)
(***************************************************************************)

\* The query read another version of BUILD file f.
Dirty(f) == queried[f] # version[f]

\* The rules depend on what they did in d, those of the files edited since the query and
\* what a glob() found or lost since excepted.
ReadAt(d) == \A r \in Rules : deps[r] \ globbed # d[r] \ globbed => \E f \in Declares(r) : Dirty(f)

\* A query of this run has been answered and the next one has not begun.
HasGraph ==
    /\ ~queryFailed
    /\ state \notin {"PREPARE", "EXITED"} /\ ~At("QUERY", "begin")
    /\ executionMode # "notificationStartup"

\* targetGraph is the graph the first query read, or one of its BUILD files was edited since:
\* only such an edit changes the graph between the two queries, and that file is in the
\* answers of both.
GraphKnown ==
    \E d \in RuleGraphs :
        /\ ReadAt(d)
        /\ \/ targetGraph = GraphOf(d)
           \/ step # "targetsQueried" /\ \E f \in targetGraph \cap BuildFiles : Dirty(f)

\* The query reads no later version than there is, and the command that follows it no
\* earlier one than the query.
ReadInOrder ==
    /\ \A f \in BuildFiles : queried[f] <= version[f]
    /\ \A f \in Files : built[f] <= version[f]
    /\ state \in {"WAIT", "DEBOUNCE_QUERY", "DEBOUNCE_RUN"} \/ step = "running" =>
           \A f \in BuildFiles : queried[f] <= built[f]

\* Each watcher has its kind of files, and a start in notification mode ends in a query.
WatchedKinds ==
    /\ filesWatched["build"] \subseteq BuildFiles /\ filesWatched["source"] \subseteq SourceFiles
    /\ executionMode = "notificationStartup" => state \in {"RUN", "EXITED"}

FreshInv == (HasGraph => GraphKnown) /\ ReadInOrder /\ WatchedKinds

\* An edit adds a version, and changes only the rules that the file declares and what a
\* glob() finds.
LEMMA EditGrows ==
    ASSUME TypeOK, NEW f \in Files, EnvStep(f)
    PROVE  /\ \A g \in Files : version[g] \in Nat /\ version'[g] \in Nat /\ version[g] <= version'[g]
           /\ deps' \in RuleGraphs
           /\ globbed \subseteq globbed'
           /\ FoundOrLost(f) = {} =>
                 \A r \in Rules : deps'[r] # deps[r] => f \in Declares(r) /\ version'[f] = version[f] + 1
           /\ \A r \in Rules : deps'[r] \ globbed' # deps[r] \ globbed'
                                => f \in Declares(r) /\ version'[f] = version[f] + 1
<1>1. version \in [Files -> Nat] /\ deps \in RuleGraphs
  BY DEF TypeOK, TreeTypeOK
<1>2. \/ NewContents(f) /\ DepsAfter(f)
      \/ UNCHANGED <<version, deps>>
  BY DEF EnvStep, WriteFile, TouchFile, RemoveFile, CreateFile, TreeWrite, TreeTouch, TreeRemove,
         TreeCreate
<1>3. ASSUME NewContents(f)
      PROVE  \A g \in Files : version'[g] = IF g = f THEN version[g] + 1 ELSE version[g]
  BY <1>1, <1>3 DEF NewContents
<1>4. deps' \in RuleGraphs
  BY <1>1, <1>2 DEF DepsAfter
<1>5. globbed' = globbed \cup FoundOrLost(f)
  BY DEF EnvStep
<1>6. ASSUME NEW r \in Rules, deps'[r] \ globbed' # deps[r] \ globbed'
      PROVE  f \in Declares(r) /\ version'[f] = version[f] + 1
  <2>1. f \in Declares(r)
    <3> SUFFICES ASSUME f \notin Declares(r) PROVE FALSE
      OBVIOUS
    <3>1. (deps'[r] \ deps[r]) \cup (deps[r] \ deps'[r]) \subseteq FoundOrLost(f)
      BY DEF FoundOrLost
    <3> QED
      BY <1>5, <1>6, <3>1
  <2>2. NewContents(f)
    BY <1>2, <1>6
  <2> QED
    BY <1>3, <2>1, <2>2
<1>7. \A g \in Files : version[g] \in Nat /\ version'[g] \in Nat /\ version[g] <= version'[g]
  BY <1>1, <1>2, <1>3
<1>8. ASSUME FoundOrLost(f) = {}, NEW r \in Rules, deps'[r] # deps[r]
      PROVE  f \in Declares(r) /\ version'[f] = version[f] + 1
  <2>1. deps[r] \in SUBSET (Rules \cup SourceFiles) /\ deps'[r] \in SUBSET (Rules \cup SourceFiles)
    BY <1>1, <1>4, SourceTreeAssumption
  <2>2. f \in Declares(r)
    BY <1>8, <2>1 DEF FoundOrLost
  <2>3. NewContents(f)
    BY <1>2, <1>8
  <2> QED
    BY <1>3, <2>2, <2>3
<1> QED
  BY <1>4, <1>5, <1>6, <1>7, <1>8

\* An edit leaves what is dirty dirty, so that GraphKnown and ReadInOrder stay.
LEMMA FreshEdit ==
    ASSUME TypeOK, FreshInv, NEW f \in Files, EnvStep(f)
    PROVE  FreshInv'
<1>1. UNCHANGED <<loopVars, built, queried, queryFailed>>
  BY DEF EnvStep
<1>2. /\ \A g \in Files : version[g] \in Nat /\ version'[g] \in Nat /\ version[g] <= version'[g]
      /\ globbed \subseteq globbed'
      /\ \A r \in Rules : deps'[r] \ globbed' # deps[r] \ globbed'
                           => f \in Declares(r) /\ version'[f] = version[f] + 1
  BY EditGrows
<1>3. /\ \A g \in BuildFiles : g \in Files /\ queried[g] \in Nat /\ queried[g] <= version[g]
      /\ \A g \in Files : built[g] \in Nat /\ built[g] <= version[g]
  BY DEF TypeOK, FreshInv, ReadInOrder, Files
<1>4. ASSUME NEW g \in BuildFiles PROVE /\ Dirty(g) => Dirty(g)'
                                        /\ version'[g] = version[g] + 1 => Dirty(g)'
  BY <1>1, <1>2, <1>3 DEF Dirty
<1>5. ReadInOrder'
  <2>1. \A g \in BuildFiles : queried'[g] <= version'[g]
    BY <1>1, <1>2, <1>3
  <2>2. \A g \in Files : built'[g] <= version'[g]
    BY <1>1, <1>2, <1>3
  <2> QED
    BY <1>1, <2>1, <2>2 DEF FreshInv, ReadInOrder, loopVars
<1>6. ASSUME NEW d \in RuleGraphs, ReadAt(d) PROVE ReadAt(d)'
  <2> SUFFICES ASSUME NEW r \in Rules, deps'[r] \ globbed' # d[r] \ globbed'
                  PROVE  \E g \in Declares(r) : Dirty(g)'
    BY DEF ReadAt
  <2>1. Declares(r) \subseteq BuildFiles
    BY SourceTreeAssumption DEF Declares
  <2>2. CASE deps[r] \ globbed' # d[r] \ globbed'
    <3>1. deps[r] \ globbed # d[r] \ globbed
      BY <1>2, <2>2
    <3> QED
      BY <1>4, <1>6, <2>1, <3>1 DEF ReadAt
  <2>3. CASE deps'[r] \ globbed' # deps[r] \ globbed'
    BY <1>2, <1>4, <2>1, <2>3
  <2> QED
    BY <2>2, <2>3
<1>7. GraphKnown => GraphKnown'
  <2> SUFFICES ASSUME GraphKnown PROVE GraphKnown'
    OBVIOUS
  <2>1. PICK d \in RuleGraphs : 
            /\ ReadAt(d)
            /\ \/ targetGraph = GraphOf(d)
               \/ step # "targetsQueried" /\ \E g \in targetGraph \cap BuildFiles : Dirty(g)
    BY DEF GraphKnown
  <2>2. ReadAt(d)'
    BY <1>6, <2>1
  <2>3. UNCHANGED <<targetGraph, step>>
    BY <1>1 DEF loopVars
  <2>4. \/ targetGraph' = GraphOf(d)
        \/ step' # "targetsQueried" /\ \E g \in targetGraph' \cap BuildFiles : Dirty(g)'
    BY <1>4, <2>1, <2>3
  <2> QED
    BY <2>2, <2>4 DEF GraphKnown
<1> QED
  BY <1>1, <1>5, <1>7 DEF FreshInv, HasGraph, At, WatchedKinds, loopVars

\* The second query answers with the BUILD files of the first, or with one edited since.
LEMMA FreshQueryBuildFiles ==
    ASSUME TypeOK, HasGraph => GraphKnown, HasGraph, QueryBuildFiles
    PROVE  GraphKnown'
<1>1. UNCHANGED <<treeVars, queried, globbed>> /\ step = "targetsQueried" /\ step' = "queried"
  BY DEF QueryBuildFiles, At, history
<1>2. PICK d \in RuleGraphs : ReadAt(d) /\ targetGraph = GraphOf(d)
  BY <1>1 DEF GraphKnown
<1>3. PICK found \in SUBSET (BuildFiles \cap (targetGraph \cup graph)) :
          /\ BuildFiles \cap targetGraph \cap graph \subseteq found
          /\ targetGraph' = (targetGraph \cap SourceFiles) \cup found
  BY DEF QueryBuildFiles
<1>4. deps \in RuleGraphs /\ graph = GraphOf(deps)
  BY DEF TypeOK, TreeTypeOK, graph
<1>5. ReadAt(d)' /\ \A f : Dirty(f)' = Dirty(f)
  BY <1>1, <1>2 DEF ReadAt, Dirty, treeVars
<1>6. CASE \E f \in GraphOf(d) \cap GraphOf(deps) \cap BuildFiles : Dirty(f)
  <2>1. PICK f \in GraphOf(d) \cap GraphOf(deps) \cap BuildFiles : Dirty(f)
    BY <1>6
  <2>2. f \in targetGraph' \cap BuildFiles
    BY <1>2, <1>3, <1>4
  <2> QED
    BY <1>1, <1>5, <2>1, <2>2 DEF GraphKnown
<1>7. CASE \A f \in GraphOf(d) \cap GraphOf(deps) \cap BuildFiles : ~Dirty(f)
  <2> DEFINE changed == {f \in BuildFiles : Dirty(f)}
  <2>1. SameBut(deps, d, changed, globbed)
    BY <1>2, SourceTreeAssumption DEF ReadAt, Declares, SameBut
  <2>2. GraphOf(deps) \cap GraphOf(d) \cap BuildFiles \cap changed = {}
    BY <1>7
  <2> HIDE DEF changed
  <2>3. globbed \in SUBSET SourceFiles /\ GraphOf(deps) \ globbed = GraphOf(d) \ globbed
    <3>1. globbed \in SUBSET SourceFiles
      BY DEF TypeOK
    <3> QED
      BY <1>4, <2>1, <2>2, <3>1, GraphsAgree
  <2>4. GraphOf(deps) \cap BuildFiles = GraphOf(d) \cap BuildFiles
    BY <2>3, SourceTreeAssumption
  <2>5. found = GraphOf(d) \cap BuildFiles
    BY <1>2, <1>3, <1>4, <2>4
  <2>6. targetGraph' = GraphOf(d)
    BY <1>2, <1>3, <2>5, GraphInFiles DEF Files
  <2> QED
    BY <1>5, <2>6 DEF GraphKnown
<1> QED
  BY <1>6, <1>7

\* A step of the loop that reads nothing new keeps GraphKnown, unless a query begins again.
LEMMA FreshKept ==
    ASSUME GraphKnown, UNCHANGED <<treeVars, targetGraph, queried, globbed>>,
           step' # "targetsQueried" \/ step' = step
    PROVE  GraphKnown'
<1>1. \A f : Dirty(f)' = Dirty(f)
  BY DEF Dirty, treeVars
<1>2. \A d : ReadAt(d)' = ReadAt(d)
  BY <1>1 DEF ReadAt, treeVars
<1>3. PICK d \in RuleGraphs :
          /\ ReadAt(d)
          /\ \/ targetGraph = GraphOf(d)
             \/ step # "targetsQueried" /\ \E f \in targetGraph \cap BuildFiles : Dirty(f)
  BY DEF GraphKnown
<1>4. \/ targetGraph' = GraphOf(d)
      \/ step' # "targetsQueried" /\ \E f \in targetGraph' \cap BuildFiles : Dirty(f)'
  BY <1>1, <1>3
<1> QED
  BY <1>2, <1>3, <1>4 DEF GraphKnown

\* Every step keeps FreshInv.
LEMMA FreshStep == TypeOK /\ StepOK /\ FreshInv /\ [Next]_vars => FreshInv'
<1> SUFFICES ASSUME TypeOK, StepOK, FreshInv, [Next]_vars PROVE FreshInv'
  OBVIOUS
<1>0. /\ StepOK' /\ step \in Steps
      /\ \A f \in BuildFiles : queried[f] \in Nat /\ f \in Files
      /\ \A f \in Files : built[f] \in Nat /\ version[f] \in Nat
  BY StepOKStep DEF TypeOK, TreeTypeOK, Files
<1>a. HasGraph => GraphKnown
  BY DEF FreshInv
<1>b. ASSUME UNCHANGED <<treeVars, targetGraph, queried, globbed>>, step' # "targetsQueried" \/ step' = step,
             HasGraph' => HasGraph
      PROVE  HasGraph' => GraphKnown'
  BY <1>a, <1>b, FreshKept
<1>c. ASSUME UNCHANGED <<treeVars, queried, built>>,
             state' \in {"WAIT", "DEBOUNCE_QUERY", "DEBOUNCE_RUN"} \/ step' = "running"
             => state \in {"WAIT", "DEBOUNCE_QUERY", "DEBOUNCE_RUN"} \/ step = "running"
      PROVE  ReadInOrder'
  BY <1>c DEF FreshInv, ReadInOrder, treeVars
<1>d. ASSUME UNCHANGED filesWatched,
             executionMode' = "notificationStartup" =>
                 \/ executionMode = "notificationStartup" /\ state' = state
                 \/ state' \in {"RUN", "EXITED"}
      PROVE  WatchedKinds'
  BY <1>d DEF FreshInv, WatchedKinds
<1>1. ASSUME NEW mode \in RunModes, PrepareRun(mode) PROVE FreshInv'
  <2>1. /\ UNCHANGED <<treeVars, queried, globbed, built, filesWatched, step>> /\ state = "PREPARE"
        /\ \/ executionMode' = "notificationStartup" /\ state' = "RUN"
           \/ executionMode' = "defaultStartup" /\ state' = "QUERY"
    BY <1>1 DEF PrepareRun, history
  <2>2. step = "begin"
    BY <1>0, <2>1 DEF StepOK, Steps
  <2>3. ~HasGraph'
    BY <2>1, <2>2 DEF HasGraph, At
  <2> QED
    BY <1>c, <1>d, <2>1, <2>2, <2>3 DEF FreshInv
<1>2. CASE QueryRuleFails
  <2>1. /\ UNCHANGED <<treeVars, queried, globbed, built, filesWatched, step>> /\ state' = "EXITED"
    BY <1>2 DEF QueryRuleFails, history
  <2> QED
    BY <1>c, <1>d, <2>1 DEF FreshInv, HasGraph
<1>3. CASE WaitSource \/ WaitBuild \/ DebounceRunEvent \/ DebounceQueryEvent
  <2>1. PICK w \in Watchers, next \in {"DEBOUNCE_RUN", "DEBOUNCE_QUERY"} :
          TakeEvent(w, next) /\ state \in {"WAIT", "DEBOUNCE_RUN", "DEBOUNCE_QUERY"}
    BY <1>3 DEF WaitSource, WaitBuild, DebounceRunEvent, DebounceQueryEvent, Watchers
  <2>2. /\ UNCHANGED <<treeVars, filesWatched, step, executionMode, history, targetGraph>>
        /\ state' \in {state, next}
    BY <2>1, TakeEventStep DEF TakeEvent
  <2>3. UNCHANGED <<queried, globbed, built, queryFailed>>
    BY <2>2 DEF history
  <2>4. executionMode # "notificationStartup"
    BY <2>1 DEF FreshInv, WatchedKinds
  <2>5. HasGraph' => HasGraph
    BY <2>1, <2>2, <2>3 DEF HasGraph, At
  <2> QED
    BY <1>b, <1>c, <1>d, <2>1, <2>2, <2>3, <2>4, <2>5 DEF FreshInv
<1>4. CASE DebounceTimeout
  <2>1. /\ UNCHANGED <<treeVars, filesWatched, step, executionMode, targetGraph, queried, globbed, built, queryFailed>>
        /\ state \in {"DEBOUNCE_RUN", "DEBOUNCE_QUERY"} /\ state' \in {"RUN", "QUERY"}
    BY <1>4 DEF DebounceTimeout, history
  <2>2. HasGraph' => HasGraph
    BY <2>1 DEF HasGraph, At
  <2>3. executionMode # "notificationStartup"
    BY <2>1 DEF FreshInv, WatchedKinds
  <2> QED
    BY <1>b, <1>c, <1>d, <2>1, <2>2, <2>3 DEF FreshInv
<1>5. CASE QueryTargets
  <2>1. /\ UNCHANGED <<treeVars, filesWatched, built, state, executionMode>>
        /\ state = "QUERY" /\ step' = "targetsQueried"
        /\ targetGraph' = graph /\ queried' = [f \in BuildFiles |-> version[f]]
    BY <1>5 DEF QueryTargets, At
  <2>2. deps' \in RuleGraphs /\ deps' = deps /\ version' = version /\ targetGraph' = GraphOf(deps)
    BY <2>1 DEF TypeOK, TreeTypeOK, treeVars, graph
  <2>3. GraphKnown'
    BY <2>2 DEF GraphKnown, ReadAt
  <2>4. ReadInOrder'
    BY <1>0, <2>1, <2>2 DEF FreshInv, ReadInOrder
  <2> QED
    BY <1>d, <2>1, <2>3, <2>4 DEF FreshInv
<1>6. CASE QueryBuildFiles
  <2>1. /\ UNCHANGED <<treeVars, filesWatched, built, queried, globbed, queryFailed, state, executionMode>>
        /\ state = "QUERY" /\ step = "targetsQueried" /\ step' = "queried"
    BY <1>6 DEF QueryBuildFiles, At, history
  <2>2. HasGraph' => HasGraph
    BY <2>1 DEF HasGraph, At
  <2>3. HasGraph' => GraphKnown'
    BY <1>6, <1>a, <2>2, FreshQueryBuildFiles
  <2> QED
    BY <1>c, <1>d, <2>1, <2>3 DEF FreshInv
<1>7. CASE QueryFails
  <2>1. /\ UNCHANGED <<treeVars, filesWatched, built, queried, globbed, executionMode>>
        /\ state' = "RUN" /\ step' = "begin" /\ queryFailed'
    BY <1>7 DEF QueryFails
  <2> QED
    BY <1>c, <1>d, <2>1 DEF FreshInv, HasGraph
<1>8. ASSUME NEW w \in Watchers, NEW toWatch \in SUBSET Files, WatchFiles(toWatch, w),
             IF w = "build" THEN toWatch \subseteq BuildFiles ELSE toWatch \subseteq SourceFiles,
             UNCHANGED <<executionMode, targetGraph, history>>,
             state = "QUERY", step \in {"queried", "buildWatched"},
             \/ state' = "QUERY" /\ step' = "buildWatched"
             \/ state' = "RUN" /\ step' = "begin"
      PROVE  FreshInv'
  <2>1. UNCHANGED <<treeVars, built, queried, globbed, queryFailed, targetGraph>>
    BY <1>8, WatchFilesStep DEF history
  <2>2. filesWatched' = [filesWatched EXCEPT ![w] = toWatch \cap exists]
    BY <1>8 DEF WatchFiles
  <2>3. HasGraph' => HasGraph
    BY <1>8, <2>1 DEF HasGraph, At
  <2>4. WatchedKinds'
    BY <1>8, <2>2 DEF FreshInv, WatchedKinds, TypeOK, Watchers
  <2> QED
    BY <1>8, <1>b, <1>c, <2>1, <2>3, <2>4 DEF FreshInv
<1>9. CASE WatchBuildFiles
  <2>1. targetGraph \cap BuildFiles \in SUBSET Files /\ "build" \in Watchers
    BY DEF Files, Watchers
  <2> QED
    BY <1>8, <1>9, <2>1 DEF WatchBuildFiles, At
<1>10. CASE WatchSourceFiles
  <2>1. PICK toWatch \in SourceFilesFromGraph : WatchFiles(toWatch, "source")
    BY <1>10 DEF WatchSourceFiles
  <2>2. toWatch \in SUBSET Files /\ toWatch \subseteq SourceFiles /\ "source" \in Watchers
    BY DEF SourceFilesFromGraph, Files, Watchers
  <2> QED
    BY <1>8, <1>10, <2>1, <2>2 DEF WatchSourceFiles, At
<1>11. CASE RunBegin
  <2>1. /\ UNCHANGED <<treeVars, filesWatched, queried, globbed, queryFailed, targetGraph, state, executionMode>>
        /\ state = "RUN" /\ step' = "running" /\ built' = version /\ version' = version
    BY <1>11 DEF RunBegin, At, treeVars
  <2>2. ReadInOrder'
    BY <1>0, <2>1 DEF FreshInv, ReadInOrder
  <2>3. HasGraph' => HasGraph
    BY <2>1 DEF HasGraph, At
  <2> QED
    BY <1>b, <1>d, <2>1, <2>2, <2>3 DEF FreshInv
<1>12. CASE RunEnd
  <2>1. /\ UNCHANGED <<treeVars, filesWatched, built, queried, globbed, queryFailed, targetGraph>>
        /\ state = "RUN" /\ step = "running" /\ step' = "begin"
        /\ \/ executionMode = "notificationStartup" /\ state' = "QUERY"
           \/ executionMode # "notificationStartup" /\ state' = "WAIT"
        /\ executionMode' # "notificationStartup"
    BY <1>12 DEF RunEnd, At, ModeAfter
  <2>2. HasGraph' => HasGraph
    BY <2>1 DEF HasGraph, At
  <2> QED
    BY <1>b, <1>c, <1>d, <2>1, <2>2 DEF FreshInv
<1>13. ASSUME NEW f \in Files, EnvStep(f) PROVE FreshInv'
  BY <1>13, FreshEdit
<1>14. CASE (\E d \in Dirs : RemoveDir(d) /\ UNCHANGED <<loopVars, history>>) \/ UNCHANGED vars
  <2>1. /\ UNCHANGED <<deps, version>>
        /\ UNCHANGED <<loopVars, history>>
    BY <1>14 DEF RemoveDir, TreeRemoveDir, vars, treeVars
  <2>2. UNCHANGED <<built, queried, globbed, queryFailed, filesWatched, targetGraph, state, step, executionMode>>
    BY <2>1 DEF loopVars, history
  <2> QED
    BY <2>1, <2>2 DEF FreshInv, HasGraph, At, GraphKnown, ReadAt, Dirty, ReadInOrder, WatchedKinds
<1> QED
  BY <1>1, <1>2, <1>3, <1>4, <1>5, <1>6, <1>7, <1>9, <1>10, <1>11, <1>12, <1>13, <1>14
     DEF Next, LoopNext, EnvNext

\* Initially nothing is known, edited, queued or watched.
LEMMA FreshInit == Init => StepOK /\ GraphInv /\ NoLostEdit /\ FreshInv
<1> SUFFICES ASSUME Init PROVE StepOK /\ GraphInv /\ NoLostEdit /\ FreshInv
  OBVIOUS
<1>1. StepOK /\ GraphInv /\ NoLostEdit
  BY DEF Init, FSInit, StepOK, GraphInv, GraphRead, Effective, Watchers, NoLostEdit
<1>2. \A f \in Files : built[f] = 0 /\ version[f] = 0
  BY DEF Init, TreeInit
<1>3. ReadInOrder
  BY <1>2 DEF Init, ReadInOrder, Files
<1>4. WatchedKinds /\ ~HasGraph
  BY DEF Init, WatchedKinds, HasGraph, At, Watchers
<1> QED
  BY <1>1, <1>3, <1>4 DEF FreshInv

\* When the loop is quiet, the graph it knows is the graph there is and everything in it is
\* built and watched, unless a query or a watch failed, a change came before its watch or a
\* glob() came to find other files.
THEOREM QuietMeansFreshHolds == Spec => []QuietMeansFresh
<1>1. Init => TypeOK /\ StepOK /\ GraphInv /\ NoLostEdit /\ FreshInv
  BY TypeInit, FreshInit
<1>2. /\ TypeOK /\ StepOK /\ GraphInv /\ NoLostEdit /\ FreshInv /\ [Next]_vars
      => (TypeOK /\ StepOK /\ GraphInv /\ NoLostEdit /\ FreshInv)'
  BY TypeStep, StepOKStep, GraphStep, NoLostEditStep, FreshStep
<1>3. TypeOK /\ GraphInv /\ NoLostEdit /\ FreshInv => QuietMeansFresh
  <2> SUFFICES ASSUME TypeOK, GraphInv, NoLostEdit, FreshInv, Quiet, missed = {}, ~queryFailed,
                      AllWatched
               PROVE  /\ targetGraph \ globbed = graph \ globbed
                      /\ \A f \in graph : Fresh(f) \/ f \in globbed \ targetGraph
    BY DEF QuietMeansFresh
  <2>1. state = "WAIT" /\ \A w \in Watchers : \A f : ~Queued(w, f)
    <3>1. state = "WAIT" /\ \A w \in Watchers : events[w] = <<>>
      BY DEF Quiet
    <3> QED
      BY <3>1 DEF Queued, InQueue
  <2>2. \A f \in BuildFiles : Effective("build", f) => queried[f] = version[f]
    BY <2>1 DEF GraphInv, Known, HeadingToQuery, At, Watchers
  <2>3. \A f \in SourceFiles : Effective("source", f) => built[f] = version[f]
    BY <2>1 DEF NoLostEdit, Committed, Watchers
  <2>4. ASSUME NEW f \in targetGraph
        PROVE  /\ f \in BuildFiles => Effective("build", f)
               /\ f \in SourceFiles => Effective("source", f)
    <3>1. PICK w \in Watchers : Effective(w, f)
      BY DEF AllWatched
    <3> QED
      BY <3>1, SourceTreeAssumption DEF FreshInv, WatchedKinds, Effective, Watchers
  <2>5. GraphKnown
    BY <2>1 DEF FreshInv, HasGraph, WatchedKinds, At
  <2>6. \A f \in targetGraph \cap BuildFiles : ~Dirty(f)
    BY <2>2, <2>4 DEF Dirty
  <2>7. PICK d \in RuleGraphs : ReadAt(d) /\ targetGraph = GraphOf(d)
    BY <2>5, <2>6 DEF GraphKnown
  <2>8. targetGraph \ globbed = graph \ globbed
    <3> DEFINE changed == {f \in BuildFiles : Dirty(f)}
    <3>1. deps \in RuleGraphs /\ graph = GraphOf(deps)
      BY DEF TypeOK, TreeTypeOK, graph
    <3>2. SameBut(deps, d, changed, globbed)
      BY <2>7, SourceTreeAssumption DEF ReadAt, Declares, SameBut
    <3>3. GraphOf(deps) \cap GraphOf(d) \cap BuildFiles \cap changed = {}
      BY <2>6, <2>7
    <3>4. globbed \in SUBSET SourceFiles
      BY DEF TypeOK
    <3> HIDE DEF changed
    <3>5. GraphOf(deps) \ globbed = GraphOf(d) \ globbed
      BY <3>1, <3>2, <3>3, <3>4, GraphsAgree
    <3> QED
      BY <2>7, <3>1, <3>5
  <2>9. ASSUME NEW f \in targetGraph
        PROVE  built[f] = version[f] /\ \E w \in Watchers : Effective(w, f)
    <3>1. f \in Files
      BY <2>7, <2>9, GraphInFiles
    <3>2. CASE f \in SourceFiles
      BY <2>3, <2>4, <3>1, <3>2 DEF Watchers
    <3>3. CASE f \in BuildFiles
      <4>1. Effective("build", f) /\ queried[f] = version[f]
        BY <2>2, <2>4, <3>1, <3>3
      <4>2. /\ queried[f] <= built[f] /\ built[f] <= version[f]
            /\ built[f] \in Nat /\ version[f] \in Nat /\ queried[f] \in Nat
        BY <2>1, <3>1, <3>3 DEF FreshInv, ReadInOrder, TypeOK, TreeTypeOK
      <4> QED
        BY <4>1, <4>2 DEF Watchers
    <3> QED
      BY <3>1, <3>2, <3>3 DEF Files
  <2> QED
    BY <2>8, <2>9 DEF Fresh
<1> QED
  BY <1>1, <1>2, <1>3, PTL DEF Spec

(***************************************************************************)
(* The refinement of Watcher: each fsnotify watcher of the loop implements *)
(* the abstract Watcher that does not restart, for every set of files and  *)
(* directories, whatever the loop asks of it and whatever happens to the   *)
(* files.                                                                  *)
(***************************************************************************)

\* The abstract watcher's wanted and covered files; pending is the model's.
WantedFiles(w)  == FilesIn(watched[w])
CoveredFiles(w) == FilesIn(kernel[w])

(***************************************************************************)
(* What each kind of step does to one watcher.                             *)
(***************************************************************************)

Stutters(w) ==
    WantedFiles(w)' = WantedFiles(w) /\ CoveredFiles(w)' = CoveredFiles(w) /\ Pending(w)' = Pending(w)

Updates(w) ==
    /\ CoveredFiles(w) \cap WantedFiles(w)' \subseteq CoveredFiles(w)'
    /\ CoveredFiles(w)' \subseteq WantedFiles(w)'
    /\ Pending(w)' = Pending(w)

Changes(w, f) ==
    /\ Pending(w)' = IF f \in CoveredFiles(w) THEN Pending(w) \cup {f} ELSE Pending(w)
    /\ WantedFiles(w)' = WantedFiles(w) /\ CoveredFiles(w)' = CoveredFiles(w)

Delivers(w, f) ==
    /\ Pending(w)' = Pending(w) \ {f}
    /\ WantedFiles(w)' = WantedFiles(w) /\ CoveredFiles(w)' = CoveredFiles(w)

Lapses(w) ==
    /\ CoveredFiles(w)' \subseteq CoveredFiles(w)
    /\ WantedFiles(w)' = WantedFiles(w) /\ Pending(w)' = Pending(w)

(***************************************************************************)
(* Queues.                                                                 *)
(***************************************************************************)

\* An event at the end of a queue adds its file, if it is a modifying one, and no other.
LEMMA AppendAdds ==
    ASSUME NEW q \in Seq(Event), NEW e \in Event, NEW f
    PROVE  InQueue(Append(q, e), f) <=> InQueue(q, f) \/ (e.name = f /\ e.modifying)
<1>1. /\ Len(q) \in Nat
      /\ Len(Append(q, e)) = Len(q) + 1
      /\ Append(q, e)[Len(q) + 1] = e
      /\ \A i \in 1..Len(q) : Append(q, e)[i] = q[i]
  OBVIOUS
<1>2. ASSUME InQueue(Append(q, e), f) PROVE InQueue(q, f) \/ (e.name = f /\ e.modifying)
  <2>1. PICK i \in 1..Len(Append(q, e)) :
           Append(q, e)[i].name = f /\ Append(q, e)[i].modifying
    BY <1>2 DEF InQueue
  <2>2. i \in 1..Len(q) \/ i = Len(q) + 1
    BY <1>1, <2>1
  <2> QED
    BY <1>1, <2>1, <2>2 DEF InQueue
<1> QED
  BY <1>2, InQueueAppend

\* Taking the first event off a queue leaves the files of the others.
LEMMA TailKeeps ==
    ASSUME NEW q \in Seq(Event), q # <<>>, NEW f
    PROVE  InQueue(q, f) <=> InQueue(Tail(q), f) \/ (Head(q).name = f /\ Head(q).modifying)
<1>1. /\ Len(q) \in Nat /\ Len(q) > 0
      /\ Head(q) = q[1]
      /\ Len(Tail(q)) = Len(q) - 1
      /\ \A i \in 1..Len(Tail(q)) : Tail(q)[i] = q[i + 1]
  OBVIOUS
<1>2. ASSUME InQueue(Tail(q), f) PROVE InQueue(q, f)
  <2>1. PICK i \in 1..Len(Tail(q)) : Tail(q)[i].name = f /\ Tail(q)[i].modifying
    BY <1>2 DEF InQueue
  <2>2. i + 1 \in 1..Len(q) /\ Tail(q)[i] = q[i + 1]
    BY <1>1, <2>1
  <2> QED
    BY <2>1, <2>2 DEF InQueue
<1>3. ASSUME Head(q).name = f, Head(q).modifying PROVE InQueue(q, f)
  BY <1>1, <1>3 DEF InQueue
<1> QED
  BY <1>2, <1>3, InQueueTail

(***************************************************************************)
(* Steps.                                                                  *)
(***************************************************************************)

\* Every step of the system is one of these for the watchers.
LEMMA FSStep ==
    ASSUME TypeOK, [Next]_vars
    PROVE  \/ UNCHANGED fsVars
           \/ \E v \in Watchers : Receive(v)
           \/ \E v \in Watchers, names \in SUBSET Dirs : UpdateAll(v, names) /\ UNCHANGED events
           \/ \E f \in Files, b \in BOOLEAN : Deliver(f, b) /\ UNCHANGED <<watched, kernel>>
           \/ \E d \in Dirs : /\ kernel' = [v \in Watchers |-> kernel[v] \ {d}]
                              /\ UNCHANGED <<watched, events>>
<1>1. ASSUME NEW v \in Watchers, NEW toWatch \in SUBSET Files, WatchFiles(toWatch, v)
      PROVE  \E names \in SUBSET Dirs : UpdateAll(v, names) /\ UNCHANGED events
  <2>1. {DirOf[f] : f \in toWatch \cap exists} \in SUBSET Dirs
    BY SourceTreeAssumption
  <2> QED
    BY <1>1, <2>1 DEF WatchFiles
<1>2. CASE WatchBuildFiles
  BY <1>1, <1>2 DEF WatchBuildFiles, Watchers, TypeOK
<1>3. CASE WatchSourceFiles
  BY <1>1, <1>3 DEF WatchSourceFiles, SourceFilesFromGraph, Watchers, TypeOK
<1>4. CASE WaitSource \/ WaitBuild \/ DebounceRunEvent \/ DebounceQueryEvent
  BY <1>4 DEF WaitSource, WaitBuild, DebounceRunEvent, DebounceQueryEvent, TakeEvent, Watchers
<1>5. CASE \/ \E mode \in RunModes : PrepareRun(mode)
           \/ QueryRuleFails \/ DebounceTimeout \/ QueryTargets \/ QueryBuildFiles \/ QueryFails
           \/ RunBegin \/ RunEnd
  BY <1>5 DEF PrepareRun, QueryRuleFails, DebounceTimeout, QueryTargets, QueryBuildFiles,
         QueryFails, RunBegin, RunEnd
<1>6. CASE \E f \in Files : EnvStep(f)
  BY <1>6 DEF EnvStep, WriteFile, TouchFile, RemoveFile, CreateFile
<1>7. CASE \E d \in Dirs : RemoveDir(d)
  BY <1>7 DEF RemoveDir
<1>8. CASE UNCHANGED vars
  BY <1>8 DEF vars
<1> QED
  BY <1>2, <1>3, <1>4, <1>5, <1>6, <1>7, <1>8 DEF Next, LoopNext, EnvNext

\* The loop receives an event: its file is no longer pending, unless it is queued again or
\* was not modified.
LEMMA ReceiveStep ==
    ASSUME FSTypeOK, NEW w \in Watchers, NEW v \in Watchers, Receive(v)
    PROVE  Stutters(w) \/ \E f \in Files : Delivers(w, f)
<1>1. WantedFiles(w)' = WantedFiles(w) /\ CoveredFiles(w)' = CoveredFiles(w)
  BY DEF Receive, WantedFiles, CoveredFiles, FilesIn
<1>2. CASE w # v
  <2>1. events'[w] = events[w]
    BY <1>2, ReceiveQueues
  <2> QED
    BY <1>1, <2>1 DEF Stutters, Pending, Queued
<1>3. CASE w = v
  <2> DEFINE q == events[w]
             e == Head(q)
  <2>1. q \in Seq(Event) /\ q # <<>> /\ events'[w] = Tail(q)
    BY <1>3 DEF FSTypeOK, Receive
  <2>2. e.name \in Files /\ e \in Event
    BY <2>1, InQueueTail DEF Event
  <2>3. \A f : InQueue(q, f) <=> InQueue(Tail(q), f) \/ (e.name = f /\ e.modifying)
    BY <2>1, TailKeeps
  <2>4. Pending(w) = {f \in Files : InQueue(q, f)} /\ Pending(w)' = {f \in Files : InQueue(Tail(q), f)}
    BY <2>1 DEF Pending, Queued
  <2>5. Pending(w)' = Pending(w) \/ Pending(w)' = Pending(w) \ {e.name}
    BY <2>3, <2>4
  <2> QED
    BY <1>1, <2>2, <2>5 DEF Stutters, Delivers
<1> QED
  BY <1>2, <1>3

\* UpdateAll keeps every event, and the kernel watch of what stays wanted.
LEMMA UpdateAllStep ==
    ASSUME FSTypeOK, NEW w \in Watchers, NEW v \in Watchers, NEW names \in SUBSET Dirs,
           UpdateAll(v, names), UNCHANGED events
    PROVE  Stutters(w) \/ Updates(w)
<1>1. Pending(w)' = Pending(w)
  BY DEF Pending, Queued
<1>2. PICK failed : kernel' = [kernel EXCEPT ![v] =
                                  (@ \cap names) \cup ((names \ watched[v]) \ failed)]
  BY DEF UpdateAll
<1>3. watched' = [watched EXCEPT ![v] = names]
  BY DEF UpdateAll
<1>4. CASE w # v
  <2>1. kernel'[w] = kernel[w] /\ watched'[w] = watched[w]
    BY <1>2, <1>3, <1>4 DEF FSTypeOK
  <2> QED
    BY <1>1, <2>1 DEF Stutters, WantedFiles, CoveredFiles, FilesIn
<1>5. CASE w = v
  <2>1. watched'[w] = names
    BY <1>3, <1>5 DEF FSTypeOK
  <2>2. kernel'[w] = (kernel[w] \cap names) \cup ((names \ watched[w]) \ failed)
    BY <1>2, <1>5 DEF FSTypeOK
  <2> QED
    BY <1>1, <2>1, <2>2 DEF Updates, WantedFiles, CoveredFiles, FilesIn
<1> QED
  BY <1>4, <1>5

\* The library delivers an event: to the watchers that cover its file, and to no other.
LEMMA DeliverStep ==
    ASSUME FSTypeOK, NEW w \in Watchers, NEW f \in Files, NEW b \in BOOLEAN,
           Deliver(f, b), UNCHANGED <<watched, kernel>>
    PROVE  Stutters(w) \/ Changes(w, f)
<1> DEFINE e == [name |-> f, modifying |-> b]
           q == events[w]
<1>1. WantedFiles(w)' = WantedFiles(w) /\ CoveredFiles(w)' = CoveredFiles(w)
  BY DEF WantedFiles, CoveredFiles, FilesIn
<1>2. e \in Event /\ q \in Seq(Event)
  BY DEF Event, FSTypeOK
<1>3. events'[w] = IF f \in CoveredFiles(w) THEN Append(q, e) ELSE q
  BY DEF Deliver, CoveredFiles, FilesIn
<1>4. Pending(w) = {g \in Files : InQueue(q, g)} /\ Pending(w)' = {g \in Files : InQueue(events'[w], g)}
  BY DEF Pending, Queued
<1>5. CASE f \in CoveredFiles(w)
  <2>1. \A g : InQueue(events'[w], g) <=> InQueue(q, g) \/ (e.name = g /\ e.modifying)
    BY <1>2, <1>3, <1>5, AppendAdds
  <2>2. e.name = f /\ e.modifying = b
    OBVIOUS
  <2>3. CASE b
    <3>1. Pending(w)' = Pending(w) \cup {f}
      BY <1>4, <2>1, <2>2, <2>3
    <3> QED
      BY <1>1, <1>5, <3>1 DEF Changes
  <2>4. CASE ~b
    <3>1. Pending(w)' = Pending(w)
      BY <1>4, <2>1, <2>2, <2>4
    <3> QED
      BY <1>1, <3>1 DEF Stutters
  <2> QED
    BY <2>3, <2>4
<1>6. CASE f \notin CoveredFiles(w)
  BY <1>1, <1>3, <1>4, <1>6 DEF Stutters
<1> QED
  BY <1>5, <1>6

\* Every step of the system is one of the abstract watcher's, or none.
LEMMA WatcherStep ==
    ASSUME TypeOK, [Next]_vars, NEW w \in Watchers
    PROVE  \/ Stutters(w) \/ Updates(w) \/ Lapses(w)
           \/ \E f \in Files : Changes(w, f) \/ Delivers(w, f)
<1>1. FSTypeOK
  BY DEF TypeOK
<1>2. CASE UNCHANGED fsVars
  BY <1>2 DEF fsVars, Stutters, WantedFiles, CoveredFiles, FilesIn, Pending, Queued
<1>3. CASE \E d \in Dirs : /\ kernel' = [v \in Watchers |-> kernel[v] \ {d}]
                           /\ UNCHANGED <<watched, events>>
  BY <1>3 DEF Lapses, WantedFiles, CoveredFiles, FilesIn, Pending, Queued
<1> QED
  BY <1>1, <1>2, <1>3, FSStep, ReceiveStep, UpdateAllStep, DeliverStep

\* At first nothing is watched.
LEMMA WatcherInit ==
    ASSUME Init, NEW w \in Watchers
    PROVE  WantedFiles(w) = {} /\ CoveredFiles(w) = {} /\ Pending(w) = {}
<1>1. watched[w] = {} /\ kernel[w] = {} /\ events[w] = <<>>
  BY DEF Init, FSInit
<1> QED
  BY <1>1 DEF WantedFiles, CoveredFiles, FilesIn, Pending, Queued, InQueue

\* The loop's two fsnotify watchers are Watchers that never restart: a change that is
\* pending stays so until the loop receives it, through every UpdateAll, and UpdateAll
\* uncovers no file that stays wanted (ImplementsWatcher, fsnotify.go:45).
THEOREM ImplementsWatcherHolds == Spec => ImplementsWatcher
<1>1. "build" \in Watchers /\ "source" \in Watchers
  BY DEF Watchers
<1>2. Init => BuildWatcher!Init /\ SourceWatcher!Init
  BY <1>1, WatcherInit DEF BuildWatcher!Init, SourceWatcher!Init, WantedFiles, CoveredFiles
<1>3. TypeOK /\ [Next]_vars => [BuildWatcher!Next]_(BuildWatcher!vars)
  <2> SUFFICES ASSUME TypeOK, [Next]_vars PROVE [BuildWatcher!Next]_(BuildWatcher!vars)
    OBVIOUS
  <2>1. CASE Stutters("build")
    BY <2>1 DEF Stutters, BuildWatcher!vars, WantedFiles, CoveredFiles
  <2>2. CASE Updates("build")
    <3>1. WantedFiles("build")' \subseteq Files
      BY DEF WantedFiles, FilesIn
    <3> QED
      BY <2>2, <3>1 DEF Updates, BuildWatcher!Next, BuildWatcher!Update, WantedFiles, CoveredFiles
  <2>3. CASE Lapses("build")
    BY <2>3 DEF Lapses, BuildWatcher!Next, BuildWatcher!Lapse, WantedFiles, CoveredFiles
  <2>4. CASE \E f \in Files : Changes("build", f) \/ Delivers("build", f)
    BY <2>4 DEF Changes, Delivers, BuildWatcher!Next, BuildWatcher!Change,
           BuildWatcher!Deliver, WantedFiles, CoveredFiles
  <2> QED
    BY <1>1, <2>1, <2>2, <2>3, <2>4, WatcherStep
<1>4. TypeOK /\ [Next]_vars => [SourceWatcher!Next]_(SourceWatcher!vars)
  <2> SUFFICES ASSUME TypeOK, [Next]_vars PROVE [SourceWatcher!Next]_(SourceWatcher!vars)
    OBVIOUS
  <2>1. CASE Stutters("source")
    BY <2>1 DEF Stutters, SourceWatcher!vars, WantedFiles, CoveredFiles
  <2>2. CASE Updates("source")
    <3>1. WantedFiles("source")' \subseteq Files
      BY DEF WantedFiles, FilesIn
    <3> QED
      BY <2>2, <3>1 DEF Updates, SourceWatcher!Next, SourceWatcher!Update, WantedFiles, CoveredFiles
  <2>3. CASE Lapses("source")
    BY <2>3 DEF Lapses, SourceWatcher!Next, SourceWatcher!Lapse, WantedFiles, CoveredFiles
  <2>4. CASE \E f \in Files : Changes("source", f) \/ Delivers("source", f)
    BY <2>4 DEF Changes, Delivers, SourceWatcher!Next, SourceWatcher!Change,
           SourceWatcher!Deliver, WantedFiles, CoveredFiles
  <2> QED
    BY <1>1, <2>1, <2>2, <2>3, <2>4, WatcherStep
<1> QED
  BY <1>2, <1>3, <1>4, TypeCorrect, PTL
     DEF Spec, ImplementsWatcher, BuildWatcher!Spec, SourceWatcher!Spec

=============================================================================
