--------------------------- MODULE LifecycleProofs ---------------------------
(***************************************************************************)
(* Proofs about the profile file, for every number of events, any files    *)
(* and any choice of commands and hooks.                                   *)
(***************************************************************************)
EXTENDS Lifecycle, TLAPS

(***************************************************************************)
(* What a step does to the profiler.                                       *)
(***************************************************************************)

\* Every step of the system is one of the profiler's methods, or leaves it alone.
LEMMA ProfilerStep ==
    ASSUME [Next]_vars
    PROVE  \/ \E path \in Paths : ChangeEvent(path)
           \/ \E type \in Reports : BuildEvent(type)
           \/ ReloadTriggeredEvent \/ RemoteEvent \/ UnexpectedRemoteEvent
           \/ UNCHANGED profilerVars
<1>1. CASE CommandStep
  BY <1>1 DEF CommandStep, TargetDecider, BeforeCommand, HookBefore, Hook, CommandToRun,
         TriggerReload, AfterCommand, CommandEvent, HookAfter, HookResult, Reports
<1>2. CASE (\E p \in Paths : ChangeDetected(p)) \/ PagePosts
  BY <1>2 DEF ChangeDetected, PagePosts
<1>3. CASE UNCHANGED vars
  BY <1>3 DEF vars
<1> QED
  BY <1>1, <1>2, <1>3 DEF Next

\* Appending an event to the file leaves the events before it as they are.
LEMMA WrittenStep ==
    ASSUME file \in Seq(ProfileEvent), NEW type \in Types, NEW key \in Nat,
           NEW paths \in SUBSET Paths, Written(type, key, paths)
    PROVE  /\ file' \in Seq(ProfileEvent)
           /\ Len(file) \in Nat /\ Len(file') = Len(file) + 1
           /\ file'[Len(file) + 1] = [type |-> type, iteration |-> key, changes |-> paths]
           /\ \A i \in 1..Len(file) : file'[i] = file[i]
<1> DEFINE e == [type |-> type, iteration |-> key, changes |-> paths]
<1>1. e \in ProfileEvent
  BY DEF ProfileEvent
<1>2. file' = Append(file, e)
  BY DEF Written
<1> HIDE DEF e
<1>3. /\ Append(file, e) \in Seq(ProfileEvent)
      /\ Len(file) \in Nat /\ Len(Append(file, e)) = Len(file) + 1
      /\ Append(file, e)[Len(file) + 1] = e
      /\ \A i \in 1..Len(file) : Append(file, e)[i] = file[i]
  BY <1>1
<1> QED
  BY <1>2, <1>3 DEF e

(***************************************************************************)
(* Type correctness.                                                       *)
(***************************************************************************)

\* The profiler's methods keep its types.
LEMMA ProfilerTypeStep ==
    ASSUME ProfilerTypeOK, [Next]_vars
    PROVE  ProfilerTypeOK'
<1> USE DEF ProfilerTypeOK
<1>1. ASSUME NEW path \in Paths, ChangeEvent(path) PROVE ProfilerTypeOK'
  <2> DEFINE key == IF iterationBuildStart THEN iteration + 1 ELSE iteration
  <2>1. key \in Nat /\ {path} \in SUBSET Paths /\ "CHANGE" \in Types
    BY DEF Types
  <2>2. Written("CHANGE", key, {path}) /\ iteration' = key
    BY <1>1 DEF ChangeEvent
  <2>3. file' \in Seq(ProfileEvent)
    BY <2>1, <2>2, WrittenStep
  <2>4. changes' \subseteq Paths
    BY <1>1 DEF ChangeEvent
  <2>5. iterationReloadTriggered' \in BOOLEAN /\ iterationBuildStart' \in BOOLEAN /\ locked' \in BOOLEAN
    BY <1>1 DEF ChangeEvent
  <2> QED
    BY <2>1, <2>2, <2>3, <2>4, <2>5
<1>2. ASSUME NEW type \in Reports, BuildEvent(type) PROVE ProfilerTypeOK'
  <2>1. type \in Types
    BY DEF Reports, Types
  <2>2. file' \in Seq(ProfileEvent)
    BY <1>2, <2>1, WrittenStep DEF BuildEvent
  <2> QED
    BY <1>2, <2>2 DEF BuildEvent
<1>3. CASE ReloadTriggeredEvent
  <2>1. file' \in Seq(ProfileEvent)
    BY <1>3, WrittenStep DEF ReloadTriggeredEvent, Types
  <2> QED
    BY <1>3, <2>1 DEF ReloadTriggeredEvent
<1>4. CASE RemoteEvent
  <2>1. {} \in SUBSET Paths /\ "REMOTE_EVENT" \in Types /\ Written("REMOTE_EVENT", iteration, {})
    BY <1>4 DEF RemoteEvent, Types
  <2>2. file' \in Seq(ProfileEvent)
    BY <2>1, WrittenStep
  <2> QED
    BY <1>4, <2>2 DEF RemoteEvent
<1>5. CASE UnexpectedRemoteEvent \/ UNCHANGED profilerVars
  BY <1>5 DEF UnexpectedRemoteEvent, profilerVars
<1> QED
  BY <1>1, <1>2, <1>3, <1>4, <1>5, ProfilerStep

\* A hook that runs is added to `ran`, which stays a sequence of hooks.
LEMMA HookType ==
    ASSUME ran \in Seq(HookNames), NEW name \in HookNames
    PROVE  Append(ran, name) \in Seq(HookNames)
OBVIOUS

\* The variables of the listeners keep their types.
THEOREM TypeCorrect == Spec => []TypeOK
<1>1. Init => TypeOK
  <2> SUFFICES ASSUME Init PROVE TypeOK
    OBVIOUS
  <2>1. [type |-> "IBAZEL_START", iteration |-> 1, changes |-> {}] \in ProfileEvent
    BY DEF ProfileEvent, Types
  <2>2. <<[type |-> "IBAZEL_START", iteration |-> 1, changes |-> {}]>> \in Seq(ProfileEvent)
    BY <2>1
  <2>3. ProfilerTypeOK
    BY <2>2 DEF Init, ProfilerInit, ProfilerTypeOK
  <2>4. <<>> \in Seq(HookNames)
    OBVIOUS
  <2> QED
    BY <2>3, <2>4 DEF Init, TypeOK
<1>2. TypeOK /\ [Next]_vars => TypeOK'
  <2> SUFFICES ASSUME TypeOK, [Next]_vars PROVE TypeOK'
    OBVIOUS
  <2> USE DEF TypeOK
  <2>1. ProfilerTypeOK'
    BY ProfilerTypeStep
  <2>2. ASSUME NEW name \in HookNames, NEW next \in {"command", "hookResult"}, Hook(name, next)
        PROVE  TypeOK'
    <3>1. ran' \in Seq(HookNames)
      BY <2>2, HookType DEF Hook
    <3> QED
      BY <2>1, <2>2, <3>1 DEF Hook
  <2>3. CASE HookBefore \/ HookAfter
    BY <2>2, <2>3 DEF HookBefore, HookAfter, HookNames
  <2>4. CASE HookResult
    <3>1. ran' = ran \/ \E name \in HookNames : ran' = Append(ran, name)
      BY <2>4 DEF HookResult, HookNames
    <3>2. ran' \in Seq(HookNames)
      BY <3>1, HookType
    <3>3. loop' \in {"exited", "before", "wait"} /\ executionMode' \in {executionMode, "notification"}
      BY <2>4 DEF HookResult
    <3> QED
      BY <2>1, <2>4, <3>2, <3>3 DEF HookResult
  <2>5. ASSUME NEW mode \in {"defaultStartup", "notificationStartup"}, TargetDecider(mode)
        PROVE  TypeOK'
    BY <2>1, <2>5 DEF TargetDecider
  <2>6. CASE BeforeCommand
    BY <2>1, <2>6 DEF BeforeCommand
  <2>7. ASSUME NEW o \in BOOLEAN, CommandToRun(o) PROVE TypeOK'
    <3>1. success' \in BOOLEAN
      BY <2>7 DEF CommandToRun, Rebuilds
    <3> QED
      BY <2>1, <2>7, <3>1 DEF CommandToRun
  <2>8. CASE TriggerReload \/ AfterCommand
    BY <2>1, <2>8 DEF TriggerReload, AfterCommand
  <2>9. ASSUME NEW p \in Paths, ChangeDetected(p) PROVE TypeOK'
    BY <2>1, <2>9 DEF ChangeDetected
  <2>10. CASE PagePosts \/ UNCHANGED vars
    BY <2>1, <2>10 DEF PagePosts, vars, lifecycleVars
  <2> QED
    BY <2>3, <2>4, <2>5, <2>6, <2>7, <2>8, <2>9, <2>10 DEF Next, CommandStep
<1> QED
  BY <1>1, <1>2, PTL DEF Spec

(***************************************************************************)
(* Remote events.                                                          *)
(***************************************************************************)

\* The first n events hold a reload of the iteration key.
Reloaded(n, key) ==
    \E j \in 1..n : file[j].type = "RELOAD_TRIGGERED" /\ file[j].iteration = key

\* i.iterationReloadTriggered says that the file holds a reload of the present iteration.
RemoteInv ==
    /\ iterationReloadTriggered => Reloaded(Len(file), iteration)
    /\ \A i \in 1..Len(file) :
           file[i].type = "REMOTE_EVENT" => Reloaded(i - 1, file[i].iteration)

\* An event that is not remote, or follows a reload of its iteration, keeps RemoteInv.
LEMMA RemoteWritten ==
    ASSUME ProfilerTypeOK, RemoteInv, NEW type \in Types, NEW key \in Nat,
           NEW paths \in SUBSET Paths, Written(type, key, paths),
           type = "REMOTE_EVENT" => Reloaded(Len(file), key)
    PROVE  /\ \A n \in 0..Len(file) : \A k : Reloaded(n, k) => Reloaded(n, k)'
           /\ \A k : Reloaded(Len(file), k) => Reloaded(Len(file), k)'
           /\ type = "RELOAD_TRIGGERED" => Reloaded(Len(file), key)'
           /\ \A i \in 1..Len(file') :
                  file'[i].type = "REMOTE_EVENT" => Reloaded(i - 1, file[i].iteration)'
<1>1. /\ Len(file) \in Nat /\ Len(file') = Len(file) + 1
      /\ file'[Len(file) + 1] = [type |-> type, iteration |-> key, changes |-> paths]
      /\ \A i \in 1..Len(file) : file'[i] = file[i]
  BY WrittenStep DEF ProfilerTypeOK
<1>2. ASSUME NEW n \in 0..Len(file), NEW k, Reloaded(n, k)
      PROVE  \E j \in 1..n : file'[j].type = "RELOAD_TRIGGERED" /\ file'[j].iteration = k
  BY <1>1, <1>2 DEF Reloaded
<1>3. ASSUME NEW k, Reloaded(Len(file), k) PROVE Reloaded(Len(file), k)'
  <2>1. PICK j \in 1..Len(file) : file'[j].type = "RELOAD_TRIGGERED" /\ file'[j].iteration = k
    BY <1>1, <1>2, <1>3
  <2>2. j \in 1..Len(file')
    BY <1>1
  <2> QED
    BY <2>1, <2>2 DEF Reloaded
<1>4. type = "RELOAD_TRIGGERED" => Reloaded(Len(file), key)'
  <2>1. Len(file) + 1 \in 1..Len(file')
    BY <1>1
  <2> QED
    BY <1>1, <2>1 DEF Reloaded
<1>5. ASSUME NEW i \in 1..Len(file'), file'[i].type = "REMOTE_EVENT"
      PROVE  Reloaded(i - 1, file[i].iteration)'
  <2> DEFINE k == file'[i].iteration
  <2> SUFFICES \E j \in 1..(i - 1) : file'[j].type = "RELOAD_TRIGGERED" /\ file'[j].iteration = k
    BY DEF Reloaded
  <2>1. CASE i \in 1..Len(file)
    <3>1. file[i].type = "REMOTE_EVENT" /\ k = file[i].iteration
      BY <1>1, <1>5, <2>1
    <3>2. Reloaded(i - 1, k) /\ i - 1 \in 0..Len(file)
      BY <1>1, <2>1, <3>1 DEF RemoteInv
    <3> QED
      BY <1>2, <3>2
  <2>2. CASE i = Len(file) + 1
    <3>1. type = "REMOTE_EVENT" /\ k = key
      BY <1>1, <1>5, <2>2
    <3>2. i - 1 = Len(file) /\ Len(file) \in 0..Len(file)
      BY <1>1, <2>2
    <3>3. Reloaded(i - 1, k)
      BY <3>1, <3>2
    <3> QED
      BY <1>2, <3>2, <3>3
  <2> QED
    BY <1>1, <1>5, <2>1, <2>2
<1> QED
  BY <1>2, <1>3, <1>4, <1>5 DEF Reloaded

\* Every method keeps it: a new iteration begins without a reload.
LEMMA RemoteStep == ProfilerTypeOK /\ RemoteInv /\ [Next]_vars => RemoteInv'
<1> SUFFICES ASSUME ProfilerTypeOK, RemoteInv, [Next]_vars PROVE RemoteInv'
  OBVIOUS
<1> USE DEF ProfilerTypeOK, Types
<1>1. ASSUME NEW path \in Paths, ChangeEvent(path) PROVE RemoteInv'
  <2> DEFINE key == IF iterationBuildStart THEN iteration + 1 ELSE iteration
  <2>1. key \in Nat /\ {path} \in SUBSET Paths
    OBVIOUS
  <2>2. Written("CHANGE", key, {path}) /\ iteration' = key
    BY <1>1 DEF ChangeEvent
  <2>3. iterationReloadTriggered' => iterationReloadTriggered /\ iteration' = iteration
    BY <1>1 DEF ChangeEvent
  <2> QED
    BY <2>1, <2>2, <2>3, RemoteWritten DEF RemoteInv
<1>2. ASSUME NEW type \in Reports, BuildEvent(type) PROVE RemoteInv'
  <2>1. type \in Types /\ type # "REMOTE_EVENT"
    BY DEF Reports
  <2> QED
    BY <1>2, <2>1, RemoteWritten DEF BuildEvent, RemoteInv
<1>3. CASE ReloadTriggeredEvent
  BY <1>3, RemoteWritten DEF ReloadTriggeredEvent, RemoteInv
<1>4. CASE RemoteEvent
  <2>1. Reloaded(Len(file), iteration)
    BY <1>4 DEF RemoteEvent, RemoteInv
  <2> QED
    BY <1>4, <2>1, RemoteWritten DEF RemoteEvent, RemoteInv
<1>5. CASE UnexpectedRemoteEvent \/ UNCHANGED profilerVars
  BY <1>5 DEF UnexpectedRemoteEvent, profilerVars, RemoteInv, Reloaded
<1> QED
  BY <1>1, <1>2, <1>3, <1>4, <1>5, ProfilerStep

\* A remote event is written only after a reload of its own iteration
\* (RemoteFollowsReload, profiler.go:293).
THEOREM RemoteFollowsReloadHolds == Spec => []RemoteFollowsReload
<1>1. Init => RemoteInv
  BY DEF Init, ProfilerInit, RemoteInv, Reloaded
<1>2. TypeOK /\ RemoteInv /\ [Next]_vars => RemoteInv'
  BY RemoteStep DEF TypeOK
<1>3. RemoteInv => RemoteFollowsReload
  BY DEF RemoteInv, Reloaded, RemoteFollowsReload
<1> QED
  BY <1>1, <1>2, <1>3, TypeCorrect, PTL DEF Spec

(***************************************************************************)
(* The changes of an iteration.                                            *)
(***************************************************************************)

\* The files of the CHANGE events of iteration key among the first n of q.
Changed(q, n, key) == UNION {q[j].changes : j \in
    {k \in 1..n : q[k].type = "CHANGE" /\ q[k].iteration = key}}

\* i.changes holds those of the present iteration, and no event is of a later one.
ChangesInv ==
    /\ changes = Changed(file, Len(file), iteration)
    /\ \A i \in 1..Len(file) : file[i].iteration <= iteration
    /\ ChangesAreCumulative

\* Appending an event adds its files, if it is a change, to those of its iteration.
LEMMA ChangedWritten ==
    ASSUME ProfilerTypeOK, NEW type \in Types, NEW key \in Nat,
           NEW paths \in SUBSET Paths, Written(type, key, paths)
    PROVE  /\ \A n \in 0..Len(file) : \A k : Changed(file', n, k) = Changed(file, n, k)
           /\ \A k : Changed(file', Len(file'), k) =
                  IF type = "CHANGE" /\ k = key THEN Changed(file, Len(file), k) \cup paths
                  ELSE Changed(file, Len(file), k)
<1>1. /\ Len(file) \in Nat /\ Len(file') = Len(file) + 1
      /\ file'[Len(file) + 1] = [type |-> type, iteration |-> key, changes |-> paths]
      /\ \A i \in 1..Len(file) : file'[i] = file[i]
  BY WrittenStep DEF ProfilerTypeOK
<1>2. ASSUME NEW n \in 0..Len(file), NEW k PROVE Changed(file', n, k) = Changed(file, n, k)
  <2>1. \A j \in 1..n : file'[j] = file[j]
    BY <1>1
  <2> QED
    BY <2>1 DEF Changed
<1>3. ASSUME NEW k
      PROVE  Changed(file', Len(file'), k) =
                 IF type = "CHANGE" /\ k = key THEN Changed(file, Len(file), k) \cup paths
                 ELSE Changed(file, Len(file), k)
  <2> DEFINE m == Len(file) + 1
  <2>1. Changed(file', m, k) = Changed(file', Len(file), k) \cup
            (IF file'[m].type = "CHANGE" /\ file'[m].iteration = k THEN file'[m].changes ELSE {})
    <3>1. 1..m = 1..Len(file) \cup {m}
      BY <1>1
    <3> HIDE DEF m
    <3> QED
      BY <3>1 DEF Changed
  <2>2. Changed(file', Len(file), k) = Changed(file, Len(file), k)
    BY <1>1, <1>2
  <2>3. file'[m].type = type /\ file'[m].iteration = key /\ file'[m].changes = paths
    BY <1>1
  <2>4. Len(file') = m
    BY <1>1
  <2> HIDE DEF m
  <2>5. CASE type = "CHANGE" /\ k = key
    BY <2>1, <2>2, <2>3, <2>4, <2>5
  <2>6. CASE ~(type = "CHANGE" /\ k = key)
    BY <2>1, <2>2, <2>3, <2>4, <2>6
  <2> QED
    BY <2>5, <2>6
<1> QED
  BY <1>2, <1>3

\* Writing an event with the changes so far keeps what the file says of the changes.
LEMMA CumulativeWritten ==
    ASSUME ProfilerTypeOK, ChangesInv, NEW type \in Types, NEW key \in Nat,
           NEW paths \in SUBSET Paths, Written(type, key, paths),
           type \in {"START", "RELOAD_TRIGGERED", "DONE", "FAILED"} => key = iteration /\ paths = changes,
           iteration <= key
    PROVE  /\ ChangesAreCumulative'
           /\ \A i \in 1..Len(file') : file'[i].iteration <= key
<1> DEFINE Reporting == {"START", "RELOAD_TRIGGERED", "DONE", "FAILED"}
<1>1. /\ Len(file) \in Nat /\ Len(file') = Len(file) + 1
      /\ file'[Len(file) + 1] = [type |-> type, iteration |-> key, changes |-> paths]
      /\ \A i \in 1..Len(file) : file'[i] = file[i]
  BY WrittenStep DEF ProfilerTypeOK
<1>2. ASSUME NEW i \in 1..Len(file'), file'[i].type \in Reporting
      PROVE  file'[i].changes = Changed(file', i - 1, file'[i].iteration)
  <2>1. CASE i \in 1..Len(file)
    <3>1. file'[i] = file[i] /\ i - 1 \in 0..Len(file)
      BY <1>1, <2>1
    <3>2. file[i].changes = Changed(file, i - 1, file[i].iteration)
      BY <1>2, <2>1, <3>1 DEF ChangesInv, ChangesAreCumulative, Changed
    <3>3. Changed(file', i - 1, file[i].iteration) = Changed(file, i - 1, file[i].iteration)
      BY <3>1, ChangedWritten
    <3> QED
      BY <3>1, <3>2, <3>3
  <2>2. CASE i = Len(file) + 1
    <3>1. file'[i].iteration = iteration /\ file'[i].changes = changes
      BY <1>1, <1>2, <2>2
    <3>2. i - 1 = Len(file) /\ Len(file) \in 0..Len(file)
      BY <1>1, <2>2
    <3>3. changes = Changed(file, Len(file), iteration)
      BY DEF ChangesInv
    <3>4. Changed(file', i - 1, iteration) = Changed(file, Len(file), iteration)
      BY <3>2, ChangedWritten
    <3> QED
      BY <3>1, <3>3, <3>4
  <2> QED
    BY <1>1, <2>1, <2>2
<1>3. ASSUME NEW i \in 1..Len(file') PROVE file'[i].iteration <= key
  <2>1. CASE i \in 1..Len(file)
    <3>1. file'[i] = file[i] /\ file[i] \in ProfileEvent /\ file[i].iteration <= iteration
      BY <1>1, <2>1 DEF ChangesInv, ProfilerTypeOK
    <3>2. file[i].iteration \in Nat /\ iteration \in Nat
      BY <3>1 DEF ProfileEvent, ProfilerTypeOK
    <3> QED
      BY <3>1, <3>2
  <2>2. CASE i = Len(file) + 1
    BY <1>1, <2>2
  <2> QED
    BY <1>1, <2>1, <2>2
<1> QED
  BY <1>2, <1>3 DEF ChangesAreCumulative, Changed

\* In an iteration later than that of every event nothing has changed yet.
LEMMA NothingChanged ==
    ASSUME ProfilerTypeOK, ChangesInv, NEW key \in Nat, iteration < key
    PROVE  Changed(file, Len(file), key) = {}
<1>1. ASSUME NEW k \in 1..Len(file) PROVE file[k].iteration # key
  <2>1. file[k] \in ProfileEvent /\ file[k].iteration <= iteration
    BY DEF ChangesInv, ProfilerTypeOK
  <2>2. file[k].iteration \in Nat /\ iteration \in Nat
    BY <2>1 DEF ProfileEvent, ProfilerTypeOK
  <2> QED
    BY <2>1, <2>2
<1> QED
  BY <1>1 DEF Changed

\* Every method keeps ChangesInv.
LEMMA ChangesStep == ProfilerTypeOK /\ ChangesInv /\ [Next]_vars => ChangesInv'
<1> SUFFICES ASSUME ProfilerTypeOK, ChangesInv, [Next]_vars PROVE ChangesInv'
  OBVIOUS
<1>0. iteration \in Nat /\ changes \in SUBSET Paths
  BY DEF ProfilerTypeOK
<1>1. ASSUME NEW path \in Paths, ChangeEvent(path) PROVE ChangesInv'
  <2> DEFINE key == IF iterationBuildStart THEN iteration + 1 ELSE iteration
  <2>1. key \in Nat /\ iteration <= key /\ {path} \in SUBSET Paths /\ "CHANGE" \in Types
    BY <1>0 DEF Types
  <2>2. Written("CHANGE", key, {path}) /\ iteration' = key
    BY <1>1 DEF ChangeEvent
  <2>3. changes' = Changed(file, Len(file), key) \cup {path}
    <3>1. CASE iterationBuildStart
      BY <1>0, <1>1, <3>1, NothingChanged DEF ChangeEvent
    <3>2. CASE ~iterationBuildStart
      BY <1>1, <3>2 DEF ChangeEvent, ChangesInv
    <3> QED
      BY <3>1, <3>2
  <2>4. changes' = Changed(file', Len(file'), key)
    BY <2>1, <2>2, <2>3, ChangedWritten
  <2>5. ChangesAreCumulative' /\ \A i \in 1..Len(file') : file'[i].iteration <= key
    BY <2>1, <2>2, CumulativeWritten
  <2> QED
    BY <2>2, <2>4, <2>5 DEF ChangesInv
<1>2. ASSUME NEW type \in Types \ {"CHANGE"}, NEW paths \in SUBSET Paths,
             Written(type, iteration, paths), paths = changes \/ type = "REMOTE_EVENT",
             UNCHANGED <<iteration, changes>>
      PROVE  ChangesInv'
  <2>1. changes' = Changed(file', Len(file'), iteration)
    BY <1>0, <1>2, ChangedWritten DEF ChangesInv
  <2>2. ChangesAreCumulative' /\ \A i \in 1..Len(file') : file'[i].iteration <= iteration
    BY <1>0, <1>2, CumulativeWritten
  <2> QED
    BY <1>2, <2>1, <2>2 DEF ChangesInv
<1>3. ASSUME NEW type \in Reports, BuildEvent(type) PROVE ChangesInv'
  <2>1. type \in Types \ {"CHANGE"}
    BY DEF Reports, Types
  <2> QED
    BY <1>0, <1>2, <1>3, <2>1 DEF BuildEvent
<1>4. CASE ReloadTriggeredEvent
  BY <1>0, <1>2, <1>4 DEF ReloadTriggeredEvent, Types
<1>5. CASE RemoteEvent
  <2>1. {} \in SUBSET Paths /\ "REMOTE_EVENT" \in Types \ {"CHANGE"}
    BY DEF Types
  <2> QED
    BY <1>2, <1>5, <2>1 DEF RemoteEvent
<1>6. CASE UnexpectedRemoteEvent \/ UNCHANGED profilerVars
  BY <1>6 DEF UnexpectedRemoteEvent, profilerVars, ChangesInv, ChangesAreCumulative
<1> QED
  BY <1>1, <1>3, <1>4, <1>5, <1>6, ProfilerStep

\* Every report of a command or reload lists the changes of its iteration, all of them and
\* no other (ChangesAreCumulative, README.md:234).
THEOREM ChangesAreCumulativeHolds == Spec => []ChangesAreCumulative
<1>1. Init => ChangesInv
  <2> SUFFICES ASSUME Init PROVE ChangesInv
    OBVIOUS
  <2>1. /\ Len(file) = 1 /\ file[1].type = "IBAZEL_START" /\ file[1].iteration = 1
        /\ iteration = 1 /\ changes = {}
    BY DEF Init, ProfilerInit
  <2>2. Changed(file, Len(file), iteration) = {}
    BY <2>1 DEF Changed
  <2>3. ChangesAreCumulative
    BY <2>1 DEF ChangesAreCumulative
  <2> QED
    BY <2>1, <2>2, <2>3 DEF ChangesInv
<1>2. TypeOK /\ ChangesInv /\ [Next]_vars => ChangesInv'
  BY ChangesStep DEF TypeOK
<1>3. ChangesInv => ChangesAreCumulative
  BY DEF ChangesInv
<1> QED
  BY <1>1, <1>2, <1>3, TypeCorrect, PTL DEF Spec

(***************************************************************************)
(* The command of the loop, and the one the profiler has no event for.     *)
(***************************************************************************)

\* One command is run again and again.
LEMMA SameCommand == [Next]_vars => command' = command
BY DEF Next, CommandStep, TargetDecider, BeforeCommand, HookBefore, Hook, CommandToRun,
       TriggerReload, AfterCommand, HookAfter, HookResult, ChangeDetected, PagePosts,
       lifecycleVars, vars

\* A command that is not profiled is in no event of the profile.
Unreported == command \notin Profiled => \A i \in 1..Len(file) : file[i].type \notin Reports

LEMMA UnreportedStep == ProfilerTypeOK /\ Unreported /\ [Next]_vars => Unreported'
<1> SUFFICES ASSUME ProfilerTypeOK, Unreported, [Next]_vars, command \notin Profiled
             PROVE  \A i \in 1..Len(file') : file'[i].type \notin Reports
  BY SameCommand DEF Unreported
<1>0. /\ iteration \in Nat /\ changes \in SUBSET Paths
      /\ \A i \in 1..Len(file) : file[i].type \notin Reports
  BY DEF ProfilerTypeOK, Unreported
<1>1. ASSUME NEW type \in Types \ Reports, NEW key \in Nat, NEW paths \in SUBSET Paths,
             Written(type, key, paths)
      PROVE  \A i \in 1..Len(file') : file'[i].type \notin Reports
  <2>1. /\ Len(file) \in Nat /\ Len(file') = Len(file) + 1
        /\ file'[Len(file) + 1] = [type |-> type, iteration |-> key, changes |-> paths]
        /\ \A i \in 1..Len(file) : file'[i] = file[i]
    BY <1>1, WrittenStep DEF ProfilerTypeOK
  <2> SUFFICES ASSUME NEW i \in 1..Len(file') PROVE file'[i].type \notin Reports
    OBVIOUS
  <2>2. CASE i = Len(file) + 1
    BY <1>1, <2>1, <2>2
  <2>3. CASE i \in 1..Len(file)
    BY <1>0, <2>1, <2>3
  <2> QED
    BY <2>1, <2>2, <2>3
<1>2. /\ "CHANGE" \in Types \ Reports /\ "RELOAD_TRIGGERED" \in Types \ Reports
      /\ "REMOTE_EVENT" \in Types \ Reports /\ {} \in SUBSET Paths
  BY DEF Types, Reports
<1>3. ASSUME NEW p \in Paths, ChangeDetected(p)
      PROVE  \A i \in 1..Len(file') : file'[i].type \notin Reports
  <2>1. PICK key \in Nat : Written("CHANGE", key, {p})
    BY <1>0, <1>3 DEF ChangeDetected, ChangeEvent
  <2> QED
    BY <1>1, <1>2, <2>1
<1>4. CASE PagePosts /\ RemoteEvent
  BY <1>0, <1>1, <1>2, <1>4 DEF RemoteEvent
<1>5. CASE TriggerReload /\ liveReload
  BY <1>0, <1>1, <1>2, <1>5 DEF TriggerReload, ReloadTriggeredEvent
<1>6. CASE file' = file
  BY <1>0, <1>6
<1>7. \/ file' = file \/ (TriggerReload /\ liveReload) \/ (PagePosts /\ RemoteEvent)
      \/ \E p \in Paths : ChangeDetected(p)
  BY DEF Next, CommandStep, TargetDecider, BeforeCommand, CommandEvent, HookBefore, Hook,
         CommandToRun, TriggerReload, AfterCommand, HookAfter, HookResult, PagePosts,
         UnexpectedRemoteEvent, vars, profilerVars
<1> QED
  BY <1>3, <1>4, <1>5, <1>6, <1>7

(***************************************************************************)
(* The brackets of a command.                                              *)
(***************************************************************************)

\* Event i is the START of the last command of the first n events, and no change follows it.
LastCommand(i, n) ==
    /\ file[i].type = "START"
    /\ \A k \in (i + 1)..n : file[k].type \notin {"START", "CHANGE"}

\* That command, if any, is over.
Closed(n) == \A i \in 1..n : LastCommand(i, n) => Bracketed(i, n)

\* The command that is running, and what was written since its START.
Started(i) == file[i].type = "START" /\ file[i].iteration = iteration
OnlyRemote(i) == \A k \in (i + 1)..Len(file) : file[k].type = "REMOTE_EVENT"
OnlyReload(i) == \E r \in (i + 1)..Len(file) :
    /\ file[r].type = "RELOAD_TRIGGERED"
    /\ \A k \in (i + 1)..Len(file) : k # r => file[k].type = "REMOTE_EVENT"

\* The loop's place decides what the file ends in.
OpensClosed == \A j \in 1..Len(file) : file[j].type \in {"START", "CHANGE"} => Closed(j - 1)
BracketInv ==
    /\ OpensClosed
    /\ loop = "prepare" => \A i \in 1..Len(file) : file[i].type # "START"
    /\ loop \in {"hookBefore", "command", "reload"} =>
           \E i \in 1..Len(file) : Started(i) /\ OnlyRemote(i)
    /\ loop = "after" =>
           \E i \in 1..Len(file) :
               Started(i) /\ IF liveReload THEN OnlyReload(i) ELSE OnlyRemote(i)
    /\ loop \in {"prepare", "before", "hookAfter", "hookResult", "wait"} => Closed(Len(file))

\* What is written later changes nothing of the commands before it.
LEMMA ClosedWritten ==
    ASSUME ProfilerTypeOK, NEW type \in Types, NEW key \in Nat,
           NEW paths \in SUBSET Paths, Written(type, key, paths), UNCHANGED liveReload
    PROVE  /\ \A n \in 0..Len(file) : \A i \in 1..n :
                  /\ LastCommand(i, n)' => LastCommand(i, n)
                  /\ Bracketed(i, n) => Bracketed(i, n)'
           /\ \A n \in 0..Len(file) : Closed(n) => Closed(n)'
<1>1. /\ Len(file) \in Nat
      /\ \A i \in 1..Len(file) : file'[i] = file[i]
  BY WrittenStep DEF ProfilerTypeOK
<1>2. ASSUME NEW n \in 0..Len(file), NEW i \in 1..n
      PROVE  LastCommand(i, n)' => LastCommand(i, n)
  BY <1>1, <1>2 DEF LastCommand
<1>3. ASSUME NEW n \in 0..Len(file), NEW i \in 1..n, Bracketed(i, n)
      PROVE  Bracketed(i, n)'
  <2> DEFINE within == {k \in (i + 1)..n : file[k].type # "REMOTE_EVENT"}
  <2>1. \A k \in i..n : file'[k] = file[k]
    BY <1>1
  <2>2. within' = within
    BY <2>1
  <2>3. PICK end \in within :
            /\ file[end].type \in Ends
            /\ file[end].iteration = file[i].iteration
            /\ IF liveReload
               THEN \E reload \in (i + 1)..(end - 1) :
                        file[reload].type = "RELOAD_TRIGGERED" /\ within = {reload, end}
               ELSE within = {end}
    BY <1>3 DEF Bracketed
  <2>4. end \in i..n /\ i \in i..n /\ file'[end] = file[end] /\ file'[i] = file[i]
    BY <2>1
  <2>5. ASSUME NEW reload \in (i + 1)..(end - 1) PROVE file'[reload] = file[reload]
    BY <2>1, <2>4
  <2>6. /\ file'[end].type \in Ends
        /\ file'[end].iteration = file'[i].iteration
        /\ IF liveReload'
           THEN \E reload \in (i + 1)..(end - 1) :
                    file'[reload].type = "RELOAD_TRIGGERED" /\ within' = {reload, end}
           ELSE within' = {end}
    BY <2>2, <2>3, <2>4, <2>5
  <2> QED
    BY <2>2, <2>6 DEF Bracketed, Ends
<1>4. ASSUME NEW n \in 0..Len(file), Closed(n) PROVE Closed(n)'
  BY <1>2, <1>3, <1>4 DEF Closed
<1> QED
  BY <1>2, <1>3, <1>4

\* An event that is remote or a change keeps the last command closed; one that opens is
\* written when it is closed.
LEMMA ClosedStep ==
    ASSUME ProfilerTypeOK, NEW type \in Types, NEW key \in Nat,
           NEW paths \in SUBSET Paths, Written(type, key, paths), UNCHANGED liveReload,
           OpensClosed
    PROVE  /\ type \notin {"START", "CHANGE"} \/ Closed(Len(file)) => OpensClosed'
           /\ type = "REMOTE_EVENT" /\ Closed(Len(file)) => Closed(Len(file))'
           /\ type = "CHANGE" => Closed(Len(file))'
<1>0. /\ Len(file) \in Nat /\ Len(file') = Len(file) + 1
      /\ file'[Len(file) + 1] = [type |-> type, iteration |-> key, changes |-> paths]
      /\ \A i \in 1..Len(file) : file'[i] = file[i]
  BY WrittenStep DEF ProfilerTypeOK
<1> PICK m \in Nat : m = Len(file) + 1
  BY <1>0
<1>1. /\ Len(file) \in Nat /\ m = Len(file) + 1 /\ Len(file') = m
      /\ file'[m].type = type
      /\ \A i \in 1..Len(file) : file'[i] = file[i]
  BY <1>0
<1>2. ASSUME type \notin {"START", "CHANGE"} \/ Closed(Len(file)) PROVE OpensClosed'
  <2> SUFFICES ASSUME NEW j \in 1..m, file'[j].type \in {"START", "CHANGE"}
               PROVE  Closed(j - 1)'
    BY <1>1 DEF OpensClosed
  <2>1. CASE j \in 1..Len(file)
    <3>1. Closed(j - 1) /\ j - 1 \in 0..Len(file)
      BY <1>1, <2>1 DEF OpensClosed
    <3> QED
      BY <3>1, ClosedWritten
  <2>2. CASE j = m
    <3>1. Closed(Len(file)) /\ j - 1 = Len(file) /\ Len(file) \in 0..Len(file)
      BY <1>1, <1>2, <2>2
    <3>2. Closed(j - 1)
      BY <3>1
    <3> QED
      BY <3>1, <3>2, ClosedWritten
  <2> QED
    BY <1>1, <2>1, <2>2
<1>3. ASSUME type = "REMOTE_EVENT", Closed(Len(file)) PROVE Closed(Len(file))'
  <2> SUFFICES ASSUME NEW i \in 1..m, LastCommand(i, m)' PROVE Bracketed(i, m)'
    BY <1>1 DEF Closed
  <2>0. PICK n \in Nat : n = Len(file)
    BY <1>1
  <2>1. i \in 1..n /\ n \in 0..n /\ m = n + 1
    BY <1>1, <1>3, <2>0 DEF LastCommand
  <2>2. LastCommand(i, n)'
    BY <2>1 DEF LastCommand
  <2>3. LastCommand(i, n)
    BY <2>0, <2>1, <2>2, ClosedWritten
  <2>4. Bracketed(i, n)
    BY <1>3, <2>0, <2>1, <2>3 DEF Closed
  <2>5. Bracketed(i, n)'
    BY <2>0, <2>1, <2>4, ClosedWritten
  <2>6. file'[n + 1].type = "REMOTE_EVENT" /\ n \in Nat
    BY <1>1, <1>3, <2>0
  <2>7. {k \in (i + 1)..(n + 1) : file'[k].type # "REMOTE_EVENT"}
            = {k \in (i + 1)..n : file'[k].type # "REMOTE_EVENT"}
    BY <2>1, <2>6
  <2> QED
    BY <2>1, <2>5, <2>7 DEF Bracketed
<1>4. ASSUME type = "CHANGE" PROVE Closed(Len(file))'
  <2> SUFFICES ASSUME NEW i \in 1..m, LastCommand(i, m)' PROVE FALSE
    BY <1>1 DEF Closed
  <2>1. i = m
    BY <1>1, <1>4 DEF LastCommand
  <2> QED
    BY <1>1, <1>4, <2>1 DEF LastCommand
<1> QED
  BY <1>2, <1>3, <1>4

\* The result of the command that is running closes it.
LEMMA ClosedByResult ==
    ASSUME ProfilerTypeOK, liveReload \in BOOLEAN, NEW type \in Ends, NEW paths \in SUBSET Paths,
           Written(type, iteration, paths), UNCHANGED liveReload, NEW s \in 1..Len(file),
           Started(s), IF liveReload THEN OnlyReload(s) ELSE OnlyRemote(s)
    PROVE  Closed(Len(file))'
<1>0. type \in Types /\ iteration \in Nat
  BY DEF Types, Ends, ProfilerTypeOK
<1>1. /\ Len(file) \in Nat /\ Len(file') = Len(file) + 1
      /\ file'[Len(file) + 1] = [type |-> type, iteration |-> iteration, changes |-> paths]
      /\ \A i \in 1..Len(file) : file'[i] = file[i]
  BY <1>0, WrittenStep DEF ProfilerTypeOK
<1> PICK n \in Nat, m \in Nat : n = Len(file) /\ m = n + 1
  BY <1>1
<1>2. /\ Len(file') = m /\ s \in 1..n
      /\ file'[m].type = type /\ file'[m].iteration = iteration
      /\ \A i \in 1..n : file'[i] = file[i]
  BY <1>1
<1>3. file'[m].type \in Ends /\ file'[m].iteration = file'[s].iteration /\ file'[s].type = "START"
  BY <1>2 DEF Started
<1>4. Bracketed(s, m)'
  <2> DEFINE within == {k \in (s + 1)..m : file'[k].type # "REMOTE_EVENT"}
  <2>0. m \in within /\ \A k \in (s + 1)..m : k # m => k \in (s + 1)..n
    BY <1>2, <1>3 DEF Ends
  <2>1. CASE liveReload
    <3>1. PICK r \in (s + 1)..n :
              /\ file[r].type = "RELOAD_TRIGGERED"
              /\ \A k \in (s + 1)..n : k # r => file[k].type = "REMOTE_EVENT"
      BY <2>1 DEF OnlyReload
    <3>2. r \in (s + 1)..(m - 1) /\ file'[r].type = "RELOAD_TRIGGERED"
      BY <1>2, <3>1
    <3>3. \A k \in (s + 1)..n : k # r => file'[k].type = "REMOTE_EVENT"
      BY <1>2, <3>1
    <3>4. within = {r, m}
      BY <2>0, <3>2, <3>3
    <3> HIDE DEF within
    <3>5. \E reload \in (s + 1)..(m - 1) :
              file'[reload].type = "RELOAD_TRIGGERED" /\ within = {reload, m}
      BY <3>2, <3>4
    <3> QED
      BY <1>3, <2>0, <2>1, <3>5 DEF Bracketed, within, Ends
  <2>2. CASE ~liveReload
    <3>1. \A k \in (s + 1)..n : file'[k].type = "REMOTE_EVENT"
      BY <1>2, <2>2 DEF OnlyRemote
    <3>2. within = {m}
      BY <2>0, <3>1
    <3> QED
      BY <1>3, <2>0, <2>2, <3>2 DEF Bracketed, Ends
  <2> QED
    BY <2>1, <2>2
<1>5. \A k \in (s + 1)..n : file[k].type \in {"REMOTE_EVENT", "RELOAD_TRIGGERED"}
  BY DEF OnlyReload, OnlyRemote
<1>6. ASSUME NEW i \in 1..m, LastCommand(i, m)' PROVE i = s
  <2>1. file'[i].type = "START" /\ \A k \in (i + 1)..m : file'[k].type \notin {"START", "CHANGE"}
    BY <1>6 DEF LastCommand
  <2>2. i # m
    BY <1>3, <2>1 DEF Ends
  <2>3. i \in 1..n /\ file[i].type = "START"
    BY <1>2, <2>1, <2>2
  <2>4. ~(i > s)
    BY <1>5, <2>3
  <2>5. ~(i < s)
    BY <1>2, <1>3, <2>1, <2>3
  <2> QED
    BY <1>2, <2>3, <2>4, <2>5
<1> QED
  BY <1>2, <1>4, <1>6 DEF Closed

\* What was remote only, stays so when a remote event is written, or holds the one reload
\* that is.
LEMMA RunningStep ==
    ASSUME ProfilerTypeOK, NEW type \in {"REMOTE_EVENT", "RELOAD_TRIGGERED"},
           NEW paths \in SUBSET Paths, Written(type, iteration, paths), UNCHANGED iteration,
           NEW s \in 1..Len(file), Started(s)
    PROVE  /\ s \in 1..Len(file') /\ Started(s)'
           /\ type = "REMOTE_EVENT" /\ OnlyRemote(s) => OnlyRemote(s)'
           /\ type = "REMOTE_EVENT" /\ OnlyReload(s) => OnlyReload(s)'
           /\ type = "RELOAD_TRIGGERED" /\ OnlyRemote(s) => OnlyReload(s)'
<1>0. type \in Types /\ iteration \in Nat
  BY DEF Types, ProfilerTypeOK
<1>1. /\ Len(file) \in Nat /\ Len(file') = Len(file) + 1
      /\ file'[Len(file) + 1] = [type |-> type, iteration |-> iteration, changes |-> paths]
      /\ \A i \in 1..Len(file) : file'[i] = file[i]
  BY <1>0, WrittenStep DEF ProfilerTypeOK
<1> PICK n \in Nat, m \in Nat : n = Len(file) /\ m = n + 1
  BY <1>1
<1>2. /\ Len(file') = m /\ s \in 1..n /\ m \in 1..m /\ s \in 1..m
      /\ file'[m].type = type
      /\ \A i \in 1..n : file'[i] = file[i]
      /\ \A k \in (s + 1)..m : k # m => k \in (s + 1)..n
      /\ m \in (s + 1)..m
  BY <1>1
<1>3. Started(s)'
  BY <1>2 DEF Started
<1>4. type = "REMOTE_EVENT" /\ OnlyRemote(s) => OnlyRemote(s)'
  BY <1>2 DEF OnlyRemote
<1>5. ASSUME type = "REMOTE_EVENT", OnlyReload(s) PROVE OnlyReload(s)'
  <2>1. PICK r \in (s + 1)..n :
            /\ file[r].type = "RELOAD_TRIGGERED"
            /\ \A k \in (s + 1)..n : k # r => file[k].type = "REMOTE_EVENT"
    BY <1>5 DEF OnlyReload
  <2>2. r \in (s + 1)..m /\ file'[r].type = "RELOAD_TRIGGERED"
    BY <1>2, <2>1
  <2>3. \A k \in (s + 1)..m : k # r => file'[k].type = "REMOTE_EVENT"
    BY <1>2, <1>5, <2>1
  <2> QED
    BY <1>2, <2>2, <2>3 DEF OnlyReload
<1>6. ASSUME type = "RELOAD_TRIGGERED", OnlyRemote(s) PROVE OnlyReload(s)'
  <2>1. \A k \in (s + 1)..m : k # m => file'[k].type = "REMOTE_EVENT"
    BY <1>2, <1>6 DEF OnlyRemote
  <2> QED
    BY <1>2, <1>6, <2>1 DEF OnlyReload
<1> QED
  BY <1>2, <1>3, <1>4, <1>5, <1>6

\* Every step of a command that has events keeps BracketInv.
LEMMA BracketStep == TypeOK /\ command \in Profiled /\ BracketInv /\ [Next]_vars => BracketInv'
<1> SUFFICES ASSUME TypeOK, command \in Profiled, BracketInv, [Next]_vars PROVE BracketInv'
  OBVIOUS
<1>0. ProfilerTypeOK /\ liveReload \in BOOLEAN /\ iteration \in Nat /\ changes \in SUBSET Paths
  BY DEF TypeOK, ProfilerTypeOK
<1>1. ASSUME NEW mode, TargetDecider(mode) PROVE BracketInv'
  <2>1. loop = "prepare" /\ loop' = "before" /\ UNCHANGED file
    BY <1>1 DEF TargetDecider, profilerVars
  <2>2. \A i \in 1..Len(file') : file'[i].type # "START"
    BY <2>1 DEF BracketInv
  <2>3. Len(file) \in Nat
    BY <1>0 DEF ProfilerTypeOK
  <2>4. OpensClosed' /\ Closed(Len(file))'
    BY <2>1, <2>2, <2>3 DEF OpensClosed, Closed, LastCommand
  <2> QED
    BY <2>1, <2>4 DEF BracketInv
<1>2. CASE BeforeCommand
  <2>1. /\ loop = "before" /\ loop' = "hookBefore" /\ UNCHANGED <<liveReload, iteration>>
        /\ "START" \in Types /\ Written("START", iteration, changes)
    BY <1>2 DEF BeforeCommand, CommandEvent, BuildEvent, Types
  <2>2. OpensClosed'
    BY <1>0, <2>1, ClosedStep DEF BracketInv
  <2>3. /\ Len(file) \in Nat /\ Len(file') = Len(file) + 1
        /\ file'[Len(file) + 1] = [type |-> "START", iteration |-> iteration, changes |-> changes]
    BY <1>0, <2>1, WrittenStep DEF ProfilerTypeOK
  <2> PICK m \in Nat : m = Len(file) + 1
    BY <2>3
  <2>4. m \in 1..Len(file') /\ Started(m)' /\ OnlyRemote(m)'
    BY <2>1, <2>3 DEF Started, OnlyRemote
  <2> QED
    BY <2>1, <2>2, <2>4 DEF BracketInv
<1>3. ASSUME UNCHANGED <<file, iteration, liveReload>>,
             \/ loop' = loop
             \/ loop' = "exited"
             \/ loop \in {"hookBefore", "command"} /\ loop' \in {"command", "reload"}
             \/ loop = "reload" /\ loop' = "after" /\ ~liveReload
             \/ loop \in {"hookAfter", "hookResult"} /\ loop' \in {"hookResult", "before", "wait"}
      PROVE  BracketInv'
  <2>1. /\ OpensClosed' = OpensClosed
        /\ Closed(Len(file))' = Closed(Len(file))
    BY <1>3 DEF OpensClosed, Closed, LastCommand, Bracketed
  <2>2. \A i \in 1..Len(file) : /\ Started(i)' = Started(i)
                                /\ OnlyRemote(i)' = OnlyRemote(i)
                                /\ OnlyReload(i)' = OnlyReload(i)
    BY <1>3 DEF Started, OnlyRemote, OnlyReload
  <2> QED
    BY <1>3, <2>1, <2>2 DEF BracketInv
<1>4. CASE TriggerReload
  <2>1. loop = "reload" /\ loop' = "after" /\ UNCHANGED liveReload
    BY <1>4 DEF TriggerReload
  <2>2. CASE ~liveReload
    <3>1. UNCHANGED <<file, iteration, liveReload>>
      BY <1>4, <2>2 DEF TriggerReload, profilerVars
    <3> QED
      BY <1>3, <2>1, <2>2, <3>1
  <2>3. CASE liveReload
    <3>1. /\ Written("RELOAD_TRIGGERED", iteration, changes) /\ UNCHANGED iteration
          /\ "RELOAD_TRIGGERED" \in Types
      BY <1>4, <2>3 DEF TriggerReload, ReloadTriggeredEvent, Types
    <3>2. PICK s \in 1..Len(file) : Started(s) /\ OnlyRemote(s)
      BY <2>1 DEF BracketInv
    <3>3. s \in 1..Len(file') /\ Started(s)' /\ OnlyReload(s)'
      BY <1>0, <2>1, <3>1, <3>2, RunningStep
    <3>4. OpensClosed'
      BY <1>0, <2>1, <3>1, ClosedStep DEF BracketInv
    <3> QED
      BY <2>1, <2>3, <3>3, <3>4 DEF BracketInv
  <2> QED
    BY <1>0, <2>2, <2>3
<1>5. CASE AfterCommand
  <2>1. loop = "after" /\ loop' = "hookAfter" /\ UNCHANGED liveReload
    BY <1>5 DEF AfterCommand
  <2>2. PICK type \in Ends : Written(type, iteration, changes)
    BY <1>5 DEF AfterCommand, CommandEvent, BuildEvent, Ends
  <2>3. PICK s \in 1..Len(file) : Started(s) /\ IF liveReload THEN OnlyReload(s) ELSE OnlyRemote(s)
    BY <2>1 DEF BracketInv
  <2>4. Closed(Len(file))'
    BY <1>0, <2>1, <2>2, <2>3, ClosedByResult
  <2>5. type \in Types /\ type \notin {"START", "CHANGE"}
    BY DEF Types, Ends
  <2>6. OpensClosed'
    BY <1>0, <2>1, <2>2, <2>5, ClosedStep DEF BracketInv
  <2> QED
    BY <2>1, <2>4, <2>6 DEF BracketInv
<1>6. CASE HookBefore \/ HookAfter \/ HookResult \/ \E o \in BOOLEAN : CommandToRun(o)
  <2>1. UNCHANGED <<file, iteration, liveReload>>
    BY <1>6 DEF HookBefore, HookAfter, Hook, HookResult, CommandToRun, profilerVars
  <2>2. \/ loop' = "exited"
        \/ loop \in {"hookBefore", "command"} /\ loop' \in {"command", "reload"}
        \/ loop \in {"hookAfter", "hookResult"} /\ loop' \in {"hookResult", "before", "wait"}
    BY <1>6 DEF HookBefore, HookAfter, Hook, HookResult, CommandToRun
  <2> QED
    BY <1>3, <2>1, <2>2
<1>7. ASSUME NEW path \in Paths, ChangeDetected(path) PROVE BracketInv'
  <2>1. loop = "wait" /\ loop' \in {"wait", "before"} /\ UNCHANGED liveReload
    BY <1>7 DEF ChangeDetected
  <2>2. PICK key \in Nat : Written("CHANGE", key, {path})
    BY <1>0, <1>7 DEF ChangeDetected, ChangeEvent
  <2>3. "CHANGE" \in Types /\ {path} \in SUBSET Paths /\ Closed(Len(file))
    BY <2>1 DEF Types, BracketInv
  <2>4. OpensClosed' /\ Closed(Len(file))'
    BY <1>0, <2>1, <2>2, <2>3, ClosedStep DEF BracketInv
  <2> QED
    BY <2>1, <2>4 DEF BracketInv
<1>8. CASE PagePosts
  <2>1. CASE UnexpectedRemoteEvent
    <3>1. UNCHANGED <<file, iteration, liveReload>> /\ loop' = loop
      BY <1>8, <2>1 DEF PagePosts, UnexpectedRemoteEvent, lifecycleVars
    <3> QED
      BY <1>3, <3>1
  <2>2. CASE RemoteEvent
    <3>1. /\ Written("REMOTE_EVENT", iteration, {}) /\ UNCHANGED <<iteration, liveReload, loop>>
          /\ "REMOTE_EVENT" \in Types /\ {} \in SUBSET Paths
      BY <1>8, <2>2 DEF PagePosts, RemoteEvent, lifecycleVars, Types
    <3>2. OpensClosed' /\ (Closed(Len(file)) => Closed(Len(file))')
      BY <1>0, <3>1, ClosedStep DEF BracketInv
    <3>3. ASSUME NEW s \in 1..Len(file), Started(s)
          PROVE  /\ s \in 1..Len(file') /\ Started(s)'
                 /\ OnlyRemote(s) => OnlyRemote(s)'
                 /\ OnlyReload(s) => OnlyReload(s)'
      BY <1>0, <3>1, <3>3, RunningStep
    <3>4. loop = "prepare" => \A i \in 1..Len(file') : file'[i].type # "START"
      <4>1. /\ Len(file) \in Nat /\ Len(file') = Len(file) + 1
            /\ file'[Len(file) + 1] = [type |-> "REMOTE_EVENT", iteration |-> iteration, changes |-> {}]
            /\ \A i \in 1..Len(file) : file'[i] = file[i]
        BY <1>0, <3>1, WrittenStep DEF ProfilerTypeOK
      <4>2. ASSUME loop = "prepare", NEW i \in 1..Len(file') PROVE file'[i].type # "START"
        <5>1. CASE i = Len(file) + 1
          BY <4>1, <5>1
        <5>2. CASE i \in 1..Len(file)
          BY <4>1, <4>2, <5>2 DEF BracketInv
        <5> QED
          BY <4>1, <5>1, <5>2
      <4> QED
        BY <4>2
    <3>5. ASSUME loop \in {"hookBefore", "command", "reload"}
          PROVE  \E i \in 1..Len(file') : Started(i)' /\ OnlyRemote(i)'
      <4>1. PICK s \in 1..Len(file) : Started(s) /\ OnlyRemote(s)
        BY <3>5 DEF BracketInv
      <4> QED
        BY <3>3, <4>1
    <3>7. ASSUME loop = "after"
          PROVE  \E i \in 1..Len(file') :
                     Started(i)' /\ IF liveReload THEN OnlyReload(i)' ELSE OnlyRemote(i)'
      <4>1. PICK s \in 1..Len(file) :
                Started(s) /\ IF liveReload THEN OnlyReload(s) ELSE OnlyRemote(s)
        BY <3>7 DEF BracketInv
      <4>2. s \in 1..Len(file') /\ Started(s)' /\ IF liveReload THEN OnlyReload(s)' ELSE OnlyRemote(s)'
        <5>1. CASE liveReload
          BY <3>3, <4>1, <5>1
        <5>2. CASE ~liveReload
          BY <3>3, <4>1, <5>2
        <5> QED
          BY <5>1, <5>2
      <4> QED
        BY <4>2
    <3>6. loop \in {"prepare", "before", "hookAfter", "hookResult", "wait"} => Closed(Len(file))'
      BY <3>2 DEF BracketInv
    <3> QED
      BY <3>1, <3>2, <3>4, <3>5, <3>6, <3>7 DEF BracketInv
  <2> QED
    BY <1>8, <2>1, <2>2 DEF PagePosts
<1>9. CASE UNCHANGED vars
  <2>1. UNCHANGED <<file, iteration, liveReload>> /\ loop' = loop
    BY <1>9 DEF vars, profilerVars, lifecycleVars
  <2> QED
    BY <1>3, <2>1
<1> QED
  BY <1>1, <1>2, <1>4, <1>5, <1>6, <1>7, <1>8, <1>9 DEF Next, CommandStep

\* The events of a command are bracketed: one result in its own iteration, after one reload
\* or none (CommandsAreBracketed, iteration's RUN case, ibazel.go).
THEOREM CommandsAreBracketedHolds == Spec => []CommandsAreBracketed
<1> DEFINE I == Unreported /\ (command \in Profiled => BracketInv)
<1>1. Init => I
  <2> SUFFICES ASSUME Init PROVE Unreported /\ BracketInv
    OBVIOUS
  <2>1. /\ Len(file) = 1 /\ file[1].type = "IBAZEL_START" /\ loop \in {"prepare", "before"}
    BY DEF Init, ProfilerInit
  <2> QED
    BY <2>1 DEF BracketInv, OpensClosed, Closed, LastCommand, Unreported, Reports
<1>2. TypeOK /\ I /\ [Next]_vars => I'
  BY BracketStep, UnreportedStep, SameCommand DEF TypeOK
<1>3. TypeOK /\ I => CommandsAreBracketed
  <2> SUFFICES ASSUME TypeOK, I, NEW i \in 1..Len(file), NEW j \in 1..Len(file), i < j,
                      file[i].type = "START", file[j].type \in {"START", "CHANGE"},
                      \A k \in (i + 1)..(j - 1) : file[k].type \notin {"START", "CHANGE"}
               PROVE  Bracketed(i, j - 1)
    BY DEF CommandsAreBracketed
  <2>1. command \in Profiled
    BY DEF Unreported, Reports
  <2>2. Closed(j - 1) /\ i \in 1..(j - 1)
    BY <2>1 DEF BracketInv, OpensClosed
  <2> QED
    BY <2>2 DEF Closed, LastCommand
<1> HIDE DEF I
<1> QED
  BY <1>1, <1>2, <1>3, TypeCorrect, PTL DEF Spec

(***************************************************************************)
(* The hooks and the result.                                               *)
(***************************************************************************)

\* What the hook of the result is, and the event that it goes with.
ResultHook == IF success THEN "after_success" ELSE "after_error"
ResultEvent == IF success THEN "DONE" ELSE "FAILED"

\* Event i is the last start or end of a command in the profile.
Last(i) ==
    file[i].type \in Reports /\ \A j \in (i + 1)..Len(file) : file[j].type \notin Reports

\* The hooks run so far are those whose turn has come, and the last such event is the result
\* of this command, if it has events.
HooksInv ==
    /\ loop = "hookBefore" => ran = <<>>
    /\ loop \in {"command", "reload", "after", "hookAfter"} => ran = Given("before")
    /\ loop = "hookResult" => ran = Given("before") \o Given("after")
    /\ loop = "wait" => ran = Given("before") \o Given("after") \o Given(ResultHook)
    /\ command \in Profiled /\ loop \in {"hookAfter", "hookResult", "wait"} =>
           \E i \in 1..Len(file) : Last(i) /\ file[i].type = ResultEvent

\* A hook adds what it is given.
LEMMA HookRun ==
    ASSUME ran \in Seq(HookNames), NEW name \in HookNames,
           ran' = IF hooks[name] = "command" THEN Append(ran, name) ELSE ran
    PROVE  ran' = ran \o Given(name)
<1>1. CASE hooks[name] = "command"
  BY <1>1 DEF Given
<1>2. CASE hooks[name] # "command"
  BY <1>2 DEF Given
<1> QED
  BY <1>1, <1>2

\* An event that is no start or end of a command leaves the last one the last.
LEMMA LastStep ==
    ASSUME ProfilerTypeOK, NEW type \in Types \ Reports, NEW key \in Nat,
           NEW paths \in SUBSET Paths, Written(type, key, paths),
           NEW i \in 1..Len(file), Last(i)
    PROVE  i \in 1..Len(file') /\ Last(i)' /\ file'[i] = file[i]
<1>1. /\ Len(file) \in Nat /\ Len(file') = Len(file) + 1
      /\ file'[Len(file) + 1] = [type |-> type, iteration |-> key, changes |-> paths]
      /\ \A k \in 1..Len(file) : file'[k] = file[k]
  BY WrittenStep DEF ProfilerTypeOK
<1>2. ASSUME NEW j \in (i + 1)..Len(file') PROVE file'[j].type \notin Reports
  <2>1. CASE j = Len(file) + 1
    BY <1>1, <2>1
  <2>2. CASE j \in (i + 1)..Len(file)
    BY <1>1, <2>2 DEF Last
  <2> QED
    BY <1>1, <1>2, <2>1, <2>2
<1> QED
  BY <1>1, <1>2 DEF Last, Reports

\* Every step keeps HooksInv.
LEMMA HooksStep == TypeOK /\ HooksInv /\ [Next]_vars => HooksInv'
<1> SUFFICES ASSUME TypeOK, HooksInv, [Next]_vars PROVE HooksInv'
  OBVIOUS
<1>0. /\ ProfilerTypeOK /\ iteration \in Nat /\ changes \in SUBSET Paths
      /\ ran \in Seq(HookNames) /\ success \in BOOLEAN
      /\ command' = command
  BY SameCommand DEF TypeOK, ProfilerTypeOK
<1>1. CASE (\E mode \in {"defaultStartup", "notificationStartup"} : TargetDecider(mode))
           \/ BeforeCommand
  BY <1>1 DEF TargetDecider, BeforeCommand, HooksInv
<1>2. CASE HookBefore
  <2>1. /\ loop = "hookBefore" /\ loop' \in {"command", "exited"} /\ UNCHANGED hooks
        /\ ran' = IF hooks["before"] = "command" THEN Append(ran, "before") ELSE ran
    BY <1>2 DEF HookBefore, Hook
  <2>2. ran = <<>> /\ "before" \in HookNames
    BY <2>1 DEF HooksInv, HookNames
  <2>3. ran' = ran \o Given("before") /\ Given("before")' = Given("before")
    BY <1>0, <2>1, <2>2, HookRun DEF Given
  <2>4. <<>> \o Given("before") = Given("before")
    BY DEF Given
  <2> QED
    BY <2>1, <2>2, <2>3, <2>4 DEF HooksInv
<1>3. CASE (\E o \in BOOLEAN : CommandToRun(o)) \/ TriggerReload
  <2>1. loop \in {"command", "reload"} /\ loop' \in {"reload", "after"} /\ UNCHANGED <<hooks, ran>>
    BY <1>3 DEF CommandToRun, TriggerReload
  <2> QED
    BY <2>1 DEF HooksInv, Given
<1>4. CASE AfterCommand
  <2>1. loop = "after" /\ loop' = "hookAfter" /\ UNCHANGED <<hooks, ran, success>>
    BY <1>4 DEF AfterCommand
  <2>2. ASSUME command \in Profiled
        PROVE  \E i \in 1..Len(file') : Last(i)' /\ file'[i].type = ResultEvent'
    <3>1. /\ Written(ResultEvent, iteration, changes)
          /\ ResultEvent \in Types /\ ResultEvent \in Reports
      BY <1>4, <2>2 DEF AfterCommand, CommandEvent, BuildEvent, ResultEvent, Types, Reports
    <3>2. /\ Len(file) \in Nat /\ Len(file') = Len(file) + 1
          /\ file'[Len(file) + 1] =
                 [type |-> ResultEvent, iteration |-> iteration, changes |-> changes]
      BY <1>0, <3>1, WrittenStep DEF ProfilerTypeOK
    <3> PICK m \in Nat : m = Len(file) + 1
      BY <3>2
    <3>3. m \in 1..Len(file') /\ file'[m].type = ResultEvent /\ ResultEvent' = ResultEvent
      BY <2>1, <3>2 DEF ResultEvent
    <3>4. Last(m)'
      BY <3>1, <3>2, <3>3 DEF Last, Reports
    <3> QED
      BY <3>3, <3>4
  <2> QED
    BY <1>0, <2>1, <2>2 DEF HooksInv, Given
<1>5. CASE HookAfter
  <2>1. /\ loop = "hookAfter" /\ loop' \in {"hookResult", "exited"} /\ UNCHANGED <<hooks, success, file>>
        /\ ran' = IF hooks["after"] = "command" THEN Append(ran, "after") ELSE ran
    BY <1>5 DEF HookAfter, Hook, profilerVars
  <2>2. ran = Given("before") /\ "after" \in HookNames
    BY <2>1 DEF HooksInv, HookNames
  <2>3. ran' = ran \o Given("after")
    BY <1>0, <2>1, <2>2, HookRun
  <2>5. ASSUME command \in Profiled
        PROVE  \E i \in 1..Len(file') : Last(i)' /\ file'[i].type = ResultEvent'
    BY <2>1, <2>5 DEF HooksInv, Last, ResultEvent
  <2> QED
    BY <1>0, <2>1, <2>2, <2>3, <2>5 DEF HooksInv, Given
<1>6. CASE HookResult
  <2>1. /\ loop = "hookResult" /\ loop' \in {"before", "wait", "exited"}
        /\ UNCHANGED <<hooks, success, file>>
        /\ ran' = IF hooks[ResultHook] = "command" THEN Append(ran, ResultHook) ELSE ran
    BY <1>6 DEF HookResult, profilerVars, ResultHook
  <2>2. ran = Given("before") \o Given("after") /\ ResultHook \in HookNames
    BY <2>1 DEF HooksInv, HookNames, ResultHook
  <2>3. ran' = ran \o Given(ResultHook)
    BY <1>0, <2>1, <2>2, HookRun
  <2>5. ASSUME command \in Profiled
        PROVE  \E i \in 1..Len(file') : Last(i)' /\ file'[i].type = ResultEvent'
    BY <2>1, <2>5 DEF HooksInv, Last, ResultEvent
  <2>6. ran' = Given("before")' \o Given("after")' \o Given(ResultHook)'
    BY <2>1, <2>2, <2>3 DEF Given, ResultHook
  <2> QED
    BY <1>0, <2>1, <2>5, <2>6 DEF HooksInv
<1>7. ASSUME NEW type \in Types \ Reports, NEW key \in Nat, NEW paths \in SUBSET Paths,
             Written(type, key, paths), UNCHANGED <<hooks, ran, success>>,
             loop' = loop \/ loop' = "before"
      PROVE  HooksInv'
  <2>1. ASSUME command \in Profiled, loop \in {"hookAfter", "hookResult", "wait"}
        PROVE  \E i \in 1..Len(file') : Last(i)' /\ file'[i].type = ResultEvent'
    <3>1. PICK i \in 1..Len(file) : Last(i) /\ file[i].type = ResultEvent
      BY <2>1 DEF HooksInv
    <3>2. i \in 1..Len(file') /\ Last(i)' /\ file'[i] = file[i]
      BY <1>0, <1>7, <3>1, LastStep
    <3> QED
      BY <1>7, <3>1, <3>2 DEF ResultEvent
  <2>2. /\ \A name : Given(name)' = Given(name)
        /\ Given(ResultHook)' = Given(ResultHook)
    BY <1>7 DEF Given, ResultHook
  <2> QED
    BY <1>0, <1>7, <2>1, <2>2 DEF HooksInv
<1>8. ASSUME UNCHANGED <<hooks, ran, success, file, loop>> PROVE HooksInv'
  BY <1>0, <1>8 DEF HooksInv, Given, Last, ResultEvent, ResultHook
<1>9. ASSUME NEW path \in Paths, ChangeDetected(path) PROVE HooksInv'
  <2>1. PICK key \in Nat : Written("CHANGE", key, {path})
    BY <1>0, <1>9 DEF ChangeDetected, ChangeEvent
  <2>2. "CHANGE" \in Types \ Reports /\ {path} \in SUBSET Paths
    BY DEF Types, Reports
  <2>3. UNCHANGED <<hooks, ran, success>> /\ (loop' = loop \/ loop' = "before")
    BY <1>9 DEF ChangeDetected
  <2> QED
    BY <1>7, <2>1, <2>2, <2>3
<1>10. CASE PagePosts
  <2>1. UNCHANGED <<hooks, ran, success, loop>>
    BY <1>10 DEF PagePosts, lifecycleVars
  <2>2. CASE RemoteEvent
    <3>1. "REMOTE_EVENT" \in Types \ Reports /\ {} \in SUBSET Paths
      BY DEF Types, Reports
    <3>2. Written("REMOTE_EVENT", iteration, {})
      BY <2>2 DEF RemoteEvent
    <3> QED
      BY <1>0, <1>7, <2>1, <3>1, <3>2
  <2>3. CASE UnexpectedRemoteEvent
    BY <1>8, <2>1, <2>3 DEF UnexpectedRemoteEvent
  <2> QED
    BY <1>10, <2>2, <2>3 DEF PagePosts
<1>11. CASE UNCHANGED vars
  <2>1. UNCHANGED <<hooks, ran, success, file, loop>>
    BY <1>11 DEF vars, profilerVars, lifecycleVars
  <2> QED
    BY <1>8, <2>1
<1> QED
  BY <1>1, <1>2, <1>3, <1>4, <1>5, <1>6, <1>9, <1>10, <1>11 DEF Next, CommandStep

\* Once the loop waits, the hooks that ran are those given, and the hook of the result is that
\* of the last result in the profile; a `coverage` command is in no event (ListenersAgree,
\* afterCommand, ibazel.go:245).
THEOREM ListenersAgreeHolds == Spec => []ListenersAgree
<1>1. Init => Unreported /\ HooksInv
  BY DEF Init, ProfilerInit, HooksInv, Unreported, Reports
<1>2. TypeOK /\ Unreported /\ HooksInv /\ [Next]_vars => (Unreported /\ HooksInv)'
  BY HooksStep, UnreportedStep DEF TypeOK
<1>3. TypeOK /\ Unreported /\ HooksInv => ListenersAgree
  <2> SUFFICES ASSUME TypeOK, Unreported, HooksInv, loop = "wait" PROVE ListenersAgree
    BY DEF ListenersAgree
  <2>1. /\ ran = Given("before") \o Given("after") \o Given(ResultHook)
        /\ success \in BOOLEAN
    BY DEF HooksInv, TypeOK
  <2>2. CASE command \in Profiled
    <3>1. PICK i \in 1..Len(file) : Last(i) /\ file[i].type = ResultEvent
      BY <2>2 DEF HooksInv
    <3>2. LastReport \in 1..Len(file) /\ Last(LastReport)
      BY <3>1 DEF LastReport, Last
    <3>3. LastReport = i
      <4>1. ~(i < LastReport) /\ ~(LastReport < i)
        BY <3>1, <3>2 DEF Last
      <4> QED
        BY <3>2, <4>1
    <3>4. /\ file[LastReport].type = ResultEvent
          /\ (file[LastReport].type = "DONE") <=> success
          /\ file[LastReport].type \in Ends
      BY <2>1, <3>1, <3>3 DEF ResultEvent, Ends
    <3> QED
      BY <2>1, <2>2, <3>4 DEF ListenersAgree, ResultHook
  <2>3. CASE command \notin Profiled
    <3>1. {i \in 1..Len(file) : file[i].type \in Reports} = {}
      BY <2>3 DEF Unreported
    <3> QED
      BY <2>1, <2>3, <3>1 DEF ListenersAgree, ResultHook
  <2> QED
    BY <2>2, <2>3
<1> QED
  BY <1>1, <1>2, <1>3, TypeCorrect, PTL DEF Spec

=============================================================================
