------------------------------ MODULE Profiler ------------------------------
(***************************************************************************)
(* The development profiler (internal/ibazel/profiler/profiler.go), with   *)
(* the flag --profile_dev given.  The main loop reports changes, commands  *)
(* and reloads to it (Lifecycle says when); the browser posts remote       *)
(* events, which net/http handles in goroutines of their own.  i.lock      *)
(* serialises both.  A method holds the lock from its first statement to   *)
(* its last, so it is one step, enabled while the lock is free; what makes *)
(* this interesting is the method that keeps it.                           *)
(*                                                                         *)
(* START stands for BUILD_START, TEST_START and RUN_START, likewise DONE   *)
(* and FAILED, and CHANGE for SOURCE_CHANGE and GRAPH_CHANGE.              *)
(***************************************************************************)
EXTENDS Integers, Sequences

CONSTANTS
    Paths,       \* the files that change
    MaxEvents    \* bound on the events of the profile file

ASSUME ProfilerAssumption == MaxEvents \in Nat

VARIABLES
    locked,                    \* i.lock is held
    iteration,                 \* i.iteration, a fresh random key: a fresh number here
    iterationBuildStart,
    iterationReloadTriggered,
    changes,                   \* i.changes
    file                       \* i.file: the events written so far

profilerVars == <<locked, iteration, iterationBuildStart, iterationReloadTriggered,
                  changes, file>>

Types == {"IBAZEL_START", "CHANGE", "START", "RELOAD_TRIGGERED", "DONE", "FAILED",
          "REMOTE_EVENT"}
ProfileEvent == [type : Types, iteration : Nat, changes : SUBSET Paths]

ProfilerTypeOK ==
    /\ locked \in BOOLEAN
    /\ iteration \in Nat
    /\ iterationBuildStart \in BOOLEAN
    /\ iterationReloadTriggered \in BOOLEAN
    /\ changes \subseteq Paths
    /\ file \in Seq(ProfileEvent)

\* processEvent, in the iteration given.
Written(type, key, paths) ==
    /\ Len(file) < MaxEvents
    /\ file' = Append(file, [type |-> type, iteration |-> key, changes |-> paths])

\* Initialize: a first iteration, and startEvent.
ProfilerInit ==
    /\ locked = FALSE
    /\ iteration = 1
    /\ iterationBuildStart = FALSE
    /\ iterationReloadTriggered = FALSE
    /\ changes = {}
    /\ file = <<[type |-> "IBAZEL_START", iteration |-> 1, changes |-> {}]>>

\* Mutant of ChangeEvent: newIteration leaves iterationReloadTriggered as it was.
ChangeEventKeepsReload(path) ==
    /\ ~locked
    /\ LET fresh == iterationBuildStart
           key   == IF fresh THEN iteration + 1 ELSE iteration IN
       /\ iteration' = key
       /\ Written("CHANGE", key, {path})
       /\ changes' = (IF fresh THEN {} ELSE changes) \cup {path}
    /\ iterationBuildStart' = FALSE
    /\ UNCHANGED <<locked, iterationReloadTriggered>>

\* Mutant of ChangeEvent: newIteration leaves the changes of the last iteration.
ChangeEventKeepsChanges(path) ==
    /\ ~locked
    /\ LET fresh == iterationBuildStart
           key   == IF fresh THEN iteration + 1 ELSE iteration IN
       /\ iteration' = key
       /\ Written("CHANGE", key, {path})
       /\ changes' = changes \cup {path}
       /\ iterationReloadTriggered' = (~fresh /\ iterationReloadTriggered)
    /\ iterationBuildStart' = FALSE
    /\ UNCHANGED locked

\* changeEvent: newIteration begins an iteration if a command began since the last one.
\* The change itself is written in the event, and added to i.changes after it.
ChangeEvent(path) ==
    /\ ~locked
    /\ LET fresh == iterationBuildStart
           key   == IF fresh THEN iteration + 1 ELSE iteration IN
       /\ iteration' = key
       /\ Written("CHANGE", key, {path})
       /\ changes' = (IF fresh THEN {} ELSE changes) \cup {path}
       /\ iterationReloadTriggered' = (~fresh /\ iterationReloadTriggered)
    /\ iterationBuildStart' = FALSE
    /\ UNCHANGED locked

\* Mutant of BuildEvent: the event is written in a type of its own.
BuildEventUntyped(type) ==
    /\ ~locked
    /\ iterationBuildStart' = TRUE
    /\ Written("BUILD", iteration, changes)
    /\ UNCHANGED <<locked, iteration, iterationReloadTriggered, changes>>

\* buildEvent: every command, before and after, marks that one began.
BuildEvent(type) ==
    /\ ~locked
    /\ iterationBuildStart' = TRUE
    /\ Written(type, iteration, changes)
    /\ UNCHANGED <<locked, iteration, iterationReloadTriggered, changes>>

\* reloadTriggeredEvent.
ReloadTriggeredEvent ==
    /\ ~locked
    /\ iterationReloadTriggered' = TRUE
    /\ Written("RELOAD_TRIGGERED", iteration, changes)
    /\ UNCHANGED <<locked, iteration, iterationBuildStart, changes>>

\* remoteEvent, posted by a page at any time.
RemoteEvent ==
    /\ ~locked
    /\ iterationReloadTriggered
    /\ Written("REMOTE_EVENT", iteration, {})
    /\ UNCHANGED <<locked, iteration, iterationBuildStart, iterationReloadTriggered, changes>>

\* The early return of remoteEvent leaves the lock held (profiler.go:293).
UnexpectedRemoteEvent ==
    /\ ~locked
    /\ ~iterationReloadTriggered
    /\ locked' = TRUE
    /\ UNCHANGED <<iteration, iterationBuildStart, iterationReloadTriggered, changes, file>>

(***************************************************************************)
(* Properties of the profile file.                                         *)
(***************************************************************************)

\* A remote event is written only after a reload of its own iteration (remoteEvent,
\* profiler.go:293): a page that posts late, when a change has begun the next iteration and
\* that is not yet reloaded, is not counted for it.
RemoteFollowsReload ==
    \A i \in 1..Len(file) : file[i].type = "REMOTE_EVENT" =>
        \E j \in 1..(i - 1) :
            file[j].type = "RELOAD_TRIGGERED" /\ file[j].iteration = file[i].iteration

\* README.md:234: `changes` is "a cumulative list of files changed during a build
\* iteration": a command or reload reports the changes of its own iteration, all of them
\* and no other.
ChangesAreCumulative ==
    \A i \in 1..Len(file) : file[i].type \in {"START", "RELOAD_TRIGGERED", "DONE", "FAILED"} =>
        file[i].changes = UNION {file[j].changes : j \in
            {k \in 1..(i - 1) : file[k].type = "CHANGE" /\ file[k].iteration = file[i].iteration}}

=============================================================================
