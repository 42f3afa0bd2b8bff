------------------------------- MODULE FSEvents -------------------------------
(***************************************************************************)
(* The file watcher of macOS (fswatcher/fsevents/fsevents.go).  UpdateAll  *)
(* replaces the event stream: it stops the old one, makes a new one, gives *)
(* it a goroutine running MapEvents and starts it.  FSEvents watches trees *)
(* rather than directories, so the wanted directories are first collapsed  *)
(* to few roots.  The goroutine takes batches of events from "its" stream  *)
(* - the one w.es is when the goroutine gets to run - and hands them one   *)
(* by one to the loop, through a channel without a buffer.                 *)
(*                                                                         *)
(* The loop receives while it waits and is deaf while it updates.  A       *)
(* directory is the sequence of the names of its path.                     *)
(***************************************************************************)
EXTENDS Integers, Sequences, SequencesExt, FiniteSetsExt

CONSTANTS
    Names,       \* the names a path is made of
    Files,       \* the files
    DirOf,       \* the directory each is in
    WantedSets,  \* the sets of directories UpdateAll is given
    FlagSets,    \* the flags of an event
    MaxUpdates,  \* bound on the calls of UpdateAll
    MaxChanges   \* bound on the events of the system

\* UpdateAll is given a slice, which is finite.
ASSUME FSEventsAssumption ==
    /\ DirOf \in [Files -> Seq(Names)]
    /\ \A dirs \in WantedSets : IsFiniteSet(dirs) /\ dirs \subseteq Seq(Names)
    /\ MaxUpdates \in Nat /\ MaxChanges \in Nat

Streams == 0..MaxUpdates   \* the n-th UpdateAll makes stream n and goroutine n
Event == [file : Files, flags : FlagSets]

VARIABLES
    es,        \* w.es
    paths,     \* per stream: its Paths
    running,   \* the stream that is started and not stopped, or none
    queue,     \* per stream: the events the library holds for it
    starting,  \* the goroutines spawned and not yet run
    reads,     \* per goroutine: the stream it ranges over, if it does
    batch,     \* per goroutine: the events it has taken and not yet sent
    loop,      \* the loop: waits, or how far it is in UpdateAll
    names,     \* UpdateAll's argument
    happened   \* the events so far, for MaxChanges

vars == <<es, paths, running, queue, starting, reads, batch, loop, names, happened>>

TypeOK ==
    /\ es \in Streams
    /\ paths \in [Streams -> SUBSET Seq(Names)]
    /\ running \in {{}, {es}}
    /\ queue \in [Streams -> Seq(Event)]
    /\ starting \subseteq Streams
    /\ reads \in [Streams -> SUBSET Streams]
    /\ batch \in [Streams -> Seq(Event)]
    /\ loop \in {"wait", "stopped", "made"}
    /\ names \in WantedSets \cup {{}}
    /\ happened \in 0..MaxChanges

\* NewWatcher: a stream that is never started and has no goroutine.
Init ==
    /\ es = 0
    /\ paths = [s \in Streams |-> {}]
    /\ running = {}
    /\ queue = [s \in Streams |-> <<>>]
    /\ starting = {}
    /\ reads = [g \in Streams |-> {}]
    /\ batch = [g \in Streams |-> <<>>]
    /\ loop = "wait"
    /\ names = {}
    /\ happened = 0

(***************************************************************************)
(* findCommonRoots.                                                        *)
(***************************************************************************)

\* The first k names of a are those of b.
Share(a, b, k) == k <= Len(b) /\ \A i \in 1..k : a[i] = b[i]

\* How many of the first n names a and b share.
CommonLength(a, b, n) == Max({k \in 0..n : Share(a, b, k)})

\* rootLength: what is left of the length of first after the directories of its tree.
RootLength(directories, first) ==
    FoldSet(LAMBDA d, n : CommonLength(first, d, n), Len(first), directories)

\* The common root of a tree, counted along its first directory.
RootOf(directories, first) == SubSeq(first, 1, RootLength(directories, first))

\* Mutant of FindCommonRoots: the root of a tree is its first directory.
FindCommonRootsFirst(dirs) ==
    IF <<>> \in dirs THEN {<<>>}
    ELSE {CHOOSE f \in dirs : Head(f) = top : top \in {Head(d) : d \in dirs}}

\* The directories of one top-level tree (directoriesByRoot).
Tree(dirs, top) == {d \in dirs : Head(d) = top}

\* One root per top-level tree.  Which directory of a tree comes first makes no difference.
FindCommonRoots(dirs) ==
    IF <<>> \in dirs THEN {<<>>}
    ELSE {RootOf(Tree(dirs, top), CHOOSE f \in Tree(dirs, top) : TRUE)
            : top \in {Head(d) : d \in dirs}}

(***************************************************************************)
(* newEvent.                                                               *)
(***************************************************************************)

OpOf(flags) ==
    (IF "ItemRemoved" \in flags THEN {"Remove"} ELSE {})
    \cup (IF "ItemCreated" \in flags THEN {"Create"} ELSE {})
    \cup (IF "ItemRenamed" \in flags THEN {"Rename"} ELSE {})
    \cup (IF flags \cap {"ItemModified", "ItemInodeMetaMod"} # {} THEN {"Write"} ELSE {})
    \cup (IF flags \cap {"ItemChangeOwner", "ItemXattrMod"} # {} THEN {"Chmod"} ELSE {})

\* newEvent's second result: events of directories and links are dropped.
IsFile(e) == "ItemIsFile" \in e.flags

\* An event the loop acts on (ibazel.go:304).
Modifying(e) == IsFile(e) /\ OpOf(e.flags) \ {"Chmod"} # {}

(***************************************************************************)
(* UpdateAll, step by step.                                                *)
(***************************************************************************)

\* Mutant of StopStream: the old stream goes on until the new one starts.
StopStreamGoesOn(dirs) ==
    /\ loop = "wait" /\ es < MaxUpdates
    /\ loop' = "stopped"
    /\ names' = dirs
    /\ UNCHANGED <<es, paths, running, queue, starting, reads, batch, happened>>

\* w.es.Stop(): what the library has not handed over may be lost.
StopStream(dirs) ==
    /\ loop = "wait" /\ es < MaxUpdates
    /\ running' = {}
    /\ queue' \in {queue, [queue EXCEPT ![es] = <<>>]}
    /\ loop' = "stopped"
    /\ names' = dirs
    /\ UNCHANGED <<es, paths, starting, reads, batch, happened>>

\* w.es = es; go w.MapEvents()
NewStream ==
    /\ loop = "stopped"
    /\ es' = es + 1
    /\ paths' = [paths EXCEPT ![es + 1] = FindCommonRoots(names)]
    /\ starting' = starting \cup {es + 1}
    /\ loop' = "made"
    /\ UNCHANGED <<running, queue, reads, batch, names, happened>>

StartStream ==
    /\ loop = "made"
    /\ running' = {es}
    /\ loop' = "wait"
    /\ UNCHANGED <<es, paths, queue, starting, reads, batch, names, happened>>

(***************************************************************************)
(* MapEvents, in goroutine g.                                              *)
(***************************************************************************)

\* Mutant of MapEvents: the goroutine ranges over the stream before.
MapEventsPrevious(g) ==
    /\ g \in starting
    /\ starting' = starting \ {g}
    /\ reads' = [reads EXCEPT ![g] = {es - 1}]
    /\ UNCHANGED <<es, paths, running, queue, batch, loop, names, happened>>

\* `range s.es.Events` evaluates s.es now.
MapEvents(g) ==
    /\ g \in starting
    /\ starting' = starting \ {g}
    /\ reads' = [reads EXCEPT ![g] = {es}]
    /\ UNCHANGED <<es, paths, running, queue, batch, loop, names, happened>>

\* A batch is received.
TakeBatch(g) ==
    /\ batch[g] = <<>>
    /\ \E s \in reads[g] :
        /\ queue[s] # <<>>
        /\ batch' = [batch EXCEPT ![g] = queue[s]]
        /\ queue' = [queue EXCEPT ![s] = <<>>]
    /\ UNCHANGED <<es, paths, running, starting, reads, loop, names, happened>>

\* s.evs <- evt meets the loop's <-watcher.Events(); what newEvent rejects is not sent.
SendEvent(g) ==
    /\ batch[g] # <<>>
    /\ IsFile(Head(batch[g])) => loop = "wait"
    /\ batch' = [batch EXCEPT ![g] = Tail(@)]
    /\ UNCHANGED <<es, paths, running, queue, starting, reads, loop, names, happened>>

(***************************************************************************)
(* The system.                                                             *)
(***************************************************************************)

Covers(s, f) == \E root \in paths[s] : IsPrefix(root, DirOf[f])

SystemEvent(f, flags) ==
    /\ happened < MaxChanges
    /\ happened' = happened + 1
    /\ queue' = [s \in Streams |-> IF s \in running /\ Covers(s, f)
                                   THEN Append(queue[s], [file |-> f, flags |-> flags])
                                   ELSE queue[s]]
    /\ UNCHANGED <<es, paths, running, starting, reads, batch, loop, names>>

Mapper(g) == MapEvents(g) \/ TakeBatch(g) \/ SendEvent(g)

Next ==
    \/ \E dirs \in WantedSets : StopStream(dirs)
    \/ NewStream \/ StartStream
    \/ \E g \in Streams : Mapper(g)
    \/ \E f \in Files, flags \in FlagSets : SystemEvent(f, flags)

\* Goroutines are scheduled, UpdateAll returns, and the loop comes back to receive.
Spec == Init /\ [][Next]_vars /\ WF_vars(NewStream \/ StartStream)
             /\ \A g \in Streams : WF_vars(Mapper(g))

(***************************************************************************)
(* Properties.                                                             *)
(***************************************************************************)

Held(q, f) == \E i \in 1..Len(q) : q[i].file = f /\ Modifying(q[i])

\* Every directory is below a root, there is one root for each top-level tree, and none
\* could be deeper.
Fit(roots, dirs) ==
    /\ \A d \in dirs : \E r \in roots : IsPrefix(r, d)
    /\ \A r, q \in roots : r # q => Head(r) # Head(q)
    /\ \A r \in roots : ~\E c \in {Append(r, n) : n \in Names} :
           \A d \in {e \in dirs : IsPrefix(r, e)} : IsPrefix(c, d)

\* fsevents.go:103: "Collapse each top-level tree independently without requiring every
\* path to share one root": the roots of the stream fit what is wanted.
RootsFit == loop # "stopped" /\ es > 0 => Fit(paths[es], names)

\* A running stream holds a modifying event for f, or a goroutine has taken one.
Awaited(f) == \/ \E s \in running : Held(queue[s], f)
              \/ \E g \in Streams : Held(batch[g], f)

\* What a running stream holds, or a goroutine has taken, also from a stream stopped since,
\* reaches the loop, unless an update stops the stream first (MapEvents, fsevents.go:64).
EventsArrive == \A f \in Files : Awaited(f) ~> ~Awaited(f)

\* What the abstract Watcher sees: the files below the roots of the running stream.
AsWatcher ==
    INSTANCE Watcher WITH
        Restarts <- TRUE,
        wanted <- {f \in Files : DirOf[f] \in names},
        covered <- {f \in Files : \E s \in running : Covers(s, f)},
        pending <- {f \in Files : \E s \in Streams : Held(queue[s], f) \/ Held(batch[s], f)}

\* The watcher is a Watcher that restarts (UpdateAll, fsevents.go:46): it covers every
\* wanted file once it is started and loses events only when an update stops it.
ImplementsWatcher == AsWatcher!Spec

=============================================================================
