------------------------------ MODULE FSNotify ------------------------------
(***************************************************************************)
(* The two file watchers of ibazel, one for BUILD files and one for        *)
(* sources: realFSNotifyWatcher of fswatcher/fsnotify/fsnotify.go over the *)
(* fsnotify library (inotify on Linux).  A watcher watches directories.    *)
(* `watched` is what the wrapper remembers having watched; `kernel` is     *)
(* what the library really watches.  UpdateAll compares the wanted         *)
(* directories with `watched` only, so the two can differ: a failed Add is *)
(* still remembered, and a directory that goes away takes its kernel watch *)
(* with it without the wrapper being told.                                 *)
(***************************************************************************)
EXTENDS SourceTree, Sequences

CONSTANT AddMayFail  \* fsnotify's Add may fail (fs.inotify.max_user_watches)

ASSUME FSNotifyAssumption == AddMayFail \in BOOLEAN

Watchers == {"build", "source"}

\* An fsnotify event.  `modifying` is Op&modifyingEvents != 0: the event is a
\* Write, a Create, a Rename or a Remove, and not a Chmod alone.
Event == [name : Files, modifying : BOOLEAN]

VARIABLES
    watched,  \* per watcher: the directories UpdateAll remembers
    kernel,   \* per watcher: the directories the library watches
    events    \* per watcher: the events not yet received by the loop, in order

fsVars == <<watched, kernel, events>>

FSTypeOK ==
    /\ watched \in [Watchers -> SUBSET Dirs]
    /\ kernel \in [Watchers -> SUBSET Dirs]
    /\ events \in [Watchers -> Seq(Event)]

FSInit ==
    /\ watched = [w \in Watchers |-> {}]
    /\ kernel = [w \in Watchers |-> {}]
    /\ events = [w \in Watchers |-> <<>>]

\* A modifying event for f is in the queue q; in watcher w's.
InQueue(q, f) == \E i \in 1..Len(q) : q[i].name = f /\ q[i].modifying
Queued(w, f)  == InQueue(events[w], f)

(***************************************************************************)
(* The calls of the loop.                                                  *)
(***************************************************************************)

\* Mutant of UpdateAll: directories that stay wanted are not taken off the list of those
\* to Remove.
UpdateAllRemovesKept(w, names) ==
    \E failed \in IF AddMayFail THEN SUBSET (names \ watched[w]) ELSE {{}} :
        /\ kernel' = [kernel EXCEPT ![w] = (names \ watched[w]) \ failed]
        /\ watched' = [watched EXCEPT ![w] = names]

\* UpdateAll(names): Add what is new, leave what is remembered alone, Remove
\* what is no longer wanted.  A name is remembered whether or not its Add worked.
UpdateAll(w, names) ==
    \E failed \in IF AddMayFail THEN SUBSET (names \ watched[w]) ELSE {{}} :
        /\ kernel' = [kernel EXCEPT ![w] =
                         (@ \cap names) \cup ((names \ watched[w]) \ failed)]
        /\ watched' = [watched EXCEPT ![w] = names]

\* <-watcher.Events()
Receive(w) ==
    /\ events[w] # <<>>
    /\ events' = [events EXCEPT ![w] = Tail(@)]
    /\ UNCHANGED <<watched, kernel>>

(***************************************************************************)
(* The library: every watcher of a file's directory gets an event.         *)
(***************************************************************************)

Deliver(f, modifying) ==
    events' = [w \in Watchers |->
                  IF DirOf[f] \in kernel[w]
                  THEN Append(events[w], [name |-> f, modifying |-> modifying])
                  ELSE events[w]]

WriteFile(f)  == TreeWrite(f)  /\ Deliver(f, TRUE)  /\ UNCHANGED <<watched, kernel>>
TouchFile(f)  == TreeTouch(f)  /\ Deliver(f, FALSE) /\ UNCHANGED <<watched, kernel>>
RemoveFile(f) == TreeRemove(f) /\ Deliver(f, TRUE)  /\ UNCHANGED <<watched, kernel>>
CreateFile(f) == TreeCreate(f) /\ Deliver(f, TRUE)  /\ UNCHANGED <<watched, kernel>>

\* The kernel drops the watch of a directory that is deleted.  (The event for the
\* directory itself names no watched file and is filtered out by the loop.)
RemoveDir(d) ==
    /\ TreeRemoveDir(d)
    /\ kernel' = [w \in Watchers |-> kernel[w] \ {d}]
    /\ UNCHANGED <<watched, events>>

\* What the abstract Watcher sees of a watcher: whole directories, as files.
FilesIn(names) == {f \in Files : DirOf[f] \in names}
Pending(w) == {f \in Files : Queued(w, f)}
BuildWatcher ==
    INSTANCE Watcher WITH Restarts <- FALSE, wanted <- FilesIn(watched["build"]),
                          covered <- FilesIn(kernel["build"]), pending <- Pending("build")
SourceWatcher ==
    INSTANCE Watcher WITH Restarts <- FALSE, wanted <- FilesIn(watched["source"]),
                          covered <- FilesIn(kernel["source"]), pending <- Pending("source")

\* Each is a Watcher that does not restart (UpdateAll, fsnotify.go:51): it loses no event
\* and leaves what stays wanted covered; only the deletion of a directory uncovers a file
\* that stays wanted.
ImplementsWatcher == BuildWatcher!Spec /\ SourceWatcher!Spec

=============================================================================
