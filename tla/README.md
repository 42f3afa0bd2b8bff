# A verification of bazel-watcher

ibazel watches the files a Bazel target is made of and builds, tests or runs the
target again whenever one of them changes.  These TLA+ modules model its main
loop with the file watchers of both platforms below it, the control of the
subprocess of `ibazel run` and of the tree of processes it is, the protocol that
tells a running program of builds, and the listeners beside the loop: profiler, live
reload, hooks and output runner.  TLC checks them on small instances; TLAPS proves
every safety property that the runs find to hold, and both refinements, for all instances.

Paths below are relative to `src/internal/ibazel/` unless they say otherwise.

## 1. Inventory

### Components

| Component | State | Operations | Talks to |
|---|---|---|---|
| main loop, `ibazel.go` | `state`, `executionMode`, `pendingChanges`, `filesWatched`, `changeOwners` | `iteration()` in its six states, `prepareRun`, `queryForBuildFiles`, `watchFiles`, `run` | receives from the two watchers' channels; calls Bazel, the command and the lifecycle listeners |
| file watchers, `fswatcher/fsnotify`, `fswatcher/fsevents` | the directories remembered as watched; below them what the library watches and its queue | `UpdateAll`, `Events` | called by `watchFiles`; filled by the operating system at any time |
| subprocess control, `command/` | `c.pg`, `c.termSync`, `c.stdin` | `Start`, `NotifyOfChanges`, `Terminate`, `Kill`, `IsSubprocessRunning` | called by the loop and by goroutines of the signal handler, with no lock |
| signal handling, `ibazel.go:148` | `sigs` (room for one), `interruptCount` | `handleSignals` in a goroutine, which starts goroutines of its own | `command`, and `osExit` |
| notification protocol, `command/notify_command.go` | the subprocess's stdin | `NotifyOfChanges`, `writeBuildEvent` | the subprocess, `bep` |
| change ownership, `ibazel.go:529,689` | `changeOwners`, `directTargets`, `ownershipReady` | `sourceOwnersFromGraph`, `changeImpact` | the structured build events |
| label resolution, `ibazel.go:844`, `workspace/` | none | `labelsToWatchMap`, `realLocalRepositoryPaths`, `FindWorkspace` | `watchFiles` |
| profiler, `profiler/` | `iteration`, `changes`, two flags, `lock`, the file | the listener methods; `remoteEvent`, called by net/http goroutines | the loop, `live_reload`, browsers |
| live reload, `live_reload/` | `lrserver` | `AfterCommand` triggers a reload | browsers, the profiler |
| lifecycle hooks, `lifecycle_hooks/` | four flags | run a command before or after a command | the loop |
| output runner, `output_runner/` | a configuration of regular expressions | matches the output of a command and offers to run fixes | the loop, standard input |
| build event outputs, `bep/` | the named sets read, a stack | collects the files of output groups | `notify_command.go` |
| process groups, `process_group/` | the root process; on Windows a job object | `Start`, `Signal`, `Wait`, `Close` | `command/` |
| Bazel wrapper `src/internal/bazel`, command line `src/cmd/ibazel`, `log` | arguments | run Bazel; parse flags; print | everything |

`PROJECT.json` lists all of them with what is modelled and why the rest is not,
and the hazards: the places where this code can go wrong in a way a test would hardly
reach, each with the properties that would catch it or the reason why none does.

### What is hard

* *Files change at any time.*  The loop is sequential, but editors write while it
  queries, replaces its watches and builds.  Whether a change is lost depends on
  an event queue, a watch list that is replaced, a filter that judges old events
  by new lists, and the order of query, watch and build.
* *The watcher's memory.*  `UpdateAll` compares the wanted directories with what it
  asked for before, which is not always what the library watches.
* *Notification mode.*  The target starts before anything is watched; a catch-up
  build must close the gap and happen only once.
* *Unlocked sharing.*  `c.pg` and `c.termSync` are read and written by the main
  loop, by the signal handler and by its goroutines.
* *Time.*  A debounce timer, and a kill timer that may fire after the subprocess it
  is for was replaced.
* *A lock that is kept* in one early return of the profiler.
* *Answers that age.*  The owners of a file and the direct targets come from queries
  that are older than the change they explain.
* *Streams.*  On macOS every update replaces the event stream, with goroutines of older
  streams still about; the build event file may break off anywhere and its sets form a graph.
* *Half a start.*  Seven system calls start a job on Windows, and each may fail.

### What makes the components correct

* Loop: no change of a watched file is lost; the watch graph follows the BUILD
  files; a quiet loop means an up-to-date target; it always becomes quiet; a kept
  alive target hears of every change; the outcome of a command is reported.
* Subprocess: at most one alive, never lost sight of; what is asked to terminate
  dies; SIGTERM ends ibazel and leaves nothing behind; signals do not crash it.
* Process group: no process of the tree is ever outside it; terminating returns, and
  leaves nothing on Windows or after SIGKILL, and no root on Unix.
* File watchers: what is wanted is covered, and events of covered files arrive.
* Notification: a program that trusts the lists it is sent is up to date; outputs called
  complete are.
* Listeners: events carry the changes of their iteration; a remote event belongs to
  a reload; a command's events are bracketed and all listeners hear the same result;
  recording never blocks the loop.
* Output runner: each fix is offered once, with the right words, and runs only on its own yes.

## 2. Modules

    SourceTree <- FSNotify <- IBazel <- MCIBazel, IBazelProofs      (TLC, TLAPS)
                     |           ^----- Notify <- MCNotify, NotifyProofs
                     v
                  Watcher  <-- FSEvents <- MCFSEvents, FSEventsProofs
    Command        <- CommandProofs                                 (TLC, TLAPS)
    ProcessGroup   <- ProcessGroupProofs                            (TLC, TLAPS)
    Profiler <- Lifecycle <- MCLifecycle, LifecycleProofs           (TLC, TLAPS)
    BepOutputs     <- MCBepOutputs, BepOutputsProofs                (TLC, TLAPS)
    OutputRunner   <- MCOutputRunner, OutputRunnerProofs            (TLC, TLAPS)

`A <- B` means that B EXTENDS A; the arrows to Watcher are refinements (INSTANCE ... WITH).
NotifyProofs extends IBazelProofs too.
Each module has one action per handler or step.

**SourceTree** is the environment: the files of a workspace, their directories, and
`deps`, the graph of rules, in which a rule depends on rules and source files.  A rule is
declared in a BUILD file that loads .bzl files (`DeclaredIn`, `Loads`); `graph`, what the
two queries of the loop answer, is all the files of the rules the targets reach.  An edit
writes, touches, removes or creates a file, or removes an empty directory.  `version` counts
the changes of a file's contents.  The dependencies of a rule change in two ways only
(`DepsAfter`): with an edit of a file that declares it, or when a file in `Globs` of the rule
comes or goes.  That is a source its `glob()` finds, or a BUILD file that makes a package of a
directory the `glob()` looked into (`GlobAfter`).  This is all the model assumes of BUILD files.

**FSNotify** is `realFSNotifyWatcher` and the library below it, twice: the watcher of
BUILD files and that of sources.  `watched[w]` is `w.watched`, `kernel[w]` what the
library really watches, `events[w]` its queue.  `UpdateAll` keeps, adds and removes; an
`Add` may fail and is remembered all the same.  Removing a directory ends its watch in
the kernel only.  Every edit of a file delivers an event to the watchers of its
directory.

**Watcher** is what the loop may expect of a watcher, whichever library is below it: the
files wanted, those covered, and those with an event on its way.  An update in place keeps
what is covered and still wanted, and loses no event; one that `Restarts` covers nothing
between its Stop and its Start, and may lose events, but then covers all that is wanted.
`FSNotify` implements the first kind, twice; `FSEvents` the second.  Both
`ImplementsWatcher` properties say which state of theirs is which.

**FSEvents** is the watcher of macOS.  `UpdateAll` is its three statements: `StopStream`,
`NewStream` (with `findCommonRoots` and the `go w.MapEvents()`), `StartStream`.  There is
one stream and one goroutine per update.  A goroutine evaluates `w.es` when it runs
(`MapEvents`), takes a batch of events (`TakeBatch`) and hands them one by one to the loop
(`SendEvent`), which receives only outside `UpdateAll`.  A directory is a sequence of
names, because the stream watches trees; a batch is what the system sent, and a goroutine
drops from it what `newEvent`, which `OpOf` is, makes no event of.

**IBazel** is `iteration()`.  `state` is `i.state`, with PREPARE for `prepareRun`
and EXITED for `osExit(4)`.  QUERY and RUN take several steps, because files change
between them; `step` says how far they got.

| Code | Action |
|---|---|
| `prepareRun`, `setupRun` | `PrepareRun` |
| `queryRule` fails | `QueryRuleFails` |
| WAIT, the two cases of the select | `WaitSource`, `WaitBuild` |
| DEBOUNCE_RUN, DEBOUNCE_QUERY | `DebounceRunEvent`, `DebounceQueryEvent`, `DebounceTimeout` |
| QUERY: `queryForBuildFiles`, its two queries | `QueryTargets`, `QueryBuildFiles`, `QueryFails` |
| QUERY: `watchFiles` of the BUILD files, of the sources | `WatchBuildFiles`, `WatchSourceFiles` |
| RUN: up to the command, after it | `RunBegin`, `RunEnd` |
| `changeDetected` | `ChangeDetected`, in all four event actions |

The rest of IBazel's variables is history for the properties: the version of each file
the last command began with (`built`), or was last reported to the target (`told`);
the version of each BUILD file the last query read (`queried`), and those changed since
outside every watch (`missed`); the files that a `glob()` came to find or lost since that
query (`globbed`); and whether it failed.

A build is taken to read each file no earlier than `RunBegin`; that is the weakest
thing one can say of it.  One call of `watchFiles` is one step.  A change of a source
while it runs is not lost by the code, since RUN always comes after; a change of a BUILD
file then is covered by `missed`.

**Command** is `defaultCommand` and `notifyCommand`, `terminate()` of
`command.go`, and `handleSignals`.  A thread is the main loop or a Terminate goroutine,
and `pc` says which statement comes next: every statement that reads or writes `c.pg` or
`c.termSync` is a step.  `once` models `sync.Once` with its mutex: a thread that enters,
threads that block, and the fatal error of an unlock after `Start` replaced it.  `status`,
`started` and `waited` are the process: `exec.Cmd.Start` forks (`Launch`) and then sets
`Process` (`SetProcess`), and `ProcessState` is set by `Wait` only, which is why
`IsSubprocessRunning` is not "is alive".  A subprocess may ignore SIGTERM for ever,
never SIGKILL.  The process group is that of Unix, where `Start` is one `exec.Cmd.Start`; the
nil check and the use of `c.pg` in one condition are one step.

**ProcessGroup** is what `c.pg` stands for: a tree of processes that fork and exit while the
group is started, terminated and killed.  On Unix `StartUnix` is one step; on Windows
`Steps` lists the seven calls of `Start`, `StartStep` makes the next and `StartFails` fails
it.  The environment is the kernel: a child is in the group of its parent, and a job
object posts a message to its port when it becomes empty (`EmptiedBy`).  Nothing else is
assumed of the processes: a child may ignore SIGTERM or not, whatever its parent does, and one
that handles SIGTERM may still fork.  `Terminate`,
`KillTimer` and `WaitReturns` are `terminate()` with `Signal` and `Wait` of the platform.

**Notify** composes IBazel with the ownership of changes and with the program that reads
the build events.  Each loop action that touches owners is extended: `SetupRun` takes the
direct targets, `QueryDeps` keeps the answer of the `cquery`, `WatchSources` computes
the owners from it or keeps the old ones, and `BuildCompleted` sends the event, with
`ChangeImpact`.  The program has a workload per direct target.  `stale` says which are made
of old files; at a success the program updates those listed if the list is complete and all
otherwise, and remembers the lists of failed builds.  `lapsed` is history: a watch or a
query failed, a watched directory was deleted, a BUILD file changed where no watch saw it, a
`glob()` found or lost a file while the program ran, or the rule that runs came to have other
direct dependencies than it started with.

**Lifecycle** is `beforeCommand`, the command, and `afterCommand` with its four listeners in
the order of `New`: live reload, profiler, output runner, hooks.  **Profiler**, which it
extends, is the file of profile events.  A method that takes `i.lock` and releases it is
one step that needs the lock free; `UnexpectedRemoteEvent` is the return that keeps it.
A rebuild of `run` always counts as a success, as in the code.  `CommandEvent` writes nothing
for `coverage`, which the profiler's switches do not know.

**OutputRunner** is what happens to the output of one command.  `MatchRegex` goes through
the lines the scanner returns and the rules; `ConvertArgs` is the character loop of
`convertArgs`, with its three local variables; `PromptCommand` makes a reader per prompt.
`WorkspaceLost` is the end of ibazel when the workspace is not found.
What a regular expression captures of a line is given with the line.  `Expansion` says
recursively what a template means, and `FirstAsked` which places of the output ask for a
command that no earlier one does: the loops of the code are compared with these.

**BepOutputs** is `ReadOutputGroups` with the build that writes its file.  Events come in any
order and the stream ends or breaks anywhere; then `BeginGroup`, `VisitSet` and `EndGroup`
are the loop of `expandNamedSets` and `deduplicate`.  The order of the stack and of the groups
is free, being the order of Go's maps and of no consequence.

Operators whose comment begins "Mutant of" are no part of the models: each is a bug one
could write into the definition below it, and breaks the property `PROJECT.json` pairs it
with.

## 3. Runs

All runs say CHECK_DEADLOCK FALSE: ibazel rests when nobody edits a file or sends a
signal, and ends when it exits; the bounds end the rest.

### What holds

| Run | Properties | Bounds |
|---|---|---|
| `IBazel_safety` | `TypeOK`, `NoLostEdit`, `ConsumerTold`, `GraphFollowsEdits`, `QuietMeansFresh`, `ImplementsWatcher`, `EventuallyBuilt`, `ComesToRest` | two edits, of all kinds but a touch; `test` and `run`, all modes and faults |
| `Notify_consumer` | `NotifyTypeOK`, `ConsumerUpToDate` | two edits of every kind; four graphs of four rules; failing queries and builds |
| `FSEvents_delivery` | `TypeOK`, `RootsFit`, `EventsArrive`, `ImplementsWatcher` | two updates, three events, six sets of directories |
| `Command_safety` | `TypeOK`, `NothingLost`, `ExitLeavesNothing`, `OneServer` | two rebuilds, three signals, two goroutines, two subprocesses |
| `Command_live` | `SigtermExits`, `TerminatedDies` | two rebuilds, two signals, two goroutines |
| `ProcessGroup_tree` | `TypeOK`, `NoneEscapes`, `TerminatedIsGone`, `TerminateReturns` | three processes, both platforms |
| `Lifecycle_events` | `TypeOK`, `RemoteFollowsReload`, `ChangesAreCumulative`, `CommandsAreBracketed`, `ListenersAgree` | two files, ten events, four choices of hooks |
| `Output_runner` | `EveryCommandOnce`, `ArgumentsSubstituted`, `ConfirmedIsRun` | two lines, two rules, templates of four characters, two answers |
| `Bep_outputs` | `TypeOK`, `CompleteOutputs`, `FailsOnlyWhenItMust`, `WalkEnds` | two sets, three artifacts, three events |

`NoLostEdit`: the contents of a watched source were read by the last command, or an
event for it is queued, or a command will begin before the loop waits again.  It holds at
every step, with directories that vanish and Adds that fail, because the loop never
leaves QUERY but to RUN.  `ConsumerTold` says the same of a kept alive target, where
the list of changes is reset after each build: it holds because an event is recorded
before the build that will report it, and because a watch list is replaced only while a
"graph" change is pending.  `GraphFollowsEdits` is its twin for BUILD files, with the
exception the code makes true: what happened before the watch.  `QuietMeansFresh` is the
promise end to end: the loop waits, no event is on its way, no BUILD file was changed
unwatched, the query worked and all it found is watched; then the graph it knows is the one
there is, and all of it is built and watched.  It covers the edit between the two queries of
`queryForBuildFiles`, whose answers then do not belong together.  The exception is `globbed`: a
new file that a `glob()` finds is in no watch list, so its event is dropped and the graph stays
old until some BUILD file changes.  It is an exception for those files only: all others have to
be known, built and watched all the same.

`ConsumerUpToDate` is about owners that age.  They come from the last query, and the edit
that gives a file another owner is an edit of a BUILD file; the loop queries before the
build that follows it, and once that query fails (`lapsed`) nothing is promised.  A file that
a `glob()` comes to find gets its owner without such an edit: its event is dropped, the program
is not told, and that is `lapsed` too.  A failed
build sends its list too, and the program must remember it: dropping that event is the
mutant.

`ImplementsWatcher` is checked twice.  For fsnotify it says that replacing a watch list never
opens a gap in what stays wanted and never loses a queued event, which is what `NoLostEdit`
rests on.  For FSEvents it says the opposite is allowed only inside an update: on macOS a
change while `UpdateAll` runs is not seen.  Sources survive that, since RUN follows; a BUILD
file that changes while its query is being answered is lost there even if it was watched
before.

`EventsArrive` is about goroutines: one that starts late ranges over a newer stream than the
one it was started for, so that two may serve one stream and none an old one; what any of
them has taken is sent.  `TerminateReturns` needs the port to be associated before the root can
run: otherwise a root that ends at once leaves nobody to post the message.
`CommandsAreBracketed` and `ListenersAgree` look across listeners: START, reload and result
of one command are together in the profile, the result there is the one whose hook ran, and
a catch-up build that no change announces is no exception.  Of a `coverage` command there is
nothing in the profile; then the hook is that of the command's own result.

`TerminatedIsGone` promises the whole tree on Windows and whenever the kill timer fired, what
was forked meanwhile included; its mutant sends SIGKILL to the root alone.  When a Unix root
ends on the one SIGTERM, Wait returns and stops the timer: only the root is promised.

*Bounds of IBazel.*  The target `app` is built from `main` and declared beside it; as its
BUILD file changes it gains and loses the rule `helper`, which is declared in one directory
and built from a file of another; this gives files that are watched, not watched yet and no longer
watched, and directories shared and not shared.  In a third graph `app` has a `glob()` that
finds that file.  `build` and `coverage` are left out of the run: to the loop `coverage` is
`test`, and `build` is `test` without its query.  A touch, which has an event and changes
nothing, is in `Notify_consumer`.  Two edits are enough for a change during
any step followed by a second one, for removing and recreating a file, and for emptying
and removing a directory.

*Bounds of Command.*  A start and a restart with three signals reach every branch of
`handleSignals`, with two goroutines inside Terminate at once, in both modes, with failed
starts and a subprocess that ends by itself.  `NothingLost` and `ExitLeavesNothing` say
what holds up to the first restart, `OneServer` what holds up to the first signal: signals
and restarts together break each of them, as the list below says.

*Bounds of Notify.*  `app` serves `web` and `api`, declared in two BUILD files of which one
loads a macro file; `lib` is a source of either, both or none, directly or through a third rule,
and changes its owner with one edit, or by being found by a `glob()`.  A second edit is a change
of `lib` itself.

*Bounds of FSEvents.*  Two updates give an old and a new stream with their goroutines, late or
not; the sets of directories have a nested pair, two in one tree, two trees, the file system
root and none.

*Bounds of ProcessGroup.*  A root, a child and a grandchild: a parent may end before its
child, and a child may be forked after the SIGTERM.

*Bounds of Lifecycle.*  Ten events are three commands with reload, or a change, two commands
and a change that begins an iteration with posts of a page between; the hooks are all, some,
and unparsable before or after the command; all four commands are there.

*Bounds of OutputRunner.*  All templates of up to four of `$`, `1` and `x` have every transition
of the character loop; two lines and two rules give repeated commands, a line that both
rules match, a missing group, a bad expression and a line that is too long.

*Bounds of BepOutputs.*  Two sets can name each other, themselves, share files and miss; three
events report both and a group, in any order, or one of them twice.

### Fairness

`IBazel`: weak fairness of `LoopNext`, the loop as a whole.  It is one goroutine that Go
keeps running; a queued event or the timer ends each select, and a query and a command
end.  Nothing is assumed of the edits.  `Command`: weak fairness of the main loop inside
a command, of each goroutine, of each timer and of the signal handler; none of rebuilds,
of signals, or of the subprocess ending, so that `SigtermExits` is about the kill timer.
`Lifecycle`: weak fairness of the main loop's commands; pages
post or not.  `FSEvents`: weak fairness of the rest of an update, once it has begun, and of
each goroutine; none of the system's events.  `ProcessGroup`: a timer that is armed fires, Wait
returns when it can, and a process that does not ignore SIGTERM ends on it.  `BepOutputs`: the
walk goes on; Bazel's stream need not.  `OutputRunner`: it goes on.

### Where the code does not do what is said of it

| Run | What is said | What the code does |
|---|---|---|
| `IBazel_unwatched_build_file` | `README.md:93`: the catch-up build misses no change | a BUILD file edited between its query and its watch is missed, with all later changes of what it added |
| `Lifecycle_lock` | `profiler.go:294`: "Ignoring unexpected remote event" | the lock stays held, and the loop blocks at its next report |
| `Notify_new_target` | `README.md:103`: events include the direct targets that contain the change | a dependency added while the program runs is never listed, and the list is called complete |

Each run gives a counterexample to one property.  `EventListsAffected`, of the last, differs
from `ConsumerUpToDate`, which holds on an instance where the direct targets do not change.

Others can be read off the models or the code and have no run.

* A source missing while the watches are installed is not watched when it comes back
  (`ibazel.go:801`), where `src/cmd/ibazel/main.go:99` says "Whenever a source file changes".
* A file created where a `glob()` finds it is a source with no BUILD edit; nothing is watching
  for it, its event is dropped (`ibazel.go:311`), and it is neither built nor watched until a
  BUILD file changes.  `QuietMeansFresh` without `globbed` fails on that.  One that is deleted
  before a query is forgotten by it, and not watched when it comes back.
* A directory that is removed and created again is not watched (`fswatcher/fsnotify/fsnotify.go:60`).
* A goroutine of handleSignals that is late to set `c.pg` to nil makes the loop forget the
  subprocess it started meanwhile, and a second one runs beside it
  (`command/default_command.go:55`).
* A subprocess that ended by itself counts as running (`command/command.go:104`), where
  `notify_command_test.go:214` expects a start.
* One SIGINT during a start can crash ibazel (`command/default_command.go:83`), where
  `README.md:372` says it has to be sent twice.
* A failing watch query is logged and ibazel goes on (`ibazel.go:338`), where `README.md:373`
  has it exit.
* A failed rebuild of `ibazel run` is reported to the listeners as a success
  (`ibazel.go:525`), so `--run_command_after_success` runs.
* The third SIGINT exits with 1 (`ibazel.go:163`), where `README.md:375` says 3.
* An exit on SIGTERM leaves a subprocess behind that the loop has started meanwhile
  (`ibazel.go:179`).  A signal between the fork and the return of `exec.Cmd.Start`
  (`command/default_command.go:78`) finds no subprocess running (`command/command.go:101`):
  ibazel ends at once (`ibazel.go:152`), and the child lives, in the first start too.
* A `coverage` command is in no event of the profile (`profiler/profiler.go:143` and `:158`).
* On Unix a process of the tree outlives `terminate()` when it ignores SIGTERM, or was forked
  after it, and the root ends in time (`process_group/process_group_unix.go:44`), where
  `process_group/process_group.go:15` says "an entire tree of processes in one go".
* `$1$2` in a fix command is not two groups (`output_runner/output_runner.go:209`), lines after
  one of 64 KiB are not matched (`:157`), and piped answers are lost after the first (`:229`).
* When Start fails at `assignProcessToJobObject` on Windows, terminating it waits for ever
  (`process_group/process_group_windows.go:80`).

## 4. Proofs

The proofs are for any values of the constants: any files, directories, graphs, processes,
goroutines, sets, and any number of edits, signals and events.

| Module | Theorems, and the properties they are named for |
|---|---|
| `IBazelProofs` | `TypeCorrect`, `NoLostEditHolds`, `ConsumerToldHolds`, `GraphFollowsEditsHolds`, `QuietMeansFreshHolds`, `ImplementsWatcherHolds` |
| `NotifyProofs` | `NotifyTypeCorrect`, `ConsumerUpToDateHolds` |
| `FSEventsProofs` | `TypeCorrect`, `RootsFitHolds`, `ImplementsWatcherHolds` |
| `CommandProofs` | `TypeCorrect`, `InvHolds` (the inductive invariant), `NothingLostHolds`, `ExitLeavesNothingHolds`, `OneServerHolds` |
| `ProcessGroupProofs` | `TypeCorrect`, `NoneEscapesHolds`, `TerminatedIsGoneHolds` |
| `LifecycleProofs` | `TypeCorrect`, `RemoteFollowsReloadHolds`, `ChangesAreCumulativeHolds`, `CommandsAreBracketedHolds`, `ListenersAgreeHolds` |
| `BepOutputsProofs` | `TypeCorrect`, `OutputsAreComplete`, `FailuresAreReal` |
| `OutputRunnerProofs` | `EveryCommandOnceHolds`, `ConfirmedIsRunHolds`, `ArgumentsSubstitutedHolds` |

The assumptions are those the modules name on their constants (`SourceTreeAssumption`,
`FSNotifyAssumption`, `IBazelAssumption`, `CommandAssumption`, `ProcessGroupAssumption`,
`ProfilerAssumption`, `LifecycleAssumption`, `BepAssumption`, `NotifyAssumption`,
`FSEventsAssumption`, `OutputRunnerAssumption`): source and BUILD files differ, every file has
a directory, every rule a BUILD file, the bounds are numbers, and the like.  Two say more:
`NotifyAssumption` that a label is no path and that what a BUILD file loads declares no rules
itself, which is so for `.bzl` files; and `FSEventsAssumption` that the directories of one
update are finitely many.  `ConfirmedIsRunHolds` has the hypothesis MaxChunk = 1, a read that
returns one line, as a terminal gives it.  None is on fairness.

### The loop and its watchers

*Queues.*  `InQueueAppend` and `InQueueTail` say what Append and Tail do to "an event
for f is queued", `DeliverQueues` and `ReceiveQueues` lift that to the two watchers, and
`EditStep`, `WatchFilesStep` and `TakeEventStep` say once what an edit, a replacement of
a watch list and the receipt of an event can disturb.

*NoLostEdit* is inductive with `TypeOK` and `StepOK`, which says that the steps inside
QUERY and RUN happen there: otherwise the loop might wait in the middle of a command and
take an event of a change the command had missed.

*ConsumerTold* is not inductive.  `Told` strengthens it: while NotifyOfChanges runs,
`pendingChanges` no longer counts, since it is about to be reset.  `QueryForGraph` adds
that a query in notification mode happens with a graph change pending, which accounts for
every file: when new watches appear, nothing is known of the files they cover.

*GraphFollowsEdits* is not inductive either.  `GraphInv` adds that between the answers
of the queries and the watches nothing is forgotten of *any* BUILD file, watched or not:
the watch that comes may be one for it.

*QuietMeansFresh* rests on the three others and on `FreshInv`.  `GraphKnown` says what the loop
knows: the graph of some time since the query, up to what a `glob()` found or lost, unless a
BUILD file *of that graph* was edited since.  That the file to blame is in the answer, and so is
watched, is `GraphsAgree`: two graphs whose rules differ only where some file was edited, and by
a set of sources (`SameBut`), have the same files but for those sources, or both have such a
file.  `GlobsFindSources` says that `globbed` is such a set: a `glob()` brings no rules.  It is
proved from `ReachedIsLeast`: the rules reached in one graph from the targets, as long as none
of them was edited, are closed in the other.  This is where the two queries that do not belong
together are harmless.  `ReadInOrder` adds that the build after a query reads no BUILD file
earlier than the query did.

*ImplementsWatcher* maps the two watchers separately: every step of the loop or of an editor
stutters, updates, changes a file, delivers an event or lets a directory lapse for each of
them (`WatcherStep`).  The mapping needs only `TypeOK` as an invariant; what takes care is a
receipt, which ends the wait for a file only if no other event of it is queued.

### The program that is told

Every step of Notify is one of IBazel (`LoopSteps`), so what is proved of the loop holds
here too.  `NotifyInv` has eight parts, which follow an edit to the workload.  `AnswerInv`: the
loop means to watch the files of the graph that gave the owners, except BUILD files that
were edited between the two queries.  `WatchInv`: it watches them.  `EditsInv`: before a query an
edit since the last is queued, or in the list of the next build.  `CoverInv`, the heart: a
stale workload is already due, or all are, or a file *the loop knows to be that target's* has an
event on its way, a place in the list, or a query before it.  `OwnersInv` then puts the target in
the list.  An edit that gives the file another owner works because the target's BUILD file is
such a file, in the old graph and in the new (`TargetsAgree`, the twin of `GraphsAgree` for
one direct target); `KnownTarget` and `AffectedIsCovered` draw the conclusion.

An edit that changes the dependencies of a rule it does not declare sets `lapsed`, once the
program runs; before that the query to come reads the graph as it then is.

Attempting this proof changed the property.  TLC had missed two ways in which a workload stays
old, for want of edits: a watched directory that is deleted and comes back, and a direct
dependency that is added; both now count as `lapsed`, and both are in the list of
disagreements above.

### The watcher of macOS

`findCommonRoots` is a fold over the directories of a tree.  `FoldExists` and
`RootLengthRecursion` say that the fold of the library is what its recursion says; `RootLengthIs`
that the result is the longest prefix the directories share, whatever the order; `TreeRoot`
and `CommonRootsFit` that there is one root to a tree.  `UpdateInv` says that nothing runs
between `Stop` and `Start`.  With it every statement of `UpdateAll`, every step of a goroutine and
every event of the system is a step of `Watcher` or a stutter (`WatcherStep`): what takes care is
`SendEvent`, after which the file may have other events in any queue or batch.

### The fixes that are offered

`EveryCommandOnce`: after the first i pairs of a line and a rule the commands found are
those first asked for among them, in order, and every text asked for is found (`Orders`,
`Answered`); `NewCommand` and `NoCommand` are the two cases of a pair.  `ArgumentsSubstituted`:
`Along` is the invariant of convertArgs' loop, that what is written, followed by the meaning
of the rest of the template, is the meaning of the whole; inside a reference the rest begins
at its `$`, and `index` is the number read since (`InReference`).  The step at a second `$` is the
only one that needs `Separated`.  `ConfirmedIsRun`: after k answers the input is what was typed
without the first k (`Confirmed`).

### Induction over data

The library's induction theorems take the induction hypothesis as an operator, which the
provers here cannot instantiate.  A *set* of numbers can stand for it: `LeastNatural` gets the least
number principle from the library's `NatLessThanWellFounded` and `WFMin`, which take sets, and
`NaturalsIn` induction from that.  The folds and the recursive functions of FSEvents and
OutputRunner are proved with it.

### The subprocess

`Inv` is `TypeOK` with three parts.  `FirstRun` accounts for everything up to the first
restart: no signal is acted upon before the first `Start` is over, and an exit by signal leaves
nothing that was started.  `Tracked` says that what is live is what is tracked, and what a thread
inside Terminate waits for is that, up to the restart or as long as no signal came.
`NoSignals` says that without a signal nobody but the main loop acts.  `WaitsForProcess`, that a
thread at `pg.Wait()` has a process to wait for, is needed for types and proved first.
The three properties need one induction together, since Terminate by a goroutine is
harmless only because of what the main loop cannot have started yet.

### The process tree

`StartInv` ties `pc` to the number of steps of Start that succeeded, `JobInv` says that until
the root is in the job it is the only process, and that then all are in it, `ZeroInv` that the
message of an empty job comes only when nobody of the job is left, `KilledInv` that nobody is
left after the SIGKILL of a Unix group, since a process that was forked before it was in the
group and none is after it, and `GoneInv` that whoever returned from Wait has seen that.  The
order of `Steps` enters through the lemma `HasSteps` only.

### The listeners

`RemoteInv` adds to the property what the flag `iterationReloadTriggered` remembers: there is a
reload of the present iteration in the file.  `ChangesInv` adds that `changes` is the union of
the CHANGE events of the present iteration and that no event has a later iteration.  Both are
about a growing sequence; `WrittenStep` says once what an Append leaves alone.
`BracketInv` says what the file ends in at each place of the loop, and that every START or CHANGE
was written when the command before was over.  `HooksInv` says which hooks have run at each place,
and that from the moment the result is written the last result in the file is this command's.
`Unreported` is the other case: a command that is not `Profiled` leaves no report at all.

### The build events

`Walk` is the loop invariant of `expandNamedSets`: roots are visited or on the stack, those
visited name only such sets, and nothing is there that is not in every closed set.  With an
empty stack that makes the visited sets the least closed set, `SetsOf` (`WalkDone`).  When a
set is missing it lies in every closed set (`FailsOnlyWhenItMust`).

### Only model-checked

The temporal properties that need fairness, which is outside the prover: `EventuallyBuilt`,
`ComesToRest`, `SigtermExits`, `TerminatedDies`, `TerminateReturns`, `WalkEnds` and
`EventsArrive`.

## 5. Not modelled

* What happens inside fsnotify's `UpdateAll` and `watchFiles` between their calls.
* The limits of the library's queue, and its errors.  The queue is unbounded here.
* Symbolic links: `EvalSymlinks` only says whether a file is there.  With them, labels and
  their paths (`labelsToWatchMap`, `parseTarget`, `realLocalRepositoryPaths`): what is left
  without the strings is a map from labels to files, which IBazel and Notify start from.
* A target that is no rule, the arguments of Bazel and its output, the classification of
  ibazel's own arguments: text in, text out, with no state and no order of events.
* A process that leaves its process group, and a Windows group below Command.
* A write to the program's stdin that fails or blocks.
* The loop above FSEvents: IBazel is composed with fsnotify only.
* The time a hook, a fix or a prompt takes: the loop waits for it, and events queue.
* An editor that never stops: the runs bound the edits, so liveness is about what
  happens after the last.
* Test harness, example client, generated code, release scripts.

## 6. Plan

The main loop came first, being what all the rest is for; then the subprocess, whose
races are the hardest to test; then the watchers' abstract specification, the notification
protocol with its owners and outputs, the process trees, and the other listeners.  To come:

1. IBazel above any `Watcher`, in place of FSNotify: what the loop still promises when an
   update may lose events.
2. An abstract specification of ibazel, in which edits happen and a build catches up, with
   IBazel refining it under the conditions of `QuietMeansFresh`.
3. `Labels`: the pure part of label resolution, with the order in which repository mappings
   are applied.

Theorems worth proving next are the safety half of the second point, as a refinement, and the
loop's promises above any `Watcher`.
