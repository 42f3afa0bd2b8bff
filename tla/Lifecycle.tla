------------------------------ MODULE Lifecycle ------------------------------
(***************************************************************************)
(* The listeners of the main loop (internal/ibazel/lifecycle.go) in the    *)
(* order New registers them: the live reload server, the profiler, the     *)
(* output runner and the lifecycle hooks.  Every listener is called by the *)
(* loop itself, one after another, so a command, its reload, its events    *)
(* and its hooks follow each other; pages post their remote events at any  *)
(* time in between.  What the output runner does with the output is in     *)
(* OutputRunner; it holds the loop and touches no other listener.          *)
(***************************************************************************)
EXTENDS Profiler

CONSTANTS
    Commands,     \* the ibazel commands considered: a subset of CommandNames
    HookChoices   \* what the four --run_command_* flags may be: functions from HookNames

CommandNames == {"build", "test", "coverage", "run"}
\* The commands for which the profiler's BeforeCommand and AfterCommand have an event.
Profiled == {"build", "test", "run"}

HookNames == {"before", "after", "after_success", "after_error"}
\* A flag is empty, a command, or text that shellwords cannot parse.
HookFlags == {"empty", "command", "unparsable"}

ASSUME LifecycleAssumption ==
    /\ Commands \subseteq CommandNames
    /\ HookChoices \subseteq [HookNames -> HookFlags]

VARIABLES
    hooks,          \* the flags
    liveReload,     \* LiveReloadServer.lrserver # nil
    command,        \* iteration's commandName
    executionMode,  \* IBazel.executionMode
    loop,           \* what the loop calls next
    success,        \* afterCommand's success
    ran             \* the hooks run since the last beforeCommand, in order

lifecycleVars == <<hooks, liveReload, command, executionMode, loop, success, ran>>
vars == <<profilerVars, lifecycleVars>>

TypeOK ==
    /\ ProfilerTypeOK
    /\ hooks \in HookChoices
    /\ liveReload \in BOOLEAN
    /\ command \in Commands
    /\ executionMode \in {"default", "defaultStartup", "notificationStartup", "notification"}
    /\ loop \in {"prepare", "before", "hookBefore", "command", "reload", "after",
                 "hookAfter", "hookResult", "wait", "exited"}
    /\ success \in BOOLEAN
    /\ ran \in Seq(HookNames)

Init ==
    /\ ProfilerInit
    /\ hooks \in HookChoices
    /\ liveReload = FALSE
    /\ command \in Commands
    /\ executionMode = "default"
    /\ loop = IF command = "run" THEN "prepare" ELSE "before"
    /\ success = FALSE
    /\ ran = <<>>

\* setupRun: the rule's tags, the flag --nolive_reload and the ports decide whether there is
\* a live reload server; the tags decide the mode.
TargetDecider(mode) ==
    /\ loop = "prepare"
    /\ liveReload' \in BOOLEAN
    /\ executionMode' = mode
    /\ loop' = "before"
    /\ UNCHANGED <<profilerVars, hooks, command, success, ran>>

\* WAIT and the debounces: a change is reported; more may follow before the command.
ChangeDetected(path) ==
    /\ loop = "wait"
    /\ ChangeEvent(path)
    /\ loop' \in {"wait", "before"}
    /\ UNCHANGED <<hooks, liveReload, command, executionMode, success, ran>>

\* An event of a command, if the profiler has one for it.
CommandEvent(type) ==
    IF command \in Profiled THEN BuildEvent(type) ELSE UNCHANGED profilerVars

BeforeCommand ==
    /\ loop = "before"
    /\ CommandEvent("START")
    /\ loop' = "hookBefore"
    /\ ran' = <<>>
    /\ UNCHANGED <<hooks, liveReload, command, executionMode, success>>

\* parseAndExecuteCommand: what fails to parse is log.Fatalf, exit(1).  The command itself
\* may fail; that is only logged.
Hook(name, next) ==
    /\ ran' = IF hooks[name] = "command" THEN Append(ran, name) ELSE ran
    /\ loop' = IF hooks[name] = "unparsable" THEN "exited" ELSE next
    /\ UNCHANGED <<profilerVars, hooks, liveReload, command, executionMode, success>>

HookBefore == loop = "hookBefore" /\ Hook("before", "command")

\* A rebuild of `run`: NotifyOfChanges returns no error, and run() returns nil.
Rebuilds == command = "run" /\ executionMode \in {"default", "notification"}

\* commandToRun ends with outcome o.
CommandToRun(o) ==
    /\ loop = "command"
    /\ success' = (o \/ Rebuilds)
    /\ executionMode' = IF executionMode = "defaultStartup" /\ o
                        THEN "default" ELSE executionMode
    /\ loop' = "reload"
    /\ UNCHANGED <<profilerVars, hooks, liveReload, command, ran>>

\* Mutant of TriggerReload: only a success is reloaded.
TriggerReloadOnSuccess ==
    /\ loop = "reload"
    /\ IF liveReload /\ success THEN ReloadTriggeredEvent ELSE UNCHANGED profilerVars
    /\ loop' = "after"
    /\ UNCHANGED <<hooks, liveReload, command, executionMode, success, ran>>

\* triggerReload, whatever the result.
TriggerReload ==
    /\ loop = "reload"
    /\ IF liveReload THEN ReloadTriggeredEvent ELSE UNCHANGED profilerVars
    /\ loop' = "after"
    /\ UNCHANGED <<hooks, liveReload, command, executionMode, success, ran>>

\* Mutant of AfterCommand: the event does not look at the result.
AfterCommandDone ==
    /\ loop = "after"
    /\ CommandEvent("DONE")
    /\ loop' = "hookAfter"
    /\ UNCHANGED <<hooks, liveReload, command, executionMode, success, ran>>

\* The profiler's afterCommand.
AfterCommand ==
    /\ loop = "after"
    /\ CommandEvent(IF success THEN "DONE" ELSE "FAILED")
    /\ loop' = "hookAfter"
    /\ UNCHANGED <<hooks, liveReload, command, executionMode, success, ran>>

HookAfter == loop = "hookAfter" /\ Hook("after", "hookResult")

\* The last listener, and iteration()'s switch: a notification start is followed by a
\* catch-up build that no change announces.
HookResult ==
    /\ loop = "hookResult"
    /\ LET name == IF success THEN "after_success" ELSE "after_error" IN
       /\ ran' = IF hooks[name] = "command" THEN Append(ran, name) ELSE ran
       /\ IF hooks[name] = "unparsable"
          THEN loop' = "exited" /\ UNCHANGED executionMode
          ELSE IF executionMode = "notificationStartup"
               THEN loop' = "before" /\ executionMode' = "notification"
               ELSE loop' = "wait" /\ UNCHANGED executionMode
    /\ UNCHANGED <<profilerVars, hooks, liveReload, command, success>>

\* profilerEventHandler, while the program runs.
PagePosts ==
    /\ loop # "exited"
    /\ RemoteEvent \/ UnexpectedRemoteEvent
    /\ UNCHANGED lifecycleVars

\* A command the loop is about to run, is running or has run, with its listeners.
CommandStep ==
    \/ \E mode \in {"defaultStartup", "notificationStartup"} : TargetDecider(mode)
    \/ BeforeCommand \/ HookBefore
    \/ \E o \in BOOLEAN : CommandToRun(o)
    \/ TriggerReload \/ AfterCommand \/ HookAfter \/ HookResult

Next ==
    \/ CommandStep
    \/ \E p \in Paths : ChangeDetected(p)
    \/ PagePosts

\* Commands and hooks end, and the loop goes on.
Spec == Init /\ [][Next]_vars /\ WF_vars(CommandStep)

(***************************************************************************)
(* Properties.                                                             *)
(***************************************************************************)

Ends == {"DONE", "FAILED"}

\* Event i starts a command and events i+1 to n hold the rest of it.
Bracketed(i, n) ==
    LET within == {k \in (i + 1)..n : file[k].type # "REMOTE_EVENT"} IN
    \E end \in within :
        /\ file[end].type \in Ends
        /\ file[end].iteration = file[i].iteration
        /\ IF liveReload
           THEN \E reload \in (i + 1)..(end - 1) :
                    file[reload].type = "RELOAD_TRIGGERED" /\ within = {reload, end}
           ELSE within = {end}

\* The events of a command are bracketed (iteration's RUN case): between its START and the
\* next START or CHANGE there is its one DONE or FAILED, in its own iteration, after its one
\* reload if the target has a live reload server and no reload otherwise.
CommandsAreBracketed ==
    \A i, j \in 1..Len(file) :
        /\ i < j
        /\ file[i].type = "START" /\ file[j].type \in {"START", "CHANGE"}
        /\ \A k \in (i + 1)..(j - 1) : file[k].type \notin {"START", "CHANGE"}
        => Bracketed(i, j - 1)

\* The last event in the profile of the start or the end of a command.
Reports == {"START", "DONE", "FAILED"}
LastReport == CHOOSE i \in 1..Len(file) :
    file[i].type \in Reports /\ \A j \in (i + 1)..Len(file) : file[j].type \notin Reports

\* What a hook adds to `ran` when its turn comes.
Given(name) == IF hooks[name] = "command" THEN <<name>> ELSE <<>>

\* The listeners agree on a command (afterCommand, ibazel.go:245): once the loop waits, the
\* hooks that ran are those given, each once, and none of an earlier command; the hook of the
\* result is that of the last result in the profile.  A `coverage` command is in no event of
\* the profile (profiler.go:143, 158), whatever its result.
ListenersAgree ==
    loop = "wait" =>
        LET reports == {i \in 1..Len(file) : file[i].type \in Reports}
            result  == IF command \in Profiled
                       THEN file[LastReport].type = "DONE" ELSE success
            hook    == IF result THEN "after_success" ELSE "after_error" IN
        /\ ran = Given("before") \o Given("after") \o Given(hook)
        /\ IF command \in Profiled THEN file[LastReport].type \in Ends ELSE reports = {}

\* profiler.go:294: "Ignoring unexpected remote event".  The event is not ignored: the lock
\* it keeps blocks the main loop for ever at its next report.
CommandsFinish ==
    loop = "before" /\ Len(file) + 3 <= MaxEvents
        ~> loop \in {"wait", "exited"} \/ Len(file) = MaxEvents

=============================================================================
