------------------------------ MODULE Command -------------------------------
(***************************************************************************)
(* `ibazel run`: the subprocess, and the threads that start and stop it.   *)
(* command/default_command.go and notify_command.go keep the subprocess in *)
(* c.pg and the guard of its termination in c.termSync, with no lock.  The *)
(* main loop (Start, NotifyOfChanges), the goroutines handleSignals starts *)
(* for SIGINT and SIGTERM (Terminate), handleSignals itself (Kill) and the *)
(* kill timer of every terminate() run concurrently, so every statement    *)
(* that reads or writes c.pg or c.termSync is a step of its own, and so is *)
(* each half of exec.Cmd.Start: it forks, then sets the field Process.     *)
(* The two reads of c.pg in one condition (default_command.go:101) are one *)
(* step.  The process group is that of Unix.  SIGTERM stands for SIGHUP    *)
(* too: handleSignals treats them alike.                                   *)
(***************************************************************************)
EXTENDS Integers, Sequences, FiniteSets

CONSTANTS
    Processes,    \* the subprocesses one behaviour may start (a bound)
    NoProcess,    \* c.pg = nil
    Goroutines,   \* the Terminate goroutines of handleSignals (a bound)
    MaxRebuilds,  \* bound on the rebuilds of the main loop
    MaxSignals,   \* bound on the signals ibazel is sent
    Signals,      \* the signals it is sent: a subset of {"SIGINT", "SIGTERM"}
    Modes,        \* a subset of {"default", "notification"}
    MayExit       \* the subprocess may end by itself

ASSUME CommandAssumption ==
    /\ NoProcess \notin Processes
    /\ "main" \notin Goroutines
    /\ MaxRebuilds \in Nat
    /\ MaxSignals \in Nat
    /\ Signals \subseteq {"SIGINT", "SIGTERM"}
    /\ Modes \subseteq {"default", "notification"}
    /\ MayExit \in BOOLEAN

Threads   == Goroutines \cup {"main"}
NoThread  == "none"
Alive     == 0  \* exitCode of an ibazel that has not exited

\* "created": the exec.Cmd exists, no subprocess does.  "exited" and "signaled": the
\* subprocess is dead, by exit or by a signal.
Statuses == {"unused", "created", "running", "exited", "signaled"}

\* Where a thread is: in the main loop, in Start, or in Terminate.
PCs == {"off", "idle", "notified", "build", "launch", "launched", "reset", "end",
        "check", "clear", "do", "signal", "wait", "leave", "exit"}

VARIABLES
    mode,            \* "default" or "notification"
    startup,         \* executionMode is still a startup mode: RUN calls Start
    pg,              \* c.pg
    once,            \* c.termSync: [owner |-> who is inside Do, done |-> BOOLEAN]
    status,          \* of every subprocess
    started,         \* subprocesses whose Process is set: exec.Cmd.Start returned
    waited,          \* subprocesses whose ProcessState is set: Wait returned
    termed,          \* subprocesses that were sent SIGTERM
    pc,              \* of every thread
    target,          \* per thread: what its call of Start or terminate is on
    timer,           \* threads whose terminate() has its kill timer armed
    sigs,            \* i.sigs, a channel with room for one signal
    handling,        \* the signal handleSignals acts on, or "none"
    exiting,         \* goroutines that call osExit(3) after Terminate
    interruptCount,  \* i.interruptCount
    exitCode,        \* of ibazel: 1 log.Fatal, 2 a Go panic or fatal error, 3 osExit(3)
    rebuilds,        \* rebuilds so far, for MaxRebuilds only
    sent             \* history: the signals ibazel was sent

procVars == <<status, started, waited, termed>>
sigVars  == <<sigs, handling, exiting, sent>>
termVars == <<target, timer, once>>
vars == <<mode, startup, pg, once, status, started, waited, termed, pc, target, timer, sigs,
          handling, exiting, interruptCount, exitCode, rebuilds, sent>>

TypeOK ==
    /\ mode \in Modes
    /\ startup \in BOOLEAN
    /\ pg \in Processes \cup {NoProcess}
    /\ once \in [owner : Threads \cup {NoThread}, done : BOOLEAN]
    /\ status \in [Processes -> Statuses]
    /\ started \subseteq Processes
    /\ waited \subseteq Processes
    /\ termed \subseteq Processes
    /\ pc \in [Threads -> PCs]
    /\ target \in [Threads -> Processes \cup {NoProcess}]
    /\ timer \subseteq Threads
    /\ sigs \in Seq(Signals) /\ Len(sigs) <= 1
    /\ handling \in Signals \cup {"none"}
    /\ exiting \subseteq Goroutines
    /\ interruptCount \in 0..3
    /\ exitCode \in {Alive, 1, 2, 3}
    /\ rebuilds \in 0..MaxRebuilds
    /\ sent \in Seq(Signals) /\ Len(sent) <= MaxSignals

FreshOnce == [owner |-> NoThread, done |-> FALSE]

Init ==
    /\ mode \in Modes
    /\ startup = TRUE
    /\ pg = NoProcess
    /\ once = FreshOnce
    /\ status = [p \in Processes |-> "unused"]
    /\ started = {}
    /\ waited = {}
    /\ termed = {}
    /\ pc = [t \in Threads |-> IF t = "main" THEN "idle" ELSE "off"]
    /\ target = [t \in Threads |-> NoProcess]
    /\ timer = {}
    /\ sigs = <<>>
    /\ handling = "none"
    /\ exiting = {}
    /\ interruptCount = 0
    /\ exitCode = Alive
    /\ rebuilds = 0
    /\ sent = <<>>

Live(p) == p # NoProcess /\ status[p] = "running"

\* subprocessRunning(c.pg.RootProcess()).  ProcessState is set by Wait only, and a process
\* killed by a signal has not Exited().
IsSubprocessRunning ==
    /\ pg # NoProcess
    /\ pg \in started
    /\ ~(pg \in waited /\ status[pg] = "exited")

\* Thread t of a running ibazel is at label.
At(t, label) == exitCode = Alive /\ pc[t] = label

Goto(t, label) == pc' = [pc EXCEPT ![t] = label]

\* A nil dereference or sync's "unlock of unlocked mutex" ends the program.
Crash == exitCode' = 2

\* The subprocesses after SIGKILL of p.
Killed(p) == [status EXCEPT ![p] = IF @ = "running" THEN "signaled" ELSE @]

(***************************************************************************)
(* The main loop.  A rebuild calls Start in a startup mode and             *)
(* NotifyOfChanges otherwise; then iteration() resets interruptCount.      *)
(***************************************************************************)

Rebuild(label) ==
    /\ At("main", "idle")
    /\ rebuilds < MaxRebuilds
    /\ rebuilds' = rebuilds + 1
    /\ Goto("main", label)
    /\ UNCHANGED <<mode, startup, pg, procVars, termVars, sigVars, interruptCount, exitCode>>

CallStart == startup /\ Rebuild("build")

\* Mutant of Restart: Start without Terminate.
RestartWithoutTerminate == ~startup /\ mode = "default" /\ Rebuild("build")

\* defaultCommand.NotifyOfChanges: Terminate, then Start.
Restart == ~startup /\ mode = "default" /\ Rebuild("check")

\* notifyCommand.NotifyOfChanges: when Norun fails that is all; when it succeeds, a
\* subprocess that is not running is started again.
NotifyFails    == ~startup /\ mode = "notification" /\ Rebuild("end")
NotifySucceeds == ~startup /\ mode = "notification" /\ Rebuild("notified")

StartIfDead ==
    /\ At("main", "notified")
    /\ Goto("main", IF IsSubprocessRunning THEN "end" ELSE "check")
    /\ UNCHANGED <<mode, startup, pg, procVars, termVars, sigVars, interruptCount,
                   exitCode, rebuilds>>

\* start(): build the run script and make the command.
Build ==
    /\ At("main", "build")
    /\ \E p \in Processes :
        /\ status[p] = "unused"
        /\ pg' = p
        /\ status' = [status EXCEPT ![p] = "created"]
    /\ Goto("main", "launch")
    /\ UNCHANGED <<mode, startup, started, waited, termed, termVars, sigVars,
                   interruptCount, exitCode, rebuilds>>

\* c.pg.Start(), on whatever c.pg is by now, forks.
Launch ==
    /\ At("main", "launch")
    /\ IF pg = NoProcess
       THEN Crash /\ UNCHANGED <<status, target, startup, pc>>
       ELSE /\ UNCHANGED exitCode
            /\ \/ /\ status' = [status EXCEPT ![pg] = "running"]
                  /\ target' = [target EXCEPT !["main"] = pg]
                  /\ Goto("main", "launched")
                  /\ UNCHANGED startup
               \/ \* the build failed and left no script to start
                  /\ startup' = (startup /\ mode = "default")
                  /\ Goto("main", "end")
                  /\ UNCHANGED <<status, target>>
    /\ UNCHANGED <<mode, pg, started, waited, termed, timer, once, sigVars, interruptCount,
                   rebuilds>>

\* exec.Cmd.Start has the child and sets Process; Start succeeded.
SetProcess ==
    /\ At("main", "launched")
    /\ started' = started \cup {target["main"]}
    /\ startup' = FALSE
    /\ Goto("main", "reset")
    /\ UNCHANGED <<mode, pg, status, waited, termed, termVars, sigVars, interruptCount,
                   exitCode, rebuilds>>

\* c.termSync = sync.Once{}
ResetOnce ==
    /\ At("main", "reset")
    /\ once' = FreshOnce
    /\ Goto("main", "end")
    /\ UNCHANGED <<mode, startup, pg, procVars, target, timer, sigVars, interruptCount,
                   exitCode, rebuilds>>

\* iteration() goes on: i.interruptCount = 0.
EndOfCommand ==
    /\ At("main", "end")
    /\ interruptCount' = 0
    /\ Goto("main", "idle")
    /\ UNCHANGED <<mode, startup, pg, procVars, termVars, sigVars, exitCode, rebuilds>>

(***************************************************************************)
(* Terminate(), in any thread.                                             *)
(***************************************************************************)

AfterTerminate(t) == IF t = "main" THEN "build" ELSE "exit"

CheckRunning(t) ==
    /\ At(t, "check")
    /\ Goto(t, IF IsSubprocessRunning THEN "do" ELSE "clear")
    /\ UNCHANGED <<mode, startup, pg, procVars, termVars, sigVars, interruptCount,
                   exitCode, rebuilds>>

\* Mutant of EnterOnce: a thread that finds another inside Do does not wait for it.
EnterOnceOrSkip(t) ==
    /\ At(t, "do")
    /\ IF once.done \/ once.owner # NoThread
       THEN Goto(t, "clear") /\ UNCHANGED once
       ELSE /\ once' = [once EXCEPT !.owner = t]
            /\ Goto(t, "signal")
    /\ UNCHANGED <<mode, startup, pg, procVars, target, timer, sigVars, interruptCount,
                   exitCode, rebuilds>>

\* c.termSync.Do: skipped when done, else one thread enters and the others block.
EnterOnce(t) ==
    /\ At(t, "do")
    /\ IF once.done
       THEN Goto(t, "clear") /\ UNCHANGED once
       ELSE /\ once.owner = NoThread
            /\ once' = [once EXCEPT !.owner = t]
            /\ Goto(t, "signal")
    /\ UNCHANGED <<mode, startup, pg, procVars, target, timer, sigVars, interruptCount,
                   exitCode, rebuilds>>

\* terminate(c.pg): SIGTERM, and the kill timer is armed.  Signal needs a started process.
SendTerm(t) ==
    /\ At(t, "signal")
    /\ IF pg \notin started
       THEN Crash /\ UNCHANGED <<target, termed, timer, pc>>
       ELSE /\ target' = [target EXCEPT ![t] = pg]
            /\ termed' = termed \cup {pg}
            /\ timer' = timer \cup {t}
            /\ Goto(t, "wait")
            /\ UNCHANGED exitCode
    /\ UNCHANGED <<mode, startup, pg, once, status, started, waited, sigVars,
                   interruptCount, rebuilds>>

\* Mutant of KillTimer: SIGKILL goes to what c.pg is when the timer fires.
KillTimerOfPg(t) ==
    /\ exitCode = Alive /\ t \in timer
    /\ timer' = timer \ {t}
    /\ status' = IF pg = NoProcess THEN status ELSE Killed(pg)
    /\ UNCHANGED <<mode, startup, pg, once, started, waited, termed, pc, target, sigVars,
                   interruptCount, exitCode, rebuilds>>

\* Mutant of KillTimer: SIGTERM is sent a second time, and no SIGKILL.
KillTimerTerms(t) ==
    /\ exitCode = Alive /\ t \in timer
    /\ timer' = timer \ {t}
    /\ UNCHANGED <<mode, startup, pg, once, procVars, pc, target, sigVars,
                   interruptCount, exitCode, rebuilds>>

\* time.After(*waitDuration): SIGKILL unless the subprocess is gone.
KillTimer(t) ==
    /\ exitCode = Alive /\ t \in timer
    /\ timer' = timer \ {t}
    /\ status' = Killed(target[t])
    /\ UNCHANGED <<mode, startup, pg, once, started, waited, termed, pc, target, sigVars,
                   interruptCount, exitCode, rebuilds>>

\* Mutant of Wait: Terminate goes on without waiting for the subprocess.
WaitNot(t) ==
    /\ At(t, "wait")
    /\ waited' = waited \cup {target[t]}
    /\ Goto(t, "leave")
    /\ UNCHANGED <<mode, startup, pg, status, started, termed, termVars, sigVars,
                   interruptCount, exitCode, rebuilds>>

\* pg.Wait() returns when the subprocess is dead, and sets its ProcessState.
Wait(t) ==
    /\ At(t, "wait")
    /\ ~Live(target[t])
    /\ waited' = waited \cup {target[t]}
    /\ Goto(t, "leave")
    /\ UNCHANGED <<mode, startup, pg, status, started, termed, termVars, sigVars,
                   interruptCount, exitCode, rebuilds>>

\* done <- true, pg.Close(), and Do returns.  If Start replaced termSync meanwhile, Do
\* unlocks a mutex nobody holds.
LeaveOnce(t) ==
    /\ At(t, "leave")
    /\ timer' = timer \ {t}
    /\ IF once.owner = t
       THEN /\ once' = [owner |-> NoThread, done |-> TRUE]
            /\ Goto(t, "clear")
            /\ UNCHANGED exitCode
       ELSE Crash /\ UNCHANGED <<once, pc>>
    /\ UNCHANGED <<mode, startup, pg, procVars, target, sigVars, interruptCount, rebuilds>>

\* c.pg = nil
ClearPg(t) ==
    /\ At(t, "clear")
    /\ pg' = NoProcess
    /\ Goto(t, AfterTerminate(t))
    /\ UNCHANGED <<mode, startup, procVars, termVars, sigVars, interruptCount, exitCode,
                   rebuilds>>

\* The goroutine of handleSignals is done; after SIGTERM it ends the program.
GoroutineEnds(t) ==
    /\ At(t, "exit")
    /\ IF t \in exiting THEN exitCode' = 3 ELSE UNCHANGED exitCode
    /\ Goto(t, "off")
    /\ exiting' = exiting \ {t}
    /\ UNCHANGED <<mode, startup, pg, procVars, termVars, sigs, handling, sent,
                   interruptCount, rebuilds>>

(***************************************************************************)
(* handleSignals.                                                          *)
(***************************************************************************)

\* Mutant of SendSignal: the channel has no bound.
SendSignalUnbounded(s) ==
    /\ exitCode = Alive /\ Len(sent) < MaxSignals
    /\ sent' = Append(sent, s)
    /\ sigs' = Append(sigs, s)
    /\ UNCHANGED <<mode, startup, pg, procVars, pc, termVars, handling, exiting,
                   interruptCount, exitCode, rebuilds>>

\* A signal reaches ibazel; signal.Notify drops it when the channel is full.
SendSignal(s) ==
    /\ exitCode = Alive /\ Len(sent) < MaxSignals
    /\ sent' = Append(sent, s)
    /\ sigs' = IF sigs = <<>> THEN <<s>> ELSE sigs
    /\ UNCHANGED <<mode, startup, pg, procVars, pc, termVars, handling, exiting,
                   interruptCount, exitCode, rebuilds>>

\* sig := <-i.sigs.  Without a subprocess ibazel ends.
TakeSignal ==
    /\ exitCode = Alive /\ handling = "none"
    /\ sigs # <<>>
    /\ sigs' = Tail(sigs)
    /\ IF IsSubprocessRunning
       THEN handling' = Head(sigs) /\ UNCHANGED exitCode
       ELSE exitCode' = 3 /\ UNCHANGED handling
    /\ UNCHANGED <<mode, startup, pg, procVars, pc, termVars, exiting, sent,
                   interruptCount, rebuilds>>

Handling(s) == exitCode = Alive /\ handling = s

\* go func() { i.cmd.Terminate() ... }()
Spawn(g) == pc[g] = "off" /\ Goto(g, "check")

FirstInterrupt(g) ==
    /\ Handling("SIGINT") /\ interruptCount = 0
    /\ interruptCount' = 1
    /\ Spawn(g)
    /\ handling' = "none"
    /\ UNCHANGED <<mode, startup, pg, procVars, termVars, sigs, exiting, sent, exitCode,
                   rebuilds>>

\* i.cmd.Kill()
SecondInterrupt ==
    /\ Handling("SIGINT") /\ interruptCount = 1
    /\ interruptCount' = 2
    /\ status' = IF IsSubprocessRunning THEN Killed(pg) ELSE status
    /\ handling' = "none"
    /\ UNCHANGED <<mode, startup, pg, started, waited, termed, pc, termVars, sigs, exiting,
                   sent, exitCode, rebuilds>>

\* log.Fatal ends the program with code 1; the osExit(3) after it is not reached.
ThirdInterrupt ==
    /\ Handling("SIGINT") /\ interruptCount = 2
    /\ interruptCount' = 3
    /\ exitCode' = 1
    /\ UNCHANGED <<mode, startup, pg, procVars, pc, termVars, sigVars, rebuilds>>

TermSignal(g) ==
    /\ Handling("SIGTERM")
    /\ Spawn(g)
    /\ exiting' = exiting \cup {g}
    /\ handling' = "none"
    /\ UNCHANGED <<mode, startup, pg, procVars, termVars, sigs, sent, interruptCount,
                   exitCode, rebuilds>>

(***************************************************************************)
(* The subprocess.                                                         *)
(***************************************************************************)

\* It exits by itself, or ends after SIGTERM: in its handler or by the signal.
SubprocessEnds(p) ==
    /\ status[p] = "running"
    /\ \/ MayExit /\ status' = [status EXCEPT ![p] = "exited"]
       \/ p \in termed /\ \E how \in {"exited", "signaled"} :
                               status' = [status EXCEPT ![p] = how]
    /\ UNCHANGED <<mode, startup, pg, started, waited, termed, pc, termVars, sigVars,
                   interruptCount, exitCode, rebuilds>>

CommandStep == StartIfDead \/ Build \/ Launch \/ SetProcess \/ ResetOnce \/ EndOfCommand

MainStep == CallStart \/ Restart \/ NotifyFails \/ NotifySucceeds \/ CommandStep

TerminateStep(t) ==
    CheckRunning(t) \/ EnterOnce(t) \/ SendTerm(t) \/ Wait(t) \/ LeaveOnce(t) \/ ClearPg(t)

SignalStep ==
    \/ TakeSignal \/ SecondInterrupt \/ ThirdInterrupt
    \/ \E g \in Goroutines : FirstInterrupt(g) \/ TermSignal(g)

Next ==
    \/ MainStep \/ SignalStep
    \/ \E t \in Threads : TerminateStep(t) \/ KillTimer(t)
    \/ \E g \in Goroutines : GoroutineEnds(g)
    \/ \E s \in Signals : SendSignal(s)
    \/ \E p \in Processes : SubprocessEnds(p)

\* Go runs every goroutine that can run and every timer fires; nothing makes a file
\* change, a signal come or a subprocess end.
Fairness ==
    /\ WF_vars(CommandStep)
    /\ WF_vars(SignalStep)
    /\ \A t \in Threads : WF_vars(TerminateStep(t)) /\ WF_vars(KillTimer(t))
    /\ \A g \in Goroutines : WF_vars(GoroutineEnds(g))

Spec == Init /\ [][Next]_vars /\ Fairness

(***************************************************************************)
(* Properties.                                                             *)
(***************************************************************************)

LiveProcesses == {p \in Processes : Live(p)}

\* The subprocess ibazel tracks is the only one that is alive, whatever signals come while
\* it runs (c.pg, default_command.go:47).  Holds until the first restart.
NothingLost == rebuilds <= 1 => LiveProcesses \subseteq {pg}

\* An ibazel that ends on a signal has seen the subprocess die that it had started
\* (handleSignals, ibazel.go:152).  One it is still starting lives on: until exec.Cmd.Start
\* returns, IsSubprocessRunning does not see it (command.go:101).  Holds until the first
\* restart: the main loop may start the next subprocess while the goroutine that ends
\* ibazel terminates this one.
ExitLeavesNothing == rebuilds <= 1 /\ exitCode = 3 => LiveProcesses \cap started = {}

\* default_command.go:35: "If you start a server in this mode and notify of changes the
\* server will be killed and restarted", so never two at a time, in either mode.  Holds
\* until the first signal.
OneServer == sent = <<>> => Cardinality(LiveProcesses) <= 1

\* After SIGTERM ibazel ends, also when the subprocess ignores the signal and when other
\* threads are terminating it (terminate, command.go:113).
SigtermExits == exiting # {} ~> exitCode # Alive

\* What is asked to terminate dies, also when it ignores SIGTERM and c.pg moves on, or is
\* left alive by an ibazel that ended (the kill timer, command.go:116).
TerminatedDies ==
    \A p \in Processes : p \in termed ~> ~Live(p) \/ exitCode # Alive

=============================================================================
