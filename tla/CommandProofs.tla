---------------------------- MODULE CommandProofs ----------------------------
(***************************************************************************)
(* Proofs about the subprocess of `ibazel run`, for any number of          *)
(* subprocesses, goroutines, rebuilds and signals.                         *)
(***************************************************************************)
EXTENDS Command, FiniteSetTheorems, TLAPS

(***************************************************************************)
(* Type correctness.                                                       *)
(***************************************************************************)

\* The initial state has the right types.
LEMMA TypeInit == Init => TypeOK
BY CommandAssumption DEF Init, TypeOK, Threads, NoThread, FreshOnce, Statuses, PCs, Alive

\* Putting a thread at another statement keeps pc a function to PCs.
LEMMA GotoType ==
    ASSUME TypeOK, NEW t \in Threads, NEW label \in PCs, Goto(t, label)
    PROVE  pc' \in [Threads -> PCs]
BY DEF TypeOK, Goto

\* Killing a subprocess keeps status a function to Statuses.
LEMMA KilledType ==
    ASSUME TypeOK, NEW p
    PROVE  Killed(p) \in [Processes -> Statuses]
BY DEF TypeOK, Killed, Statuses

\* A thread that waits in terminate() waits for a subprocess, and one inside exec.Cmd.Start
\* has forked one.
WaitsForProcess ==
    \A t \in Threads : pc[t] \in {"wait", "launched"} => target[t] \in Processes

\* Every step keeps the types.
LEMMA TypeStep == TypeOK /\ WaitsForProcess /\ [Next]_vars => TypeOK'
<1> SUFFICES ASSUME TypeOK, WaitsForProcess, [Next]_vars PROVE TypeOK'
  OBVIOUS
<1> USE CommandAssumption
<1>0. "main" \in Threads /\ Goroutines \subseteq Threads
  BY DEF Threads
<1>1. ASSUME NEW label \in PCs, Rebuild(label) PROVE TypeOK'
  BY <1>0, <1>1, GotoType DEF Rebuild, TypeOK, procVars, sigVars, termVars
<1>2. CASE CallStart \/ Restart \/ NotifyFails \/ NotifySucceeds
  BY <1>1, <1>2 DEF CallStart, Restart, NotifyFails, NotifySucceeds, PCs
<1>3. CASE StartIfDead
  <2>1. pc' \in [Threads -> PCs]
    BY <1>0, <1>3, GotoType DEF StartIfDead, PCs
  <2> QED
    BY <1>3, <2>1 DEF StartIfDead, TypeOK, procVars, sigVars, termVars
<1>4. CASE Build
  <2>1. pc' \in [Threads -> PCs]
    BY <1>0, <1>4, GotoType DEF Build, PCs
  <2> QED
    BY <1>4, <2>1 DEF Build, TypeOK, Statuses, sigVars, termVars
<1>5. CASE Launch
  <2>1. pc' \in [Threads -> PCs]
    BY <1>0, <1>5, GotoType DEF Launch, PCs, TypeOK
  <2>2. status' \in [Processes -> Statuses] /\ startup' \in BOOLEAN /\ exitCode' \in {Alive, 1, 2, 3}
    BY <1>5 DEF Launch, TypeOK, Statuses, Crash
  <2>3. target' \in [Threads -> Processes \cup {NoProcess}]
    BY <1>5 DEF Launch, TypeOK
  <2> QED
    BY <1>5, <2>1, <2>2, <2>3 DEF Launch, TypeOK, sigVars
<1>5a. CASE SetProcess
  <2>1. pc' \in [Threads -> PCs]
    BY <1>0, <1>5a, GotoType DEF SetProcess, PCs
  <2>2. started' \subseteq Processes
    BY <1>0, <1>5a DEF SetProcess, At, TypeOK, WaitsForProcess
  <2> QED
    BY <1>5a, <2>1, <2>2 DEF SetProcess, TypeOK, sigVars, termVars
<1>6. CASE ResetOnce
  <2>1. pc' \in [Threads -> PCs]
    BY <1>0, <1>6, GotoType DEF ResetOnce, PCs
  <2> QED
    BY <1>6, <2>1 DEF ResetOnce, FreshOnce, NoThread, TypeOK, procVars, sigVars
<1>7. CASE EndOfCommand
  <2>1. pc' \in [Threads -> PCs]
    BY <1>0, <1>7, GotoType DEF EndOfCommand, PCs
  <2> QED
    BY <1>7, <2>1 DEF EndOfCommand, TypeOK, procVars, sigVars, termVars
<1>8. ASSUME NEW t \in Threads, CheckRunning(t) PROVE TypeOK'
  <2>1. pc' \in [Threads -> PCs]
    BY <1>8, GotoType DEF CheckRunning, PCs
  <2> QED
    BY <1>8, <2>1 DEF CheckRunning, TypeOK, procVars, sigVars, termVars
<1>9. ASSUME NEW t \in Threads, EnterOnce(t) PROVE TypeOK'
  <2>1. pc' \in [Threads -> PCs]
    BY <1>9, GotoType DEF EnterOnce, PCs
  <2>2. once' \in [owner : Threads \cup {NoThread}, done : BOOLEAN]
    BY <1>9 DEF EnterOnce, TypeOK
  <2> QED
    BY <1>9, <2>1, <2>2 DEF EnterOnce, TypeOK, procVars, sigVars
<1>10. ASSUME NEW t \in Threads, SendTerm(t) PROVE TypeOK'
  <2>1. pc' \in [Threads -> PCs]
    BY <1>10, GotoType DEF SendTerm, PCs, TypeOK
  <2>2. target' \in [Threads -> Processes \cup {NoProcess}] /\ timer' \subseteq Threads
    BY <1>10 DEF SendTerm, TypeOK
  <2>3. termed' \subseteq Processes /\ exitCode' \in {Alive, 1, 2, 3}
    BY <1>10 DEF SendTerm, TypeOK, Crash
  <2> QED
    BY <1>10, <2>1, <2>2, <2>3 DEF SendTerm, TypeOK, sigVars
<1>11. ASSUME NEW t \in Threads, Wait(t) PROVE TypeOK'
  <2>1. pc' \in [Threads -> PCs]
    BY <1>11, GotoType DEF Wait, PCs
  <2>2. waited' \subseteq Processes
    BY <1>11 DEF Wait, At, TypeOK, WaitsForProcess
  <2> QED
    BY <1>11, <2>1, <2>2 DEF Wait, TypeOK, sigVars, termVars
<1>12. ASSUME NEW t \in Threads, LeaveOnce(t) PROVE TypeOK'
  <2>1. pc' \in [Threads -> PCs]
    BY <1>12, GotoType DEF LeaveOnce, PCs, TypeOK
  <2>2. timer' \subseteq Threads /\ exitCode' \in {Alive, 1, 2, 3}
    BY <1>12 DEF LeaveOnce, TypeOK, Crash
  <2>3. once' \in [owner : Threads \cup {NoThread}, done : BOOLEAN]
    <3>1. once' = once \/ once' = [owner |-> NoThread, done |-> TRUE]
      BY <1>12 DEF LeaveOnce
    <3>2. once \in [owner : Threads \cup {NoThread}, done : BOOLEAN]
      BY DEF TypeOK
    <3>3. [owner |-> NoThread, done |-> TRUE] \in [owner : Threads \cup {NoThread}, done : BOOLEAN]
      OBVIOUS
    <3> QED
      BY <3>1, <3>2, <3>3
  <2> QED
    BY <1>12, <2>1, <2>2, <2>3 DEF LeaveOnce, TypeOK, procVars, sigVars
<1>13. ASSUME NEW t \in Threads, ClearPg(t) PROVE TypeOK'
  <2>1. pc' \in [Threads -> PCs]
    BY <1>13, GotoType DEF ClearPg, AfterTerminate, PCs
  <2> QED
    BY <1>13, <2>1 DEF ClearPg, TypeOK, procVars, sigVars, termVars
<1>14. ASSUME NEW t \in Threads, KillTimer(t) PROVE TypeOK'
  <2>1. status' \in [Processes -> Statuses] /\ timer' \subseteq Threads
    BY <1>14, KilledType DEF KillTimer, TypeOK
  <2> QED
    BY <1>14, <2>1 DEF KillTimer, TypeOK, sigVars
<1>15. ASSUME NEW g \in Goroutines, GoroutineEnds(g) PROVE TypeOK'
  <2>1. pc' \in [Threads -> PCs]
    BY <1>0, <1>15, GotoType DEF GoroutineEnds, PCs
  <2> QED
    BY <1>15, <2>1 DEF GoroutineEnds, TypeOK, procVars, termVars
<1>16. ASSUME NEW s \in Signals, SendSignal(s) PROVE TypeOK'
  <2>1. sent' \in Seq(Signals) /\ Len(sent') <= MaxSignals
    BY <1>16 DEF SendSignal, TypeOK
  <2>2. sigs' \in Seq(Signals) /\ Len(sigs') <= 1
    BY <1>16 DEF SendSignal, TypeOK
  <2> QED
    BY <1>16, <2>1, <2>2 DEF SendSignal, TypeOK, procVars, termVars
<1>17. CASE TakeSignal
  <2>1. sigs' \in Seq(Signals) /\ Len(sigs') <= 1 /\ Head(sigs) \in Signals
    BY <1>17 DEF TakeSignal, TypeOK
  <2> QED
    BY <1>17, <2>1 DEF TakeSignal, TypeOK, procVars, termVars
<1>18. ASSUME NEW g \in Goroutines, FirstInterrupt(g) PROVE TypeOK'
  <2>1. pc' \in [Threads -> PCs]
    BY <1>0, <1>18, GotoType DEF FirstInterrupt, Spawn, PCs
  <2> QED
    BY <1>18, <2>1 DEF FirstInterrupt, TypeOK, procVars, termVars
<1>19. CASE SecondInterrupt
  <2>1. status' \in [Processes -> Statuses]
    BY <1>19, KilledType DEF SecondInterrupt, TypeOK
  <2> QED
    BY <1>19, <2>1 DEF SecondInterrupt, TypeOK, termVars
<1>20. CASE ThirdInterrupt
  BY <1>20 DEF ThirdInterrupt, TypeOK, procVars, termVars, sigVars
<1>21. ASSUME NEW g \in Goroutines, TermSignal(g) PROVE TypeOK'
  <2>1. pc' \in [Threads -> PCs]
    BY <1>0, <1>21, GotoType DEF TermSignal, Spawn, PCs
  <2> QED
    BY <1>21, <2>1 DEF TermSignal, TypeOK, procVars, termVars
<1>22. ASSUME NEW p \in Processes, SubprocessEnds(p) PROVE TypeOK'
  <2>1. status' \in [Processes -> Statuses]
    BY <1>22 DEF SubprocessEnds, TypeOK, Statuses
  <2> QED
    BY <1>22, <2>1 DEF SubprocessEnds, TypeOK, sigVars, termVars
<1>23. CASE UNCHANGED vars
  BY <1>23 DEF vars, TypeOK, procVars, sigVars, termVars
<1> QED
  BY <1>2, <1>3, <1>4, <1>5, <1>5a, <1>6, <1>7, <1>8, <1>9, <1>10, <1>11, <1>12, <1>13, <1>14,
     <1>15, <1>16, <1>17, <1>18, <1>19, <1>20, <1>21, <1>22, <1>23
     DEF Next, MainStep, CommandStep, TerminateStep, SignalStep

\* Only SendTerm and Launch set the target of a thread, to the subprocess in c.pg.
LEMMA WaitsStep == TypeOK /\ WaitsForProcess /\ [Next]_vars => WaitsForProcess'
<1> SUFFICES ASSUME TypeOK, WaitsForProcess, [Next]_vars PROVE WaitsForProcess'
  OBVIOUS
<1> USE CommandAssumption
<1>1. ASSUME NEW t \in Threads, NEW label \in PCs \ {"wait", "launched"}, Goto(t, label), UNCHANGED target
      PROVE  WaitsForProcess'
  BY <1>1 DEF WaitsForProcess, Goto, TypeOK
<1>2. ASSUME UNCHANGED pc, UNCHANGED target PROVE WaitsForProcess'
  BY <1>2 DEF WaitsForProcess
<1>3. ASSUME NEW t \in Threads, SendTerm(t) PROVE WaitsForProcess'
  BY <1>3 DEF SendTerm, WaitsForProcess, Goto, TypeOK
<1>3a. CASE Launch
  BY <1>3a DEF Launch, WaitsForProcess, Goto, TypeOK, Threads
<1>4. CASE MainStep /\ ~Launch
  <2>1. "main" \in Threads
    BY DEF Threads
  <2>2. UNCHANGED target
    BY <1>4 DEF MainStep, CommandStep, CallStart, Restart, NotifyFails, NotifySucceeds, Rebuild,
           StartIfDead, Build, Launch, SetProcess, ResetOnce, EndOfCommand, termVars
  <2>3. UNCHANGED pc \/ \E label \in PCs \ {"wait", "launched"} : Goto("main", label)
    BY <1>4 DEF MainStep, CommandStep, CallStart, Restart, NotifyFails, NotifySucceeds, Rebuild,
           StartIfDead, Build, Launch, SetProcess, ResetOnce, EndOfCommand, PCs
  <2> QED
    BY <1>1, <1>2, <2>1, <2>2, <2>3
<1>5. ASSUME NEW t \in Threads, TerminateStep(t) \/ KillTimer(t) PROVE WaitsForProcess'
  <2>1. CASE SendTerm(t)
    BY <1>3, <2>1
  <2>2. CASE ~SendTerm(t)
    <3>1. UNCHANGED target
      BY <1>5, <2>2 DEF TerminateStep, CheckRunning, EnterOnce, Wait, LeaveOnce, ClearPg,
             KillTimer, termVars
    <3>2. UNCHANGED pc \/ \E label \in PCs \ {"wait", "launched"} : Goto(t, label)
      BY <1>5, <2>2 DEF TerminateStep, CheckRunning, EnterOnce, Wait, LeaveOnce, ClearPg,
             KillTimer, AfterTerminate, PCs
    <3> QED
      BY <1>1, <1>2, <3>1, <3>2
  <2> QED
    BY <2>1, <2>2
<1>6. ASSUME NEW g \in Goroutines, GoroutineEnds(g) \/ FirstInterrupt(g) \/ TermSignal(g)
      PROVE  WaitsForProcess'
  <2>1. UNCHANGED target /\ \E label \in PCs \ {"wait", "launched"} : Goto(g, label)
    BY <1>6 DEF GoroutineEnds, FirstInterrupt, TermSignal, Spawn, termVars, PCs
  <2> QED
    BY <1>1, <2>1 DEF Threads
<1>7. CASE \/ TakeSignal \/ SecondInterrupt \/ ThirdInterrupt
           \/ \E s \in Signals : SendSignal(s)
           \/ \E p \in Processes : SubprocessEnds(p)
           \/ UNCHANGED vars
  BY <1>2, <1>7 DEF TakeSignal, SecondInterrupt, ThirdInterrupt, SendSignal, SubprocessEnds,
         vars, termVars
<1> QED
  BY <1>3a, <1>4, <1>5, <1>6, <1>7 DEF Next, SignalStep

\* The variables of the subprocess control keep their types.
THEOREM TypeCorrect == Spec => []TypeOK
<1>1. Init => TypeOK /\ WaitsForProcess
  BY TypeInit DEF Init, WaitsForProcess
<1>2. TypeOK /\ WaitsForProcess /\ [Next]_vars => (TypeOK /\ WaitsForProcess)'
  BY TypeStep, WaitsStep
<1> QED
  BY <1>1, <1>2, PTL DEF Spec

(***************************************************************************)
(* The subprocess ibazel tracks.  Up to the first restart, or as long as   *)
(* no signal comes, the subprocess that is alive is the one in c.pg.       *)
(***************************************************************************)

NoneLive == LiveProcesses = {}
MainIn(labels) == pc["main"] \in labels

\* The main loop is inside Start, before the subprocess is known to have started.
Starting == {"build", "launch", "launched"}

\* handleSignals, or a goroutine it started, is at work.
Acting == handling # "none" \/ \E g \in Goroutines : pc[g] # "off"

\* Up to the first restart.  No signal is acted upon before the subprocess was started.
FirstRun ==
    rebuilds <= 1 =>
        /\ MainIn({"idle", "build", "launch", "launched", "reset", "end"})
        /\ rebuilds = 0 => startup /\ MainIn({"idle"})
        /\ rebuilds = 0 \/ MainIn(Starting) => started = {} /\ ~once.done
        /\ Acting => rebuilds = 1 /\ MainIn({"reset", "end", "idle"})
        /\ exitCode = 3 => LiveProcesses \cap started = {}

NoSignals == sent = <<>> => ~Acting /\ sigs = <<>>

\* What is alive is in c.pg, and exec.Cmd.Start has returned or is about to; a thread that
\* is inside terminate() waits for it, and nothing is alive when a thread is back.
Tracked ==
    rebuilds <= 1 \/ sent = <<>> =>
        /\ LiveProcesses \subseteq {pg}
        /\ IF MainIn({"launched"}) THEN target["main"] = pg ELSE LiveProcesses \subseteq started
        /\ (startup /\ ~MainIn({"launched"})) \/ MainIn({"build", "launch"}) => NoneLive
        /\ once.done => NoneLive \/ (MainIn({"launched", "reset"}) /\ rebuilds > 1)
        /\ \A t \in Threads : pc[t] = "wait" => LiveProcesses \subseteq {target[t]}
        /\ \A t \in Threads : pc[t] \in {"leave", "clear", "exit"} => NoneLive

Inv == TypeOK /\ FirstRun /\ NoSignals /\ Tracked

\* Killing or ending subprocesses leaves no more of them alive.
LEMMA KilledLive ==
    ASSUME TypeOK, NEW p, status' = Killed(p)
    PROVE  LiveProcesses' \subseteq LiveProcesses
BY DEF TypeOK, LiveProcesses, Live, Killed

LEMMA EndsLive ==
    ASSUME TypeOK, NEW p \in Processes, SubprocessEnds(p)
    PROVE  LiveProcesses' \subseteq LiveProcesses
BY DEF TypeOK, LiveProcesses, Live, SubprocessEnds

LEMMA SameLive == ASSUME status' = status PROVE LiveProcesses' = LiveProcesses
BY DEF LiveProcesses, Live

\* If what is alive is in c.pg and IsSubprocessRunning says no, then nothing that has
\* started is alive.
LEMMA NotRunning ==
    ASSUME LiveProcesses \subseteq {pg}, ~IsSubprocessRunning
    PROVE  LiveProcesses \cap started = {}
BY CommandAssumption DEF LiveProcesses, Live, IsSubprocessRunning

\* The initial state.
LEMMA InvInit == Init => Inv
<1> SUFFICES ASSUME Init PROVE Inv
  OBVIOUS
<1>1. LiveProcesses = {}
  BY DEF Init, LiveProcesses, Live
<1>2. /\ pc["main"] = "idle"
      /\ \A t \in Threads : pc[t] \in {"idle", "off"}
      /\ \A g \in Goroutines : pc[g] = "off"
  BY CommandAssumption DEF Init, Threads
<1>3. ~once.done
  BY DEF Init, FreshOnce
<1> QED
  BY <1>1, <1>2, <1>3, TypeInit
     DEF Init, Inv, FirstRun, NoSignals, Tracked, NoneLive, MainIn, Starting, Acting, Alive

\* A step of the main loop moves no goroutine and handles no signal.
LEMMA MainMoves ==
    ASSUME TypeOK, MainStep
    PROVE  /\ \A g \in Goroutines : pc'[g] = pc[g]
           /\ UNCHANGED <<handling, sigs, sent, exiting>>
           /\ exitCode = Alive
BY CommandAssumption
   DEF MainStep, CommandStep, CallStart, Restart, NotifyFails, NotifySucceeds, Rebuild, StartIfDead,
       Build, Launch, SetProcess, ResetOnce, EndOfCommand, Goto, At, TypeOK, Threads, sigVars

\* A step of Terminate in thread t moves no other thread.
LEMMA TerminateMoves ==
    ASSUME TypeOK, NEW t \in Threads, TerminateStep(t) \/ KillTimer(t)
    PROVE  /\ \A u \in Threads \ {t} : pc'[u] = pc[u]
           /\ TerminateStep(t) => pc[t] \in {"check", "do", "signal", "wait", "leave", "clear"}
           /\ KillTimer(t) => pc' = pc
           /\ UNCHANGED <<handling, sigs, sent, exiting, rebuilds, startup>>
           /\ exitCode = Alive
BY DEF TerminateStep, CheckRunning, EnterOnce, SendTerm, Wait, LeaveOnce, ClearPg, KillTimer,
       Goto, At, TypeOK, sigVars

\* Without a signal nothing of the signal handler moves.
LEMMA NoSignalsStep == TypeOK /\ NoSignals /\ [Next]_vars => NoSignals'
<1> SUFFICES ASSUME TypeOK, NoSignals, [Next]_vars, sent' = <<>> PROVE ~Acting' /\ sigs' = <<>>
  BY DEF NoSignals
<1>1. ASSUME NEW s \in Signals, SendSignal(s) PROVE FALSE
  <2>1. sent \in Seq(Signals) /\ sent' = Append(sent, s)
    BY <1>1 DEF SendSignal, TypeOK
  <2>2. Len(Append(sent, s)) = Len(sent) + 1 /\ Len(sent) \in Nat
    BY <2>1
  <2>3. Len(sent') = 0
    OBVIOUS
  <2> QED
    BY <2>1, <2>2, <2>3
<1>2. sent = <<>>
  BY <1>1, MainMoves, TerminateMoves
     DEF Next, SignalStep, TakeSignal, SecondInterrupt, ThirdInterrupt, FirstInterrupt, TermSignal,
         GoroutineEnds, SubprocessEnds, sigVars, vars
<1>3. handling = "none" /\ sigs = <<>> /\ \A g \in Goroutines : pc[g] = "off"
  BY <1>2 DEF NoSignals, Acting
<1>4. CASE MainStep
  BY <1>3, <1>4, MainMoves DEF Acting
<1>5. CASE SignalStep
  BY <1>3, <1>5, CommandAssumption
     DEF SignalStep, TakeSignal, SecondInterrupt, ThirdInterrupt, FirstInterrupt, TermSignal, Handling
<1>6. ASSUME NEW t \in Threads, TerminateStep(t) \/ KillTimer(t) PROVE ~Acting' /\ sigs' = <<>>
  <2>1. t = "main" \/ pc' = pc
    BY <1>3, <1>6, TerminateMoves DEF Threads
  <2>2. \A g \in Goroutines : pc'[g] = pc[g]
    BY <1>6, <2>1, TerminateMoves, CommandAssumption DEF Threads
  <2> QED
    BY <1>3, <1>6, <2>2, TerminateMoves DEF Acting
<1>7. ASSUME NEW g \in Goroutines, GoroutineEnds(g) PROVE FALSE
  BY <1>3, <1>7 DEF GoroutineEnds, At
<1>8. ASSUME NEW p \in Processes, SubprocessEnds(p) PROVE ~Acting' /\ sigs' = <<>>
  BY <1>3, <1>8 DEF SubprocessEnds, sigVars, Acting
<1>9. CASE UNCHANGED vars
  BY <1>3, <1>9 DEF vars, Acting
<1> QED
  BY <1>1, <1>4, <1>5, <1>6, <1>7, <1>8, <1>9 DEF Next


\* While the main loop has started no subprocess or is about to, nothing of the signal
\* handler is at work.
LEMMA NotActing ==
    ASSUME TypeOK, FirstRun, NoSignals, rebuilds <= 1 \/ sent = <<>>,
           sent = <<>> \/ rebuilds = 0 \/ MainIn(Starting)
    PROVE  ~Acting
BY DEF FirstRun, NoSignals, MainIn, Starting

\* The steps of the main loop in its first rebuild.
LEMMA FirstRunMainStep ==
    ASSUME Inv, MainStep
    PROVE  FirstRun'
<1> SUFFICES ASSUME rebuilds' <= 1 PROVE FirstRun'
  BY DEF FirstRun
<1> USE CommandAssumption
<1>0. pc \in [Threads -> PCs] /\ "main" \in Threads /\ rebuilds \in Nat /\ TypeOK
  BY DEF Inv, TypeOK, Threads
<1>1. rebuilds <= 1
  BY <1>0 DEF MainStep, CommandStep, CallStart, Restart, NotifyFails, NotifySucceeds, Rebuild,
         StartIfDead, Build, Launch, SetProcess, ResetOnce, EndOfCommand
<1>2. exitCode = Alive /\ (Acting' <=> Acting)
  BY <1>0, MainMoves DEF Acting
<1>3. exitCode' # 3
  BY <1>2 DEF MainStep, CommandStep, CallStart, Restart, NotifyFails, NotifySucceeds, Rebuild,
         StartIfDead, Build, Launch, SetProcess, ResetOnce, EndOfCommand, Crash, Alive
<1>4. /\ MainIn({"idle", "build", "launch", "launched", "reset", "end"})
      /\ rebuilds = 0 => startup /\ MainIn({"idle"})
      /\ rebuilds = 0 \/ MainIn(Starting) => started = {} /\ ~once.done
      /\ Acting => rebuilds = 1 /\ MainIn({"reset", "end", "idle"})
  BY <1>1 DEF Inv, FirstRun
<1>5. ASSUME NEW label \in PCs, Rebuild(label) PROVE rebuilds = 0 /\ rebuilds' = 1
  BY <1>0, <1>5 DEF Rebuild
<1>6. CASE CallStart
  <2>1. rebuilds = 0 /\ rebuilds' = 1 /\ UNCHANGED <<started, once, startup>>
    BY <1>5, <1>6 DEF CallStart, Rebuild, PCs, procVars, termVars
  <2>2. pc'["main"] = "build"
    BY <1>0, <1>6 DEF CallStart, Rebuild, Goto
  <2> QED
    BY <1>2, <1>3, <1>4, <2>1, <2>2 DEF FirstRun, MainIn, Starting
<1>7. CASE Restart \/ NotifyFails \/ NotifySucceeds
  BY <1>4, <1>5, <1>7 DEF Restart, NotifyFails, NotifySucceeds, PCs
<1>8. CASE StartIfDead
  BY <1>4, <1>8 DEF StartIfDead, At, MainIn
<1>10. CASE Build \/ Launch
  <2>1. rebuilds = 1 /\ rebuilds' = 1 /\ MainIn(Starting) /\ UNCHANGED <<once, started>>
    BY <1>0, <1>1, <1>4, <1>10 DEF Build, Launch, At, MainIn, Starting, termVars
  <2>2. pc'["main"] \in {"launch", "launched", "end"}
    BY <1>0, <1>10 DEF Build, Launch, Goto, At
  <2>3. ~Acting
    BY <1>4, <2>1 DEF MainIn, Starting
  <2> QED
    BY <1>2, <1>3, <1>4, <2>1, <2>2, <2>3 DEF FirstRun, MainIn, Starting
<1>11. CASE SetProcess
  <2>1. rebuilds = 1 /\ rebuilds' = 1
    BY <1>0, <1>1, <1>4, <1>11 DEF SetProcess, At, MainIn
  <2>2. pc'["main"] = "reset"
    BY <1>0, <1>11 DEF SetProcess, Goto
  <2> QED
    BY <1>2, <1>3, <2>1, <2>2 DEF FirstRun, MainIn, Starting
<1>12. CASE ResetOnce \/ EndOfCommand
  <2>1. rebuilds = 1 /\ rebuilds' = 1
    BY <1>0, <1>1, <1>4, <1>12 DEF ResetOnce, EndOfCommand, At, MainIn
  <2>2. pc'["main"] \in {"end", "idle"}
    BY <1>0, <1>12 DEF ResetOnce, EndOfCommand, Goto
  <2> QED
    BY <1>2, <1>3, <1>4, <2>1, <2>2 DEF FirstRun, MainIn, Starting
<1> QED
  BY <1>6, <1>7, <1>8, <1>10, <1>11, <1>12 DEF MainStep, CommandStep

\* Terminate in the first rebuild: only the signal handler calls it.
LEMMA FirstRunTerminateStep ==
    ASSUME Inv, NEW t \in Threads, TerminateStep(t) \/ KillTimer(t)
    PROVE  FirstRun'
<1> SUFFICES ASSUME rebuilds' <= 1 PROVE FirstRun'
  BY DEF FirstRun
<1> USE CommandAssumption
<1>0. TypeOK /\ "main" \in Threads /\ rebuilds \in Nat
  BY DEF Inv, TypeOK, Threads
<1>1. /\ UNCHANGED <<handling, sigs, sent, rebuilds, startup>>
      /\ exitCode = Alive
      /\ rebuilds <= 1
  BY <1>0, TerminateMoves
<1>2. exitCode' # 3
  BY <1>1 DEF TerminateStep, CheckRunning, EnterOnce, SendTerm, Wait, LeaveOnce, ClearPg, KillTimer,
         Crash, Alive
<1>3. FirstRun
  BY DEF Inv
<1>4. CASE KillTimer(t)
  <2>1. UNCHANGED <<pc, started, once>>
    BY <1>4 DEF KillTimer
  <2> QED
    BY <1>1, <1>2, <1>3, <2>1 DEF FirstRun, MainIn, Acting
<1>5. CASE TerminateStep(t)
  <2>1. pc[t] \in {"check", "do", "signal", "wait", "leave", "clear"}
    BY <1>0, <1>5, TerminateMoves
  <2>2. t # "main"
    BY <1>1, <1>3, <2>1 DEF FirstRun, MainIn, Starting
  <2>3. t \in Goroutines /\ pc'["main"] = pc["main"]
    BY <1>0, <1>5, <2>2, TerminateMoves DEF Threads
  <2>4. rebuilds = 1 /\ MainIn({"reset", "end", "idle"})
    BY <1>1, <1>3, <2>1, <2>3 DEF FirstRun, Acting
  <2> QED
    BY <1>1, <1>2, <2>3, <2>4 DEF FirstRun, MainIn, Starting
<1> QED
  BY <1>4, <1>5

\* The signal handler and the subprocesses in the first rebuild.
LEMMA FirstRunOtherStep ==
    ASSUME Inv,
           \/ SignalStep
           \/ \E g \in Goroutines : GoroutineEnds(g)
           \/ \E s \in Signals : SendSignal(s)
           \/ \E p \in Processes : SubprocessEnds(p)
           \/ UNCHANGED vars
    PROVE  FirstRun'
<1> SUFFICES ASSUME rebuilds' <= 1 PROVE FirstRun'
  BY DEF FirstRun
<1> USE CommandAssumption
<1>0. TypeOK /\ "main" \in Threads /\ "main" \notin Goroutines /\ rebuilds \in Nat
  BY DEF Inv, TypeOK, Threads
<1>1. /\ UNCHANGED <<rebuilds, startup, started, once>>
      /\ pc'["main"] = pc["main"]
  BY <1>0 DEF SignalStep, TakeSignal, SecondInterrupt, ThirdInterrupt, FirstInterrupt, TermSignal,
         Spawn, Goto, GoroutineEnds, SendSignal, SubprocessEnds, vars, procVars, termVars, TypeOK
<1>2. FirstRun /\ rebuilds <= 1
  BY <1>1 DEF Inv
<1>3. LiveProcesses \subseteq {pg}
  BY <1>2 DEF Inv, Tracked
<1>4. ASSUME UNCHANGED status, Acting' => Acting, exitCode' = 3 => exitCode = 3
      PROVE  FirstRun'
  BY <1>1, <1>2, <1>4, SameLive DEF FirstRun, MainIn, NoneLive
<1>5. CASE TakeSignal
  <2>1. UNCHANGED <<status, pc>> /\ exitCode = Alive
    BY <1>5 DEF TakeSignal, procVars
  <2>2. CASE IsSubprocessRunning
    <3>1. exitCode' # 3
      BY <1>5, <2>1, <2>2 DEF TakeSignal, Alive
    <3>2. rebuilds = 1 /\ MainIn({"reset", "end", "idle"})
      BY <1>0, <1>2, <2>2 DEF IsSubprocessRunning, FirstRun, MainIn, Starting
    <3> QED
      BY <1>1, <1>2, <2>1, <3>1, <3>2 DEF FirstRun, MainIn, Starting
  <2>3. CASE ~IsSubprocessRunning
    <3>1. LiveProcesses \cap started = {}
      BY <1>3, <2>3, NotRunning
    <3>2. Acting' <=> Acting
      BY <1>5, <2>1, <2>3 DEF TakeSignal, Acting
    <3> QED
      BY <1>1, <1>2, <2>1, <3>1, <3>2, SameLive DEF FirstRun, MainIn, Starting
  <2> QED
    BY <2>2, <2>3
<1>6. ASSUME NEW g \in Goroutines, FirstInterrupt(g) \/ TermSignal(g) PROVE FirstRun'
  <2>1. Acting /\ UNCHANGED <<status, exitCode>>
    BY <1>6 DEF FirstInterrupt, TermSignal, Handling, Acting, procVars
  <2> QED
    BY <1>4, <2>1
<1>7. CASE SecondInterrupt
  <2>1. Acting /\ exitCode' = Alive
    BY <1>7 DEF SecondInterrupt, Handling, Acting
  <2>2. rebuilds = 1 /\ MainIn({"reset", "end", "idle"})
    BY <1>2, <2>1 DEF FirstRun
  <2> QED
    BY <1>1, <1>2, <2>1, <2>2 DEF FirstRun, MainIn, Alive
<1>8. CASE ThirdInterrupt
  BY <1>4, <1>8 DEF ThirdInterrupt, procVars, sigVars, Acting
<1>9. ASSUME NEW g \in Goroutines, GoroutineEnds(g) PROVE FirstRun'
  <2>1. pc[g] = "exit" /\ UNCHANGED status
    BY <1>9 DEF GoroutineEnds, At, procVars
  <2>2. Acting /\ NoneLive
    BY <1>2, <2>1 DEF Acting, Inv, Tracked, Threads
  <2>3. NoneLive'
    BY <2>1, <2>2, SameLive DEF NoneLive
  <2> QED
    BY <1>1, <1>2, <2>2, <2>3 DEF FirstRun, MainIn, Starting, NoneLive
<1>10. ASSUME NEW s \in Signals, SendSignal(s) PROVE FirstRun'
  BY <1>4, <1>10 DEF SendSignal, procVars, Acting
<1>11. ASSUME NEW p \in Processes, SubprocessEnds(p) PROVE FirstRun'
  <2>1. UNCHANGED <<exitCode, pc, handling>>
    BY <1>11 DEF SubprocessEnds, sigVars
  <2>2. LiveProcesses' \subseteq LiveProcesses
    BY <1>0, <1>11, EndsLive
  <2> QED
    BY <1>1, <1>2, <2>1, <2>2 DEF FirstRun, MainIn, Acting
<1>12. CASE UNCHANGED vars
  BY <1>4, <1>12 DEF vars, Acting
<1> QED
  BY <1>5, <1>6, <1>7, <1>8, <1>9, <1>10, <1>11, <1>12 DEF SignalStep

\* The steps of the main loop, before the second rebuild or without signals.
LEMMA TrackedMainStep ==
    ASSUME Inv, MainStep
    PROVE  Tracked'
<1> SUFFICES ASSUME rebuilds' <= 1 \/ sent' = <<>> PROVE Tracked'
  BY DEF Tracked
<1> USE CommandAssumption
<1>0. TypeOK /\ "main" \in Threads /\ rebuilds \in Nat
  BY DEF Inv, TypeOK, Threads
<1>1. rebuilds' \in {rebuilds, rebuilds + 1} /\ UNCHANGED sent
  BY <1>0 DEF MainStep, CommandStep, CallStart, Restart, NotifyFails, NotifySucceeds, Rebuild,
         StartIfDead, Build, Launch, SetProcess, ResetOnce, EndOfCommand, sigVars
<1>2. rebuilds <= 1 \/ sent = <<>>
  BY <1>0, <1>1, MainMoves DEF Inv, TypeOK
<1>3. \A g \in Goroutines : pc'[g] = pc[g]
  BY <1>0, MainMoves
<1>4. /\ LiveProcesses \subseteq {pg}
      /\ IF MainIn({"launched"}) THEN target["main"] = pg ELSE LiveProcesses \subseteq started
      /\ (startup /\ ~MainIn({"launched"})) \/ MainIn({"build", "launch"}) => NoneLive
      /\ once.done => NoneLive \/ (MainIn({"launched", "reset"}) /\ rebuilds > 1)
      /\ \A t \in Threads : pc[t] = "wait" => LiveProcesses \subseteq {target[t]}
      /\ \A t \in Threads : pc[t] \in {"leave", "clear", "exit"} => NoneLive
  BY <1>2 DEF Inv, Tracked
<1>5. ASSUME UNCHANGED <<status, pg, target, started>>, ~MainIn({"launched"}),
             startup' => startup \/ NoneLive,
             pc'["main"] \in {"idle", "notified", "reset", "end", "check", "build"},
             pc'["main"] = "build" => NoneLive,
             once'.done => once.done /\ (MainIn({"reset"}) => pc'["main"] = "reset")
      PROVE  Tracked'
  <2>1. LiveProcesses' = LiveProcesses
    BY <1>5, SameLive
  <2>2. startup' \/ MainIn({"build", "launch"})' => NoneLive'
    BY <1>4, <1>5, <2>1 DEF MainIn, NoneLive
  <2>2a. ~MainIn({"launched"})' /\ LiveProcesses' \subseteq started'
    BY <1>4, <1>5, <2>1 DEF MainIn
  <2>3. once'.done => NoneLive' \/ (MainIn({"launched", "reset"})' /\ rebuilds' > 1)
    BY <1>0, <1>1, <1>4, <1>5, <2>1 DEF MainIn, NoneLive
  <2>4. \A t \in Threads : pc'[t] = "wait" => LiveProcesses' \subseteq {target'[t]}
    BY <1>1, <1>3, <1>4, <1>5, <2>1 DEF Threads
  <2>5. \A t \in Threads : pc'[t] \in {"leave", "clear", "exit"} => NoneLive'
    BY <1>3, <1>4, <1>5, <2>1 DEF NoneLive, Threads
  <2> QED
    BY <1>4, <1>5, <2>1, <2>2, <2>2a, <2>3, <2>4, <2>5 DEF Tracked
<1>6. ASSUME NEW label \in {"build", "check", "end", "notified"}, Rebuild(label),
             label = "build" => startup
      PROVE  Tracked'
  <2>1. pc'["main"] = label /\ pc["main"] = "idle"
    BY <1>0, <1>6 DEF Rebuild, Goto, At, TypeOK
  <2>2. UNCHANGED <<status, pg, target, started, startup, once>>
    BY <1>6 DEF Rebuild, procVars, termVars
  <2> QED
    BY <1>4, <1>5, <1>6, <2>1, <2>2 DEF MainIn
<1>7. CASE CallStart \/ Restart \/ NotifyFails \/ NotifySucceeds
  BY <1>6, <1>7 DEF CallStart, Restart, NotifyFails, NotifySucceeds
<1>8. CASE StartIfDead \/ EndOfCommand
  <2>1. pc'["main"] \in {"idle", "end", "check"} /\ pc["main"] \in {"notified", "end"}
    BY <1>0, <1>8 DEF StartIfDead, EndOfCommand, Goto, At, TypeOK
  <2>2. UNCHANGED <<status, pg, target, started, startup, once>>
    BY <1>8 DEF StartIfDead, EndOfCommand, procVars, termVars
  <2> QED
    BY <1>5, <2>1, <2>2 DEF MainIn
<1>9. CASE ResetOnce
  <2>1. pc["main"] = "reset" /\ pc'["main"] = "end" /\ ~once'.done
    BY <1>0, <1>9 DEF ResetOnce, Goto, At, FreshOnce, TypeOK
  <2>2. UNCHANGED <<status, pg, target, started, startup>>
    BY <1>9 DEF ResetOnce, procVars
  <2> QED
    BY <1>5, <2>1, <2>2 DEF MainIn
\* Start is called when nothing is alive, and the handler is not at work.
<1>10. CASE Build
  <2>1. NoneLive
    BY <1>4, <1>10 DEF Build, At, MainIn
  <2>2. LiveProcesses' \subseteq LiveProcesses
    BY <1>0, <1>10 DEF Build, LiveProcesses, Live, TypeOK
  <2>3. LiveProcesses' = {}
    BY <2>1, <2>2 DEF NoneLive
  <2>4. once' = once
    BY <1>10 DEF Build, termVars
  <2>5. pc'["main"] = "launch"
    BY <1>0, <1>10 DEF Build, Goto, TypeOK
  <2> QED
    BY <1>0, <2>3, <2>4, <2>5 DEF Tracked, MainIn, NoneLive
<1>11. CASE Launch
  <2>1. NoneLive /\ MainIn({"launch"}) /\ MainIn({"build", "launch"})
    BY <1>4, <1>11 DEF Launch, At, MainIn
  <2>2. ~Acting
    BY <1>0, <1>2, <2>1, NotActing DEF Inv, MainIn, Starting
  <2>3. \A g \in Goroutines : pc[g] = "off"
    BY <2>2 DEF Acting
  <2>4. CASE pg = NoProcess
    <3>1. UNCHANGED <<status, startup, pc, pg, target, started, once, rebuilds>>
      BY <1>11, <2>4 DEF Launch, termVars
    <3>2. LiveProcesses' = LiveProcesses
      BY <3>1, SameLive
    <3> QED
      BY <1>1, <1>4, <3>1, <3>2 DEF Tracked, MainIn, NoneLive
  <2>5. CASE pg # NoProcess /\ status' = [status EXCEPT ![pg] = "running"]
             /\ target' = [target EXCEPT !["main"] = pg] /\ Goto("main", "launched")
    <3>1. LiveProcesses' \subseteq {pg} /\ pg' = pg /\ once' = once
      BY <1>0, <1>11, <2>1, <2>5 DEF Launch, LiveProcesses, Live, NoneLive, TypeOK, termVars
    <3>2. \A t \in Threads : pc'[t] \in {"off", "launched"}
      BY <1>0, <1>3, <2>3, <2>5 DEF Goto, TypeOK, Threads
    <3>3. pc'["main"] = "launched" /\ target'["main"] = pg
      BY <1>0, <2>5 DEF Goto, TypeOK
    <3>4. once'.done => rebuilds' > 1
      <4>1. rebuilds' = rebuilds
        BY <1>11 DEF Launch
      <4>2. rebuilds <= 1 => ~once.done
        BY <2>1 DEF Inv, FirstRun, MainIn, Starting
      <4> QED
        BY <1>0, <3>1, <4>1, <4>2
    <3> QED
      BY <2>5, <3>1, <3>2, <3>3, <3>4 DEF Tracked, MainIn
  <2>6. CASE pg # NoProcess /\ UNCHANGED <<status, target>> /\ Goto("main", "end")
    <3>1. pc'["main"] = "end"
      BY <1>0, <2>6 DEF Goto, TypeOK
    <3>2. UNCHANGED <<pg, started, once>>
      BY <1>11 DEF Launch
    <3> QED
      BY <1>5, <2>1, <2>6, <3>1, <3>2 DEF MainIn
  <2> QED
    BY <1>11, <2>4, <2>5, <2>6 DEF Launch
\* Process is set: what is alive has started.
<1>12. CASE SetProcess
  <2>1. UNCHANGED <<status, pg, target, once, rebuilds>> /\ MainIn({"launched"})
    BY <1>12 DEF SetProcess, termVars, At, MainIn
  <2>2. LiveProcesses' = LiveProcesses /\ LiveProcesses \subseteq {target["main"]}
    BY <1>4, <2>1, SameLive
  <2>3. started' = started \cup {target["main"]} /\ startup' = FALSE /\ pc'["main"] = "reset"
    BY <1>0, <1>12 DEF SetProcess, Goto, TypeOK
  <2>4. \A t \in Threads : pc'[t] = "reset" \/ pc'[t] = pc[t]
    BY <1>3, <2>3 DEF Threads
  <2>5. LiveProcesses' \subseteq started'
    BY <2>2, <2>3
  <2>6. once'.done => NoneLive' \/ (MainIn({"launched", "reset"})' /\ rebuilds' > 1)
    BY <1>4, <2>1, <2>2, <2>3 DEF MainIn, NoneLive
  <2> QED
    BY <1>4, <2>1, <2>2, <2>3, <2>4, <2>5, <2>6 DEF Tracked, MainIn, NoneLive
<1> QED
  BY <1>7, <1>8, <1>9, <1>10, <1>11, <1>12 DEF MainStep, CommandStep

\* Terminate, in any thread: who waits waits for the subprocess in c.pg, and nothing is
\* alive when it is back.
LEMMA TrackedTerminateStep ==
    ASSUME Inv, NEW t \in Threads, TerminateStep(t) \/ KillTimer(t)
    PROVE  Tracked'
<1> SUFFICES ASSUME rebuilds' <= 1 \/ sent' = <<>> PROVE Tracked'
  BY DEF Tracked
<1> USE CommandAssumption
<1>0. TypeOK /\ "main" \in Threads /\ rebuilds \in Nat
  BY DEF Inv, TypeOK, Threads
<1>1. UNCHANGED <<sent, rebuilds, startup>> /\ \A u \in Threads \ {t} : pc'[u] = pc[u]
  BY <1>0, TerminateMoves
<1>2. /\ LiveProcesses \subseteq {pg}
      /\ IF MainIn({"launched"}) THEN target["main"] = pg ELSE LiveProcesses \subseteq started
      /\ (startup /\ ~MainIn({"launched"})) \/ MainIn({"build", "launch"}) => NoneLive
      /\ once.done => NoneLive \/ (MainIn({"launched", "reset"}) /\ rebuilds > 1)
      /\ \A u \in Threads : pc[u] = "wait" => LiveProcesses \subseteq {target[u]}
      /\ \A u \in Threads : pc[u] \in {"leave", "clear", "exit"} => NoneLive
  BY <1>1 DEF Inv, Tracked
<1>3. CASE KillTimer(t)
  <2>1. UNCHANGED <<pc, pg, once, target>> /\ LiveProcesses' \subseteq LiveProcesses
    BY <1>0, <1>3, KilledLive DEF KillTimer
  <2>2. started' = started
    BY <1>3 DEF KillTimer
  <2> QED
    BY <1>1, <1>2, <2>1, <2>2 DEF Tracked, MainIn, NoneLive
\* With more than one rebuild there are no goroutines.
<1>4. ASSUME TerminateStep(t), rebuilds > 1 PROVE t = "main"
  <2>1. ~Acting
    BY <1>0, <1>1, <1>4 DEF Inv, NoSignals
  <2>2. pc[t] # "off"
    BY <1>0, <1>4, TerminateMoves
  <2> QED
    BY <2>1, <2>2 DEF Acting, Threads
\* No thread is inside Terminate while the main loop is inside exec.Cmd.Start.
<1>4a. ASSUME TerminateStep(t)
       PROVE  ~MainIn({"launched"}) /\ pc'["main"] # "launched"
  <2>1. pc[t] # "off" /\ pc[t] # "launched"
    BY <1>0, <1>4a, TerminateMoves
  <2>2. ~MainIn({"launched"})
    <3>1. CASE t = "main"
      BY <2>1, <3>1 DEF MainIn
    <3>2. CASE t # "main"
      <4>1. Acting
        BY <2>1, <3>2 DEF Acting, Threads
      <4> QED
        BY <1>0, <1>1, <4>1, NotActing DEF Inv, MainIn, Starting
    <3> QED
      BY <3>1, <3>2
  <2>3. pc' = pc \/ \E label \in PCs \ {"launched"} : Goto(t, label)
    BY <1>4a DEF TerminateStep, CheckRunning, EnterOnce, SendTerm, Wait, LeaveOnce, ClearPg,
           AfterTerminate, PCs
  <2> QED
    BY <1>0, <2>2, <2>3 DEF MainIn, Goto, TypeOK
<1>5. ASSUME TerminateStep(t), UNCHANGED <<status, target>>, NoneLive,
             pg' = pg \/ pg' = NoProcess
      PROVE  Tracked'
  BY <1>4a, <1>5, SameLive DEF Tracked, NoneLive, MainIn
<1>6. ASSUME TerminateStep(t), UNCHANGED <<status, pg, started>>, once'.done => once.done,
             t = "main" => ~MainIn({"reset"}),
             \A u \in Threads \ {t} : target'[u] = target[u],
             pc'[t] \in {"do", "signal", "wait"},
             pc'[t] = "wait" => target'[t] = pg
      PROVE  Tracked'
  <2>1. LiveProcesses' = LiveProcesses
    BY <1>6, SameLive
  <2>2. \A u \in Threads : pc'[u] = "wait" => LiveProcesses' \subseteq {target'[u]}
    BY <1>1, <1>2, <1>6, <2>1
  <2>3. \A u \in Threads : pc'[u] \in {"leave", "clear", "exit"} => NoneLive'
    BY <1>1, <1>2, <1>6, <2>1 DEF NoneLive
  <2>4. \/ pc'["main"] = pc["main"]
        \/ t = "main" /\ pc'["main"] \in {"do", "signal", "wait"}
    BY <1>0, <1>1, <1>6
  <2>5. once'.done => NoneLive' \/ (MainIn({"launched", "reset"})' /\ rebuilds' > 1)
    BY <1>1, <1>2, <1>4a, <1>6, <2>1, <2>4 DEF NoneLive, MainIn
  <2>6. startup' \/ MainIn({"build", "launch"})' => NoneLive'
    BY <1>1, <1>2, <1>4a, <1>6, <2>1, <2>4 DEF NoneLive, MainIn
  <2>7. ~MainIn({"launched"})' /\ LiveProcesses' \subseteq started'
    BY <1>2, <1>4a, <1>6, <2>1 DEF MainIn
  <2> QED
    BY <1>2, <1>6, <2>1, <2>2, <2>3, <2>5, <2>6, <2>7 DEF Tracked
<1>7. CASE CheckRunning(t)
  <2>1. UNCHANGED <<status, pg, started, once, target>> /\ pc[t] = "check"
    BY <1>7 DEF CheckRunning, procVars, termVars, At
  <2>2. CASE IsSubprocessRunning
    <3>1. pc'[t] = "do"
      BY <1>0, <1>7, <2>2 DEF CheckRunning, Goto, TypeOK
    <3> QED
      BY <1>6, <1>7, <2>1, <3>1 DEF TerminateStep, MainIn
  <2>3. CASE ~IsSubprocessRunning
    <3>1. NoneLive
      BY <1>2, <1>4a, <1>7, <2>3, NotRunning DEF TerminateStep, NoneLive
    <3> QED
      BY <1>5, <1>7, <2>1, <3>1 DEF TerminateStep
  <2> QED
    BY <2>2, <2>3
<1>8. CASE EnterOnce(t)
  <2>1. UNCHANGED <<status, pg, started, target>> /\ pc[t] = "do"
    BY <1>8 DEF EnterOnce, procVars, At
  <2>2. CASE once.done
    <3>1. NoneLive
      BY <1>2, <1>4, <1>4a, <1>8, <2>1, <2>2 DEF TerminateStep, MainIn
    <3> QED
      BY <1>5, <1>8, <2>1, <3>1 DEF TerminateStep
  <2>3. CASE ~once.done
    <3>1. once' = [once EXCEPT !.owner = t] /\ Goto(t, "signal")
      BY <1>8, <2>3 DEF EnterOnce
    <3>2. once \in [owner : Threads \cup {NoThread}, done : BOOLEAN]
      BY <1>0 DEF TypeOK
    <3>3. ~once'.done
      BY <2>3, <3>1, <3>2
    <3>4. pc'[t] = "signal"
      BY <1>0, <3>1 DEF Goto, TypeOK
    <3> QED
      BY <1>6, <1>8, <2>1, <3>3, <3>4 DEF TerminateStep, MainIn
  <2> QED
    BY <2>2, <2>3
<1>9. CASE SendTerm(t)
  <2>1. UNCHANGED <<status, pg, started, once>> /\ pc[t] = "signal"
    BY <1>9 DEF SendTerm, At
  <2>2. CASE UNCHANGED <<target, pc>>
    BY <1>6, <1>9, <2>1, <2>2 DEF TerminateStep, MainIn
  <2>3. CASE target' = [target EXCEPT ![t] = pg] /\ Goto(t, "wait")
    <3>1. pc'[t] = "wait"
      BY <1>0, <2>3 DEF Goto, TypeOK
    <3>2. target'[t] = pg /\ \A u \in Threads \ {t} : target'[u] = target[u]
      BY <1>0, <2>3 DEF TypeOK
    <3> QED
      BY <1>6, <1>9, <2>1, <3>1, <3>2 DEF TerminateStep, MainIn
  <2> QED
    BY <1>9, <2>2, <2>3 DEF SendTerm
<1>10. CASE Wait(t)
  <2>1. LiveProcesses \subseteq {target[t]} /\ ~Live(target[t])
    BY <1>2, <1>10 DEF Wait, At
  <2>2. NoneLive
    BY <2>1 DEF NoneLive, LiveProcesses
  <2>3. UNCHANGED <<status, pg, target>>
    BY <1>10 DEF Wait, termVars
  <2> QED
    BY <1>5, <1>10, <2>2, <2>3 DEF TerminateStep
<1>11. CASE LeaveOnce(t) \/ ClearPg(t)
  <2>1. NoneLive
    BY <1>2, <1>11 DEF LeaveOnce, ClearPg, At
  <2>2. UNCHANGED <<status, target>> /\ (pg' = pg \/ pg' = NoProcess)
    BY <1>11 DEF LeaveOnce, ClearPg, procVars, termVars
  <2> QED
    BY <1>5, <1>11, <2>1, <2>2 DEF TerminateStep
<1> QED
  BY <1>3, <1>7, <1>8, <1>9, <1>10, <1>11 DEF TerminateStep

\* The signal handler and the subprocesses start nothing.
LEMMA TrackedOtherStep ==
    ASSUME Inv,
           \/ SignalStep
           \/ \E g \in Goroutines : GoroutineEnds(g)
           \/ \E s \in Signals : SendSignal(s)
           \/ \E p \in Processes : SubprocessEnds(p)
           \/ UNCHANGED vars
    PROVE  Tracked'
<1> SUFFICES ASSUME rebuilds' <= 1 \/ sent' = <<>> PROVE Tracked'
  BY DEF Tracked
<1> USE CommandAssumption
<1>0. TypeOK /\ "main" \in Threads /\ "main" \notin Goroutines
  BY DEF Inv, TypeOK, Threads
<1>1. UNCHANGED <<rebuilds, startup, pg, started, once, target>>
  BY DEF SignalStep, TakeSignal, SecondInterrupt, ThirdInterrupt, FirstInterrupt, TermSignal,
         GoroutineEnds, SendSignal, SubprocessEnds, vars, procVars, termVars
<1>2. LiveProcesses' \subseteq LiveProcesses
  <2>1. CASE SecondInterrupt
    BY <1>0, <2>1, KilledLive, SameLive DEF SecondInterrupt
  <2>2. CASE \E p \in Processes : SubprocessEnds(p)
    BY <1>0, <2>2, EndsLive
  <2>3. CASE UNCHANGED status
    BY <2>3, SameLive
  <2> QED
    BY <2>1, <2>2, <2>3 DEF SignalStep, TakeSignal, ThirdInterrupt, FirstInterrupt, TermSignal,
       GoroutineEnds, SendSignal, vars, procVars
<1>3. pc'["main"] = pc["main"] /\ \A t \in Threads : pc'[t] \in {pc[t], "check", "off"}
  BY <1>0 DEF SignalStep, TakeSignal, SecondInterrupt, ThirdInterrupt, FirstInterrupt, TermSignal,
         Spawn, Goto, GoroutineEnds, SendSignal, SubprocessEnds, vars, TypeOK, Threads
<1>4. rebuilds <= 1 \/ sent = <<>>
  <2>1. ASSUME NEW s \in Signals, SendSignal(s), sent' = <<>> PROVE FALSE
    <3>1. sent \in Seq(Signals) /\ sent' = Append(sent, s)
      BY <1>0, <2>1 DEF SendSignal, TypeOK
    <3>2. Len(Append(sent, s)) = Len(sent) + 1 /\ Len(sent) \in Nat
      BY <3>1
    <3>3. Len(sent') = 0
      BY <2>1
    <3> QED
      BY <3>1, <3>2, <3>3
  <2>2. CASE UNCHANGED sent
    BY <1>1, <2>2
  <2> QED
    BY <1>1, <2>1, <2>2 DEF SignalStep, TakeSignal, SecondInterrupt, ThirdInterrupt, FirstInterrupt,
       TermSignal, GoroutineEnds, SubprocessEnds, vars, sigVars
<1> QED
  BY <1>1, <1>2, <1>3, <1>4 DEF Inv, Tracked, MainIn, NoneLive

\* Inv is inductive.
LEMMA InvStep == Inv /\ WaitsForProcess /\ [Next]_vars => Inv'
<1> SUFFICES ASSUME Inv, WaitsForProcess, [Next]_vars PROVE Inv'
  OBVIOUS
<1>1. TypeOK' /\ NoSignals'
  BY TypeStep, NoSignalsStep DEF Inv
<1>2. FirstRun'
  BY FirstRunMainStep, FirstRunTerminateStep, FirstRunOtherStep DEF Next
<1>3. Tracked'
  BY TrackedMainStep, TrackedTerminateStep, TrackedOtherStep DEF Next
<1> QED
  BY <1>1, <1>2, <1>3 DEF Inv

\* Inv always holds.
THEOREM InvHolds == Spec => []Inv
<1>1. Init => Inv /\ WaitsForProcess
  BY InvInit DEF Init, WaitsForProcess
<1>2. Inv /\ WaitsForProcess /\ [Next]_vars => (Inv /\ WaitsForProcess)'
  BY InvStep, WaitsStep DEF Inv
<1> QED
  BY <1>1, <1>2, PTL DEF Spec

\* Up to the first restart the subprocess in c.pg is the only one alive, whatever signals
\* come (NothingLost).
THEOREM NothingLostHolds == Spec => []NothingLost
<1>1. Inv => NothingLost
  BY DEF Inv, Tracked, NothingLost
<1> QED
  BY <1>1, InvHolds, PTL

\* Up to the first restart ibazel ends on a signal only after the subprocess it had started
\* has died (ExitLeavesNothing).
THEOREM ExitLeavesNothingHolds == Spec => []ExitLeavesNothing
<1>1. Inv => ExitLeavesNothing
  BY DEF Inv, FirstRun, ExitLeavesNothing
<1> QED
  BY <1>1, InvHolds, PTL

\* Without signals no two subprocesses are alive, however many restarts there are
\* (OneServer).
THEOREM OneServerHolds == Spec => []OneServer
<1>1. Inv => OneServer
  <2> SUFFICES ASSUME LiveProcesses \subseteq {pg} PROVE Cardinality(LiveProcesses) <= 1
    BY DEF Inv, Tracked, OneServer
  <2>1. LiveProcesses = {} \/ LiveProcesses = {pg}
    OBVIOUS
  <2> QED
    BY <2>1, FS_EmptySet, FS_Singleton
<1> QED
  BY <1>1, InvHolds, PTL

=============================================================================
