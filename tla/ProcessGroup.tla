----------------------------- MODULE ProcessGroup -----------------------------
(***************************************************************************)
(* A tree of processes that is ended in one go (internal/ibazel/           *)
(* process_group), and terminate() of command.go on it.  On Unix the tree  *)
(* is a process group; Wait waits for its root.  On Windows it is a job    *)
(* object: the root is created suspended, put into the job and resumed,    *)
(* and Wait waits on a completion port for the job to become empty.  Every *)
(* system call of the Windows Start may fail, and Start then returns with  *)
(* what it did so far left as it is.  Meanwhile the processes fork and     *)
(* exit.                                                                   *)
(***************************************************************************)
EXTENDS Integers, Sequences, FiniteSets

CONSTANTS
    Processes,   \* the processes of the tree (a bound)
    Root,        \* pg.root
    Platforms    \* a subset of {"unix", "windows"}

ASSUME ProcessGroupAssumption == Root \in Processes /\ Platforms \subseteq {"unix", "windows"}

VARIABLES
    platform,
    pc,        \* the caller: starts the group, waits in terminate(), is back
    done,      \* how many steps of Start succeeded
    forked,    \* the processes there have been
    alive,     \* those there are
    inJob,     \* those of the job or process group
    ignoring,  \* those that do not end on SIGTERM
    termed,    \* those that SIGTERM reached
    zero,      \* JOB_OBJECT_MSG_ACTIVE_PROCESS_ZERO is queued at the port
    timer,     \* terminate's kill timer is armed
    killed     \* history: the timer fired

vars == <<platform, pc, done, forked, alive, inJob, ignoring, termed, zero, timer,
          killed>>

\* Mutant of Steps: the root runs before it is in the job.
StepsResumeEarly ==
    <<"spawn", "createJob", "createPort", "associate", "open", "resume", "assign">>

\* Mutant of Steps: the port is associated with the running job.
StepsAssociateLate ==
    <<"spawn", "createJob", "createPort", "open", "assign", "resume", "associate">>

\* The steps of the Windows Start, in order.
Steps == <<"spawn", "createJob", "createPort", "associate", "open", "assign", "resume">>

Has(step) == \E n \in 1..done : Steps[n] = step
Started == done = Len(Steps)

TypeOK ==
    /\ platform \in Platforms
    /\ pc \in {"starting", "failed", "started", "waiting", "returned"}
    /\ done \in 0..Len(Steps)
    /\ forked \subseteq Processes
    /\ alive \subseteq forked
    /\ inJob \subseteq forked
    /\ ignoring \subseteq Processes
    /\ termed \subseteq Processes
    /\ zero \in BOOLEAN
    /\ timer \in BOOLEAN
    /\ killed \in BOOLEAN

Init ==
    /\ platform \in Platforms
    /\ pc = "starting"
    /\ done = 0
    /\ forked = {} /\ alive = {} /\ inJob = {}
    /\ ignoring = {}
    /\ termed = {}
    /\ zero = FALSE
    /\ timer = FALSE
    /\ killed = FALSE

\* Mutant of Spawn: the process is started and not recorded.
SpawnUnrecorded ==
    /\ UNCHANGED forked
    /\ alive' = {Root}
    /\ ignoring' \in SUBSET {Root}

\* The root is created.  It may be a process that ignores SIGTERM.
Spawn ==
    /\ forked' = {Root}
    /\ alive' = {Root}
    /\ ignoring' \in SUBSET {Root}

\* Unix: fork, setpgid and exec in one call.
StartUnix ==
    /\ platform = "unix" /\ pc = "starting"
    /\ \/ Spawn /\ done' = Len(Steps) /\ inJob' = {Root} /\ pc' = "started"
       \/ pc' = "failed" /\ UNCHANGED <<done, forked, alive, inJob, ignoring>>
    /\ UNCHANGED <<platform, termed, zero, timer, killed>>

\* Windows: the next step of Start succeeds ...
StartStep ==
    /\ platform = "windows" /\ pc = "starting"
    /\ done' = done + 1
    /\ IF Steps[done + 1] = "spawn" THEN Spawn ELSE UNCHANGED <<forked, alive, ignoring>>
    /\ inJob' = IF Steps[done + 1] = "assign" THEN inJob \cup (alive \cap {Root}) ELSE inJob
    /\ pc' = IF done' = Len(Steps) THEN "started" ELSE "starting"
    /\ UNCHANGED <<platform, termed, zero, timer, killed>>

\* ... or fails, and Start returns its error.
StartFails ==
    /\ platform = "windows" /\ pc = "starting"
    /\ pc' = "failed"
    /\ UNCHANGED <<platform, done, forked, alive, inJob, ignoring, termed, zero, timer, killed>>

(***************************************************************************)
(* The processes.                                                          *)
(***************************************************************************)

\* A process runs once the root is resumed.
Runs(p) == p \in alive /\ Has("resume")

\* It ends on SIGTERM, at once or after what its handler does.
Ending(p) == p \in termed \ ignoring

\* The library posts the message when the last process of the job ends.
EmptiedBy(dead) ==
    /\ platform = "windows" /\ Has("associate")
    /\ dead \cap inJob \cap alive # {} /\ inJob \cap alive \subseteq dead

\* A child is where its parent is: none leaves the group, as setsid() would.  It may ignore
\* SIGTERM or not, whatever its parent does, and a parent that handles SIGTERM may still fork.
Fork(p, q) ==
    /\ Runs(p) /\ q \in Processes \ forked
    /\ forked' = forked \cup {q}
    /\ alive' = alive \cup {q}
    /\ inJob' = IF p \in inJob THEN inJob \cup {q} ELSE inJob
    /\ ignoring' \in {ignoring, ignoring \cup {q}}
    /\ UNCHANGED <<platform, pc, done, termed, zero, timer, killed>>

Dies(dead) == alive' = alive \ dead /\ zero' = (zero \/ EmptiedBy(dead))

Exit(p) ==
    /\ Runs(p) /\ Dies({p})
    /\ UNCHANGED <<platform, pc, done, forked, inJob, ignoring, termed, timer, killed>>

(***************************************************************************)
(* terminate().                                                            *)
(***************************************************************************)

\* Signal on Windows, whatever the signal: TerminateJobObject, an error if there is no job.
TerminateJob ==
    IF Has("createJob") THEN Dies(inJob) ELSE UNCHANGED <<alive, zero>>

\* pg.Signal(SIGTERM), and the kill timer.  After a failed Start the caller gets here too,
\* if the process exists (subprocessRunning).
Terminate ==
    /\ pc \in {"started", "failed"} /\ Has("spawn")
    /\ IF platform = "windows" THEN TerminateJob /\ UNCHANGED termed
       ELSE termed' = inJob \cap alive /\ UNCHANGED <<alive, zero>>
    /\ pc' = "waiting"
    /\ timer' = TRUE
    /\ UNCHANGED <<platform, done, forked, inJob, ignoring, killed>>

\* Mutant of KillTimer: SIGKILL goes to the root, not to its group.
KillTimerRoot ==
    /\ timer
    /\ timer' = FALSE /\ killed' = TRUE
    /\ IF platform = "windows" THEN TerminateJob ELSE Dies({Root})
    /\ UNCHANGED <<platform, pc, done, forked, inJob, ignoring, termed>>

\* The timer fires before Wait returns: pg.Signal(SIGKILL).
KillTimer ==
    /\ timer
    /\ timer' = FALSE /\ killed' = TRUE
    /\ IF platform = "windows" THEN TerminateJob ELSE Dies(inJob)
    /\ UNCHANGED <<platform, pc, done, forked, inJob, ignoring, termed>>

\* pg.Wait() returns.  Without a port GetQueuedCompletionStatus fails at once.
WaitReturns ==
    /\ pc = "waiting"
    /\ IF platform = "windows" THEN Has("createPort") => zero ELSE Root \notin alive
    /\ pc' = "returned"
    /\ timer' = FALSE
    /\ UNCHANGED <<platform, done, forked, alive, inJob, ignoring, termed, zero, killed>>

Next ==
    \/ StartUnix \/ StartStep \/ StartFails
    \/ \E p, q \in Processes : Fork(p, q)
    \/ \E p \in Processes : Exit(p)
    \/ Terminate \/ KillTimer \/ WaitReturns

\* Timers fire, Wait returns when it can, and SIGTERM ends who does not ignore it.
Spec ==
    /\ Init /\ [][Next]_vars
    /\ WF_vars(KillTimer) /\ WF_vars(WaitReturns)
    /\ \A p \in Processes : WF_vars(Ending(p) /\ Exit(p))

(***************************************************************************)
(* Properties.                                                             *)
(***************************************************************************)

\* No process is ever outside what terminate() reaches (Start, process_group_windows.go:46):
\* whichever step of Start fails and whenever the processes fork, those that run are in the
\* job or the process group.
NoneEscapes == \A p \in Processes : Runs(p) => p \in inJob

\* process_group.go:15: "this allows you to terminate an entire tree of processes in one
\* go".  When terminate() returns for a group that was started, the tree is gone on Windows
\* and after SIGKILL, whatever it forked meanwhile.  On Unix, when the root ends on the one
\* SIGTERM, only the root is: what ignores SIGTERM or was forked after it lives on
\* (process_group_unix.go:48).
TerminatedIsGone ==
    pc = "returned" /\ Started =>
        IF platform = "windows" \/ killed THEN alive = {} ELSE Root \notin alive

\* terminate() returns if the group was started (command.go:113): the port gets its message
\* whether the tree ended before the call or by it, and on Unix the timer kills a root that
\* ignores SIGTERM.
TerminateReturns == pc = "waiting" /\ Started ~> pc = "returned"

=============================================================================
