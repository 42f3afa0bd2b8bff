------------------------- MODULE ProcessGroupProofs -------------------------
(***************************************************************************)
(* Proofs about process groups and job objects of any number of processes. *)
(***************************************************************************)
EXTENDS ProcessGroup, TLAPS

(***************************************************************************)
(* The steps of Start.                                                     *)
(***************************************************************************)

\* A step is done when as many steps are as its place says.
LEMMA HasSteps ==
    ASSUME done \in 0..7
    PROVE  /\ Len(Steps) = 7
           /\ Steps[1] = "spawn" /\ Steps[6] = "assign"
           /\ \A n \in 1..7 : /\ Steps[n] = "spawn" => n = 1
                              /\ Steps[n] = "assign" => n = 6
           /\ Has("spawn") <=> done >= 1
           /\ Has("createPort") <=> done >= 3
           /\ Has("associate") <=> done >= 4
           /\ Has("resume") <=> done = 7
<1>1. /\ Len(Steps) = 7
      /\ Steps[1] = "spawn" /\ Steps[2] = "createJob" /\ Steps[3] = "createPort"
      /\ Steps[4] = "associate" /\ Steps[5] = "open" /\ Steps[6] = "assign" /\ Steps[7] = "resume"
  BY DEF Steps
<1>2. \A n \in 1..7 : n \in {1, 2, 3, 4, 5, 6, 7}
  OBVIOUS
<1>3. \A n \in 1..7 : /\ Steps[n] = "spawn" <=> n = 1
                      /\ Steps[n] = "createPort" <=> n = 3
                      /\ Steps[n] = "associate" <=> n = 4
                      /\ Steps[n] = "assign" <=> n = 6
                      /\ Steps[n] = "resume" <=> n = 7
  BY <1>1, <1>2
<1>4. \A n \in 1..done : n \in 1..7
  OBVIOUS
<1> HIDE DEF Steps
<1> QED
  BY <1>1, <1>3, <1>4 DEF Has

(***************************************************************************)
(* The inductive invariant.                                                *)
(***************************************************************************)

\* Where Start is, and when the job has members.
StartInv ==
    /\ pc = "starting" => done < 7
    /\ pc \in {"starting", "failed"} /\ platform = "unix" => done = 0
    /\ pc = "started" => done = 7
    /\ done >= 1 => Root \in forked
    /\ inJob # {} => done >= 6

\* Until the root is in the job it is the only process; from then on all are in the job.
JobInv ==
    /\ done < 6 => alive \subseteq {Root}
    /\ done >= 6 => alive \subseteq inJob

\* The message at the port means that no process is left.
ZeroInv == zero => done >= 6 /\ alive = {}

\* The timer is armed for a process that exists, and on Unix SIGKILL leaves none.
KilledInv ==
    /\ timer => pc = "waiting" /\ done >= 1
    /\ killed => pc \in {"waiting", "returned"} /\ (platform = "unix" => alive = {})
    /\ pc \in {"waiting", "returned"} /\ platform = "unix" => done = 7

\* When terminate() is back, the tree or its root is gone and stays so.
GoneInv ==
    pc = "returned" /\ done = 7 => IF platform = "windows" THEN alive = {} ELSE Root \notin alive

Inv == TypeOK /\ StartInv /\ JobInv /\ ZeroInv /\ KilledInv /\ GoneInv

\* It holds before Start.
LEMMA InvInit == Init => Inv
<1> SUFFICES ASSUME Init PROVE Inv
  OBVIOUS
<1>1. 0 \in 0..Len(Steps)
  BY DEF Steps
<1>2. TypeOK
  BY <1>1, ProcessGroupAssumption DEF Init, TypeOK
<1>3. done = 0 /\ pc = "starting" /\ inJob = {} /\ alive = {} /\ ~zero /\ ~timer /\ ~killed
  BY DEF Init
<1> QED
  BY <1>2, <1>3 DEF Inv, StartInv, JobInv, ZeroInv, KilledInv, GoneInv

\* Ending processes keeps the invariant, whoever ends them.
LEMMA DiesStep ==
    ASSUME Inv, NEW dead, Dies(dead), UNCHANGED <<platform, done, forked, inJob, ignoring>>,
           pc' = pc \/ pc' = "waiting", termed' \subseteq Processes, timer' \in BOOLEAN, killed' \in BOOLEAN,
           KilledInv'
    PROVE  Inv'
<1>1. done \in 0..7 /\ Len(Steps) = 7
  BY HasSteps DEF Inv, TypeOK, Steps
<1>2. alive' \subseteq alive
  BY DEF Dies
<1>3. zero' \in BOOLEAN
  BY DEF Dies, EmptiedBy, Inv, TypeOK
<1>4. TypeOK'
  BY <1>2, <1>3 DEF Inv, TypeOK
<1>5. StartInv' /\ JobInv' /\ GoneInv'
  BY <1>2 DEF Inv, StartInv, JobInv, GoneInv
<1>6. ZeroInv'
  <2>1. CASE zero
    BY <1>2, <2>1 DEF Inv, ZeroInv
  <2>2. CASE EmptiedBy(dead)
    <3>1. done >= 6 /\ inJob \cap alive \subseteq dead
      BY <2>2 DEF EmptiedBy, Inv, StartInv
    <3>2. alive \subseteq inJob
      BY <3>1 DEF Inv, JobInv
    <3> QED
      BY <3>1, <3>2 DEF Dies, ZeroInv
  <2> QED
    BY <2>1, <2>2 DEF Dies, ZeroInv
<1> QED
  BY <1>4, <1>5, <1>6 DEF Inv

\* TerminateJobObject keeps it, with a job or without.
LEMMA TerminateJobStep ==
    ASSUME Inv, TerminateJob, UNCHANGED <<platform, done, forked, inJob, ignoring>>,
           pc' = pc \/ pc' = "waiting", termed' \subseteq Processes, timer' \in BOOLEAN, killed' \in BOOLEAN,
           KilledInv'
    PROVE  Inv'
<1>1. CASE UNCHANGED <<alive, zero>>
  BY <1>1 DEF Inv, TypeOK, StartInv, JobInv, ZeroInv, KilledInv, GoneInv
<1>2. CASE Dies(inJob)
  BY <1>2, DiesStep
<1> QED
  BY <1>1, <1>2 DEF TerminateJob

\* So do the timer and the call of terminate().
LEMMA KilledStep ==
    ASSUME Inv, KillTimer \/ Terminate \/ \E p \in Processes : Exit(p)
    PROVE  KilledInv'
<1>1. done \in 0..7 /\ platform \in {"unix", "windows"}
  BY ProcessGroupAssumption DEF Inv, TypeOK, Steps
<1>2. CASE KillTimer
  <2>1. pc = "waiting" /\ pc' = pc /\ timer' = FALSE /\ UNCHANGED <<platform, done>>
    BY <1>2 DEF KillTimer, Inv, KilledInv
  <2>2. ASSUME platform = "unix" PROVE alive' = {}
    <3>1. done = 7 /\ alive \subseteq inJob
      BY <2>1, <2>2 DEF Inv, KilledInv, JobInv
    <3> QED
      BY <1>2, <2>2, <3>1 DEF KillTimer, Dies
  <2> QED
    BY <2>1, <2>2 DEF Inv, KilledInv
<1>3. CASE Terminate
  <2>1. done >= 1 /\ ~killed /\ pc \in {"started", "failed"} /\ pc' = "waiting"
        /\ UNCHANGED <<platform, done, killed>>
    BY <1>1, <1>3, HasSteps DEF Terminate, Inv, KilledInv
  <2>2. platform = "unix" => done = 7
    BY <2>1 DEF Inv, StartInv
  <2> QED
    BY <2>1, <2>2 DEF KilledInv
<1>4. ASSUME NEW p \in Processes, Exit(p) PROVE KilledInv'
  <2>1. alive' \subseteq alive /\ UNCHANGED <<platform, pc, done, timer, killed>>
    BY <1>4 DEF Exit, Dies
  <2> QED
    BY <2>1 DEF Inv, KilledInv
<1> QED
  BY <1>2, <1>3, <1>4

\* Every step keeps the invariant.
LEMMA InvStep == Inv /\ [Next]_vars => Inv'
<1> SUFFICES ASSUME Inv, [Next]_vars PROVE Inv'
  OBVIOUS
<1>a. Len(Steps) = 7
  BY DEF Steps
<1>b. TypeOK /\ done \in 0..7 /\ pc \in {"starting", "failed", "started", "waiting", "returned"}
  BY <1>a DEF Inv, TypeOK
<1>1. CASE StartUnix
  <2>1. CASE Spawn /\ done' = Len(Steps) /\ inJob' = {Root} /\ pc' = "started"
    <3>1. ~zero
      BY <1>1 DEF StartUnix, Inv, StartInv, ZeroInv
    <3>2. done' = 7
      BY <1>a, <2>1
    <3>3. TypeOK'
      BY <1>1, <1>a, <1>b, <2>1, ProcessGroupAssumption DEF StartUnix, Spawn, TypeOK
    <3> QED
      BY <1>1, <2>1, <3>1, <3>2, <3>3 DEF StartUnix, Spawn, Inv, StartInv, JobInv, ZeroInv, KilledInv, GoneInv
  <2>2. CASE pc' = "failed" /\ UNCHANGED <<done, forked, alive, inJob, ignoring>>
    BY <1>1, <1>b, <2>2 DEF StartUnix, Inv, TypeOK, StartInv, JobInv, ZeroInv, KilledInv, GoneInv
  <2> QED
    BY <1>1, <2>1, <2>2 DEF StartUnix
<1>2. CASE StartStep
  <2>0. /\ done < 7 /\ done' = done + 1 /\ done + 1 \in 1..7
        /\ platform' = platform /\ platform = "windows" /\ zero' = zero
        /\ pc' = IF done' = 7 THEN "started" ELSE "starting"
    BY <1>2, <1>a, <1>b DEF StartStep, Inv, StartInv
  <2>1a. KilledInv'
    BY <1>2, <2>0 DEF StartStep, Inv, KilledInv
  <2>1. CASE done = 0
    <3>1. Spawn /\ inJob' = inJob
      BY <1>2, <1>b, <2>0, <2>1, HasSteps DEF StartStep
    <3>2. TypeOK'
      BY <1>2, <1>a, <1>b, <2>0, <2>1, <3>1, ProcessGroupAssumption DEF StartStep, Spawn, TypeOK, Inv, StartInv
    <3> QED
      BY <2>0, <2>1a, <2>1, <3>1, <3>2 DEF Spawn, Inv, StartInv, JobInv, ZeroInv, GoneInv
  <2>2. CASE done = 5
    <3>1. UNCHANGED <<forked, alive, ignoring>> /\ inJob' = inJob \cup (alive \cap {Root})
      BY <1>2, <1>b, <2>0, <2>2, HasSteps DEF StartStep
    <3>2. TypeOK'
      BY <1>2, <1>a, <1>b, <2>0, <2>2, <3>1 DEF StartStep, TypeOK
    <3>3. alive' \subseteq inJob'
      BY <2>2, <3>1 DEF Inv, JobInv
    <3> QED
      BY <2>0, <2>1a, <2>2, <3>1, <3>2, <3>3 DEF Inv, StartInv, JobInv, ZeroInv, GoneInv
  <2>3. CASE done \notin {0, 5}
    <3>1. done + 1 \notin {1, 6}
      BY <1>b, <2>3
    <3>2. Steps[done + 1] # "spawn" /\ Steps[done + 1] # "assign"
      BY <1>b, <2>0, <3>1, HasSteps
    <3>3. UNCHANGED <<forked, alive, ignoring, inJob>>
      BY <1>2, <3>2 DEF StartStep
    <3>4. TypeOK'
      BY <1>2, <1>a, <1>b, <2>0, <3>3 DEF StartStep, TypeOK
    <3>5. done >= 6 <=> done' >= 6
      BY <1>b, <2>0, <2>3
    <3> QED
      BY <1>b, <2>0, <2>1a, <2>3, <3>3, <3>4, <3>5 DEF Inv, StartInv, JobInv, ZeroInv, GoneInv
  <2> QED
    BY <2>1, <2>2, <2>3
<1>3. CASE StartFails
  BY <1>3, <1>b DEF StartFails, Inv, TypeOK, StartInv, JobInv, ZeroInv, KilledInv, GoneInv
<1>4. ASSUME NEW p \in Processes, NEW q \in Processes, Fork(p, q) PROVE Inv'
  <2>1. done = 7 /\ p \in alive /\ q \notin forked
    BY <1>4, <1>b, HasSteps DEF Fork, Runs
  <2>2. p \in inJob /\ Root \in forked /\ ~zero
    BY <2>1 DEF Inv, JobInv, StartInv, ZeroInv
  <2>3. /\ alive' = alive \cup {q} /\ inJob' = inJob \cup {q} /\ forked' = forked \cup {q}
        /\ ignoring' \subseteq ignoring \cup {q}
        /\ UNCHANGED <<platform, pc, done, termed, zero, timer, killed>>
    BY <1>4, <2>2 DEF Fork
  <2>4. TypeOK'
    BY <1>b, <2>3 DEF TypeOK
  <2>5. GoneInv'
    BY <2>1, <2>2, <2>3 DEF Inv, GoneInv
  <2>6. KilledInv'
    BY <2>1, <2>3 DEF Inv, KilledInv
  <2> QED
    BY <2>1, <2>2, <2>3, <2>4, <2>5, <2>6 DEF Inv, StartInv, JobInv, ZeroInv
<1>5. ASSUME NEW p \in Processes, Exit(p) PROVE Inv'
  BY <1>5, <1>b, DiesStep, KilledStep DEF Exit, TypeOK
<1>6. CASE Terminate
  <2>1. CASE platform = "windows"
    BY <1>6, <1>b, <2>1, TerminateJobStep, KilledStep DEF Terminate, TypeOK
  <2>2. CASE platform # "windows"
    BY <1>6, <1>b, <2>2, KilledStep DEF Terminate, Inv, TypeOK, StartInv, JobInv, ZeroInv, GoneInv
  <2> QED
    BY <2>1, <2>2
<1>7. CASE KillTimer
  <2>1. CASE platform = "windows"
    BY <1>7, <1>b, <2>1, TerminateJobStep, KilledStep DEF KillTimer, TypeOK
  <2>2. CASE platform # "windows"
    BY <1>7, <1>b, <2>2, DiesStep, KilledStep DEF KillTimer, TypeOK
  <2> QED
    BY <2>1, <2>2
<1>8. CASE WaitReturns
  <2>1. GoneInv'
    <3>1. CASE platform = "windows"
      BY <1>8, <1>b, <3>1, HasSteps DEF WaitReturns, Inv, ZeroInv, KilledInv, GoneInv
    <3>2. CASE platform # "windows"
      BY <1>8, <3>2 DEF WaitReturns, GoneInv
    <3> QED
      BY <3>1, <3>2
  <2> QED
    BY <1>8, <2>1 DEF WaitReturns, Inv, TypeOK, StartInv, JobInv, ZeroInv, KilledInv
<1>9. CASE UNCHANGED vars
  BY <1>9 DEF vars, Inv, TypeOK, StartInv, JobInv, ZeroInv, KilledInv, GoneInv
<1> QED
  BY <1>1, <1>2, <1>3, <1>4, <1>5, <1>6, <1>7, <1>8, <1>9 DEF Next

(***************************************************************************)
(* Theorems.                                                               *)
(***************************************************************************)

\* Inv always holds.
LEMMA InvHolds == Spec => []Inv
<1> QED
  BY InvInit, InvStep, PTL DEF Spec

\* The variables keep their types.
THEOREM TypeCorrect == Spec => []TypeOK
<1>1. Inv => TypeOK
  BY DEF Inv
<1> QED
  BY <1>1, InvHolds, PTL

\* Every process that runs is in the job or the group, whichever step of Start fails and
\* whenever the processes fork (NoneEscapes, process_group_windows.go:46).
THEOREM NoneEscapesHolds == Spec => []NoneEscapes
<1>1. Inv => NoneEscapes
  <2> SUFFICES ASSUME Inv, NEW p \in Processes, Runs(p) PROVE p \in inJob
    BY DEF NoneEscapes
  <2>1. done \in 0..7
    BY DEF Inv, TypeOK, Steps
  <2>2. done = 7 /\ p \in alive
    BY <2>1, HasSteps DEF Runs
  <2> QED
    BY <2>2 DEF Inv, JobInv
<1> QED
  BY <1>1, InvHolds, PTL

\* When terminate() returns for a group that was started, the tree is gone on Windows and
\* after SIGKILL, and its root in any case (TerminatedIsGone, process_group.go:15).
THEOREM TerminatedIsGoneHolds == Spec => []TerminatedIsGone
<1>1. Inv => TerminatedIsGone
  <2>1. Len(Steps) = 7
    BY DEF Steps
  <2>2. Inv => platform \in {"unix", "windows"}
    BY ProcessGroupAssumption DEF Inv, TypeOK
  <2> QED
    BY <2>1, <2>2 DEF Inv, KilledInv, GoneInv, TerminatedIsGone, Started
<1> QED
  BY <1>1, InvHolds, PTL

=============================================================================
