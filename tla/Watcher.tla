------------------------------- MODULE Watcher -------------------------------
(***************************************************************************)
(* What the main loop may expect of a file watcher, whichever library is   *)
(* under it (common.Watcher, fswatcher/common/common.go).  UpdateAll says  *)
(* which files are wanted; a change of a file that is covered is pending   *)
(* until the loop receives an event for it.  A watcher that restarts its   *)
(* stream to update it (FSEvents) covers nothing in between and may lose   *)
(* what is pending; one that does not (FSNotify) keeps all of it.          *)
(***************************************************************************)
CONSTANTS
    Files,
    Restarts   \* UpdateAll stops and starts a stream: a Boolean

VARIABLES
    wanted,    \* the files of the directories last given to UpdateAll
    covered,   \* the files whose changes are seen
    pending    \* the files with a modifying event not yet received

vars == <<wanted, covered, pending>>

TypeOK == wanted \subseteq Files /\ covered \subseteq Files /\ pending \subseteq Files

Init == wanted = {} /\ covered = {} /\ pending = {}

\* UpdateAll in place: what is covered and still wanted stays covered.  A directory may
\* fail to be added.
Update ==
    /\ ~Restarts
    /\ wanted' \subseteq Files
    /\ covered \cap wanted' \subseteq covered' /\ covered' \subseteq wanted'
    /\ UNCHANGED pending

Stop ==
    /\ Restarts
    /\ wanted' \subseteq Files
    /\ covered' = {}
    /\ pending' \subseteq pending

Start ==
    /\ Restarts
    /\ wanted \subseteq covered' /\ covered' \subseteq Files
    /\ UNCHANGED <<wanted, pending>>

\* A modification of f.
Change(f) ==
    /\ pending' = IF f \in covered THEN pending \cup {f} ELSE pending
    /\ UNCHANGED <<wanted, covered>>

\* The loop receives an event for f.
Deliver(f) == pending' = pending \ {f} /\ UNCHANGED <<wanted, covered>>

\* The library stops watching a directory that is deleted.
Lapse == covered' \subseteq covered /\ UNCHANGED <<wanted, pending>>

Next == Update \/ Stop \/ Start \/ Lapse \/ \E f \in Files : Change(f) \/ Deliver(f)

Spec == Init /\ [][Next]_vars

=============================================================================
