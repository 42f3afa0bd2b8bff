----------------------------- MODULE BepOutputs ------------------------------
(***************************************************************************)
(* The output groups of a build event (bep/outputs.go: ReadOutputGroups).  *)
(* Bazel reports the files of a build in its Build Event Protocol file: an *)
(* output group names sets of files, a named set holds files and names     *)
(* further sets, and the sets form a graph that is shared and may be       *)
(* reported in any order.  ReadOutputGroups reads the whole stream, then   *)
(* walks the sets of every selected group with an explicit stack.  The     *)
(* event a notified program gets carries the outputs only when all of this *)
(* worked (command/notify_command.go: readOutputGroups).                   *)
(***************************************************************************)
EXTENDS Integers, FiniteSets

CONSTANTS
    SetIds,     \* the ids of named sets
    Artifacts,  \* the artifacts a build may report: a path with its metadata
    PathOf,     \* the path of every artifact
    Groups,     \* the output groups a build may report
    Selected,   \* those of --notify_output_groups
    NoSet,      \* no named set of that id was reported
    NoGroup,    \* no group is being read
    MaxEvents   \* bound on the events of one stream

ASSUME BepAssumption ==
    /\ Selected \subseteq Groups
    /\ NoGroup \notin Groups
    /\ NoSet \notin [files : SUBSET Artifacts, fileSets : SUBSET SetIds]
    /\ \A files \in SUBSET Artifacts : files # NoSet
    /\ MaxEvents \in Nat

NamedSet == [files : SUBSET Artifacts, fileSets : SUBSET SetIds]

VARIABLES
    phase,       \* "build", "read" the stream, "expand" its groups; then "done", or
                 \* "failed" with an error, or "unset": there was nothing to read
    namedSets,   \* the sets read so far
    roots,       \* per selected group: the sets it names
    inline,      \* per selected group: the files it holds itself
    seenGroups,  \* the selected groups reported
    group,       \* the group being expanded
    stack,       \* expandNamedSets: the sets still to visit; a set, for the order is free
    seenSets,    \* expandNamedSets: the sets visited
    found,       \* expandNamedSets: the files of those
    outputs,     \* per group read: its artifacts
    spoiled,     \* history: the stream did not parse, or said a selected group is incomplete
    events       \* events read so far, for MaxEvents only

streamVars == <<namedSets, roots, inline, seenGroups, spoiled, events>>
walkVars   == <<group, stack, seenSets, found>>
vars       == <<phase, streamVars, walkVars, outputs>>

TypeOK ==
    /\ phase \in {"build", "read", "expand", "done", "failed", "unset"}
    /\ namedSets \in [SetIds -> NamedSet \cup {NoSet}]
    /\ roots \in [Selected -> SUBSET SetIds]
    /\ inline \in [Selected -> SUBSET Artifacts]
    /\ seenGroups \subseteq Selected
    /\ group \in Selected \cup {NoGroup}
    /\ stack \subseteq SetIds
    /\ seenSets \subseteq SetIds
    /\ found \subseteq Artifacts
    /\ outputs \in [Selected -> (SUBSET Artifacts) \cup {NoSet}]
    /\ spoiled \in BOOLEAN
    /\ events \in 0..MaxEvents

Init ==
    /\ phase = "build"
    /\ namedSets = [id \in SetIds |-> NoSet]
    /\ roots = [g \in Selected |-> {}]
    /\ inline = [g \in Selected |-> {}]
    /\ seenGroups = {}
    /\ group = NoGroup /\ stack = {} /\ seenSets = {} /\ found = {}
    /\ outputs = [g \in Selected |-> NoSet]
    /\ spoiled = FALSE
    /\ events = 0

\* Norun fails, no group is selected or there is no temporary file for the events: no outputs.
NoEvents ==
    /\ phase = "build"
    /\ phase' = "unset"
    /\ UNCHANGED <<streamVars, walkVars, outputs>>

\* The build succeeds and its event file opens.
OpenEvents ==
    /\ phase = "build" /\ Selected # {}
    /\ phase' = "read"
    /\ UNCHANGED <<streamVars, walkVars, outputs>>

(***************************************************************************)
(* Reading.                                                                *)
(***************************************************************************)

AnEvent == phase = "read" /\ events < MaxEvents /\ events' = events + 1

NamedSetEvent(id, set) ==
    /\ AnEvent
    /\ namedSets' = [namedSets EXCEPT ![id] = set]
    /\ UNCHANGED <<phase, roots, inline, seenGroups, spoiled, walkVars, outputs>>

\* Mutant of CompletedEvent: groups nobody selected are kept too.
CompletedEventOfAny(g, fileSets, inlineFiles) ==
    /\ AnEvent
    /\ seenGroups' = seenGroups \cup {g}
    /\ roots' = [roots EXCEPT ![g] = @ \cup fileSets]
    /\ inline' = [inline EXCEPT ![g] = @ \cup inlineFiles]
    /\ UNCHANGED <<phase, namedSets, spoiled, walkVars, outputs>>

\* One output group of a targetComplete event.
CompletedEvent(g, fileSets, inlineFiles) ==
    /\ AnEvent
    /\ IF g \in Selected
       THEN /\ seenGroups' = seenGroups \cup {g}
            /\ roots' = [roots EXCEPT ![g] = @ \cup fileSets]
            /\ inline' = [inline EXCEPT ![g] = @ \cup inlineFiles]
       ELSE UNCHANGED <<seenGroups, roots, inline>>
    /\ UNCHANGED <<phase, namedSets, spoiled, walkVars, outputs>>

\* The stream breaks off inside an event, or a selected group is marked incomplete.
StreamFails ==
    /\ phase = "read"
    /\ phase' = "failed"
    /\ spoiled' = TRUE
    /\ UNCHANGED <<namedSets, roots, inline, seenGroups, events, walkVars, outputs>>

\* io.EOF, wherever it comes between two events.
EndOfStream ==
    /\ phase = "read"
    /\ phase' = "expand"
    /\ UNCHANGED <<streamVars, walkVars, outputs>>

(***************************************************************************)
(* Expanding, group after group in any order.                              *)
(***************************************************************************)

Fail == phase' = "failed" /\ UNCHANGED <<streamVars, walkVars, outputs>>

BeginGroup(g) ==
    /\ phase = "expand" /\ group = NoGroup /\ outputs[g] = NoSet
    /\ IF g \notin seenGroups
       THEN Fail
       ELSE /\ group' = g
            /\ stack' = roots[g]
            /\ seenSets' = {}
            /\ found' = {}
            /\ UNCHANGED <<phase, streamVars, outputs>>

\* Mutant of VisitSet: the set is not remembered.
VisitSetAgain(id) ==
    /\ phase = "expand" /\ id \in stack
    /\ IF namedSets[id] = NoSet
       THEN Fail
       ELSE /\ stack' = (stack \ {id}) \cup namedSets[id].fileSets
            /\ found' = found \cup namedSets[id].files
            /\ UNCHANGED <<phase, streamVars, group, seenSets, outputs>>

\* Mutant of VisitSet: a set that is seen again is an error.
VisitSetOnce(id) ==
    /\ phase = "expand" /\ id \in stack
    /\ IF id \in seenSets \/ namedSets[id] = NoSet
       THEN Fail
       ELSE /\ seenSets' = seenSets \cup {id}
            /\ stack' = (stack \ {id}) \cup namedSets[id].fileSets
            /\ found' = found \cup namedSets[id].files
            /\ UNCHANGED <<phase, streamVars, group, outputs>>

\* Mutant of VisitSet: a set that is missing is skipped.
VisitSetOrSkip(id) ==
    /\ phase = "expand" /\ id \in stack
    /\ seenSets' = seenSets \cup {id}
    /\ IF id \in seenSets \/ namedSets[id] = NoSet
       THEN stack' = stack \ {id} /\ UNCHANGED found
       ELSE /\ stack' = (stack \ {id}) \cup namedSets[id].fileSets
            /\ found' = found \cup namedSets[id].files
    /\ UNCHANGED <<phase, streamVars, group, outputs>>

\* One turn of expandNamedSets's loop.
VisitSet(id) ==
    /\ phase = "expand" /\ id \in stack
    /\ \/ /\ id \in seenSets
          /\ stack' = stack \ {id}
          /\ UNCHANGED <<phase, streamVars, group, seenSets, found, outputs>>
       \/ /\ id \notin seenSets /\ namedSets[id] = NoSet
          /\ Fail
       \/ /\ id \notin seenSets /\ namedSets[id] # NoSet
          /\ seenSets' = seenSets \cup {id}
          /\ stack' = (stack \ {id}) \cup namedSets[id].fileSets
          /\ found' = found \cup namedSets[id].files
          /\ UNCHANGED <<phase, streamVars, group, outputs>>

\* deduplicate: two artifacts of one path must be one.
Conflict(files) == \E a, b \in files : a # b /\ PathOf[a] = PathOf[b]

EndGroup ==
    /\ phase = "expand" /\ group # NoGroup /\ stack = {}
    /\ IF Conflict(found \cup inline[group])
       THEN Fail
       ELSE /\ outputs' = [outputs EXCEPT ![group] = found \cup inline[group]]
            /\ group' = NoGroup
            /\ UNCHANGED <<phase, streamVars, stack, seenSets, found>>

AllRead ==
    /\ phase = "expand" /\ group = NoGroup
    /\ \A g \in Selected : outputs[g] # NoSet
    /\ phase' = "done"
    /\ UNCHANGED <<streamVars, walkVars, outputs>>

Expand ==
    \/ \E g \in Selected : BeginGroup(g)
    \/ \E id \in SetIds : VisitSet(id)
    \/ EndGroup
    \/ AllRead

Read ==
    \/ \E id \in SetIds, set \in NamedSet : NamedSetEvent(id, set)
    \/ \E g \in Groups, fileSets \in SUBSET SetIds, inlineFiles \in SUBSET Artifacts :
           CompletedEvent(g, fileSets, inlineFiles)
    \/ StreamFails
    \/ EndOfStream

Next == NoEvents \/ OpenEvents \/ Read \/ Expand

\* The loops run on; the file is what Bazel made it.
Spec == Init /\ [][Next]_vars /\ WF_vars(Expand)

(***************************************************************************)
(* Properties.                                                             *)
(***************************************************************************)

\* No set in S names a set outside S.
ClosedSet(S) == \A id \in S : namedSets[id] # NoSet => namedSets[id].fileSets \subseteq S

\* The sets that group g names, directly or through others: the least closed set.
SetsOf(g) ==
    {id \in SetIds : \A S \in SUBSET SetIds : roots[g] \subseteq S /\ ClosedSet(S) => id \in S}

\* The artifacts of group g as the stream reports them.
Reported(g) ==
    inline[g] \cup UNION {namedSets[id].files : id \in {s \in SetsOf(g) : namedSets[s] # NoSet}}

\* Group g can be reported in full.
Sound(g) ==
    /\ g \in seenGroups
    /\ \A id \in SetsOf(g) : namedSets[id] # NoSet
    /\ ~Conflict(Reported(g))

\* Outputs that an event calls complete are all the artifacts of every selected group and
\* nothing else: every set reachable in the graph was reported and read, however it is
\* shared or cyclic, and no two artifacts have one path (README.md:116, outputs.go:142).
CompleteOutputs ==
    phase = "done" => \A g \in Selected : Sound(g) /\ outputs[g] = Reported(g)

\* And only a broken stream, a missing set, an unreported group or a conflict withholds
\* them (outputs.go:126-137).
FailsOnlyWhenItMust ==
    phase = "failed" => spoiled \/ \E g \in Selected : ~Sound(g)

\* The walk ends, also on sets that name each other in a circle (outputs.go:150).
WalkEnds == phase = "expand" ~> phase \in {"done", "failed"}

=============================================================================
