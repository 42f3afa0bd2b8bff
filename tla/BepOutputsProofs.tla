-------------------------- MODULE BepOutputsProofs ---------------------------
(***************************************************************************)
(* Proofs about BepOutputs, for any number of sets, artifacts, groups and  *)
(* events: outputs called complete are complete, and they are withheld     *)
(* only for a reason.  The heart is the invariant of the walk: the sets    *)
(* visited or still to visit lie in every closed set that holds the roots, *)
(* and those visited name no others.                                       *)
(***************************************************************************)
EXTENDS BepOutputs, TLAPS

\* The loop invariant of expandNamedSets.
Walk ==
    /\ group \in seenGroups
    /\ roots[group] \subseteq seenSets \cup stack
    /\ \A id \in seenSets : namedSets[id] # NoSet /\ namedSets[id].fileSets \subseteq seenSets \cup stack
    /\ \A S \in SUBSET SetIds : roots[group] \subseteq S /\ ClosedSet(S) => seenSets \cup stack \subseteq S
    /\ found = UNION {namedSets[id].files : id \in seenSets}

\* The outputs so far are right.
Right == \A g \in Selected : outputs[g] # NoSet => Sound(g) /\ outputs[g] = Reported(g)

\* No group has been begun.
Fresh == group = NoGroup /\ \A g \in Selected : outputs[g] = NoSet

Inv ==
    /\ TypeOK
    /\ phase \in {"build", "read"} => Fresh
    /\ group = NoGroup => stack = {}
    /\ phase = "expand" /\ group # NoGroup => Walk
    /\ phase \in {"expand", "done"} => Right
    /\ phase = "done" => \A g \in Selected : outputs[g] # NoSet
    /\ FailsOnlyWhenItMust

\* When the stack is empty the sets visited are those the group names, and the files found
\* with the inline ones are what it reports.
LEMMA WalkDone ==
    ASSUME TypeOK, Walk, stack = {}
    PROVE  /\ SetsOf(group) = seenSets
           /\ \A id \in SetsOf(group) : namedSets[id] # NoSet
           /\ Reported(group) = found \cup inline[group]
<1>1. seenSets \in SUBSET SetIds /\ roots[group] \subseteq seenSets /\ ClosedSet(seenSets)
  BY DEF Walk, TypeOK, ClosedSet
<1>2. SetsOf(group) \subseteq seenSets
  BY <1>1 DEF SetsOf
<1>3. seenSets \subseteq SetsOf(group)
  BY <1>1 DEF SetsOf, Walk
<1>4. SetsOf(group) = seenSets
  BY <1>2, <1>3
<1>5. \A id \in SetsOf(group) : namedSets[id] # NoSet
  BY <1>4 DEF Walk
<1>6. {s \in SetsOf(group) : namedSets[s] # NoSet} = seenSets
  BY <1>4, <1>5
<1>7. Reported(group) = found \cup inline[group]
  BY <1>6 DEF Reported, Walk
<1> QED
  BY <1>4, <1>5, <1>7

\* A set on the stack is one the group names.
LEMMA OnTheStack ==
    ASSUME TypeOK, Walk, NEW id \in stack
    PROVE  id \in SetsOf(group)
  BY DEF SetsOf, Walk, TypeOK

\* What is read does not change while the groups are expanded.
LEMMA StreamUnchanged ==
    ASSUME UNCHANGED streamVars
    PROVE  /\ \A S : ClosedSet(S)' <=> ClosedSet(S)
           /\ \A g : Sound(g)' <=> Sound(g)
           /\ \A g : Reported(g)' = Reported(g)
<1> USE DEF streamVars
<1>1. \A S : ClosedSet(S)' <=> ClosedSet(S)
  BY DEF ClosedSet
<1>2. \A g : SetsOf(g)' = SetsOf(g)
  BY <1>1 DEF SetsOf
<1>3. \A g : Reported(g)' = Reported(g)
  BY <1>2 DEF Reported
<1>4. \A g : Sound(g)' <=> Sound(g)
  BY <1>2, <1>3 DEF Sound, Conflict
<1> QED
  BY <1>1, <1>3, <1>4

LEMMA InitInv == Init => Inv
<1> SUFFICES ASSUME Init PROVE Inv
  OBVIOUS
<1>1. /\ phase = "build" /\ events = 0 /\ spoiled = FALSE /\ group = NoGroup
      /\ seenGroups = {} /\ stack = {} /\ seenSets = {} /\ found = {}
  BY DEF Init
<1>2. namedSets \in [SetIds -> NamedSet \cup {NoSet}]
  BY DEF Init
<1>3. roots \in [Selected -> SUBSET SetIds] /\ inline \in [Selected -> SUBSET Artifacts]
  BY DEF Init
<1>4. outputs \in [Selected -> (SUBSET Artifacts) \cup {NoSet}]
  BY DEF Init
<1>5. TypeOK
  <2>1. events \in 0..MaxEvents
    BY <1>1, BepAssumption
  <2> QED
    BY <1>1, <1>2, <1>3, <1>4, <2>1 DEF TypeOK
<1>6. Fresh
  BY DEF Init, Fresh
<1> QED
  BY <1>1, <1>5, <1>6 DEF Inv, FailsOnlyWhenItMust

\* Steps that read: nothing is expanded yet.
LEMMA ReadKeepsInv ==
    ASSUME Inv, NoEvents \/ OpenEvents \/ Read
    PROVE  Inv'
<1> USE DEF Inv, TypeOK
<1>1. CASE NoEvents
  BY <1>1 DEF NoEvents, streamVars, walkVars, FailsOnlyWhenItMust
<1>2. CASE OpenEvents
  BY <1>2 DEF OpenEvents, streamVars, walkVars, Fresh, FailsOnlyWhenItMust
<1>3. ASSUME NEW id \in SetIds, NEW set \in NamedSet, NamedSetEvent(id, set)
      PROVE  Inv'
  <2>1. /\ phase = "read" /\ events < MaxEvents /\ events' = events + 1
        /\ namedSets' = [namedSets EXCEPT ![id] = set]
        /\ UNCHANGED <<phase, roots, inline, seenGroups, spoiled, walkVars, outputs>>
    BY <1>3 DEF NamedSetEvent, AnEvent
  <2>2. events' \in 0..MaxEvents
    BY <2>1, BepAssumption
  <2>3. TypeOK'
    BY <2>1, <2>2 DEF walkVars
  <2> QED
    BY <2>1, <2>3 DEF walkVars, Fresh, FailsOnlyWhenItMust
<1>4. ASSUME NEW g \in Groups, NEW fileSets \in SUBSET SetIds, NEW inlineFiles \in SUBSET Artifacts,
             CompletedEvent(g, fileSets, inlineFiles)
      PROVE  Inv'
  <2>1. /\ phase = "read" /\ events < MaxEvents /\ events' = events + 1
        /\ UNCHANGED <<phase, namedSets, spoiled, walkVars, outputs>>
    BY <1>4 DEF CompletedEvent, AnEvent
  <2>2. events' \in 0..MaxEvents
    BY <2>1, BepAssumption
  <2>3. /\ seenGroups' \subseteq Selected
        /\ roots' \in [Selected -> SUBSET SetIds]
        /\ inline' \in [Selected -> SUBSET Artifacts]
    <3>1. CASE g \in Selected
      BY <1>4, <3>1 DEF CompletedEvent
    <3>2. CASE g \notin Selected
      BY <1>4, <3>2 DEF CompletedEvent
    <3> QED
      BY <3>1, <3>2
  <2>4. TypeOK'
    BY <2>1, <2>2, <2>3 DEF walkVars
  <2> QED
    BY <2>1, <2>4 DEF walkVars, Fresh, FailsOnlyWhenItMust
<1>5. CASE StreamFails
  BY <1>5 DEF StreamFails, walkVars, FailsOnlyWhenItMust
<1>6. CASE EndOfStream
  <2>1. phase = "read" /\ phase' = "expand" /\ UNCHANGED <<streamVars, walkVars, outputs>>
    BY <1>6 DEF EndOfStream
  <2>2. TypeOK'
    BY <2>1 DEF streamVars, walkVars
  <2>3. group' = NoGroup /\ Right'
    BY <2>1 DEF walkVars, Fresh, Right
  <2> QED
    BY <2>1, <2>2, <2>3 DEF FailsOnlyWhenItMust, walkVars
<1> QED
  BY <1>1, <1>2, <1>3, <1>4, <1>5, <1>6 DEF Read

\* A step that gives up does so for a reason.
LEMMA FailKeepsInv ==
    ASSUME Inv, Fail, \E g \in Selected : ~Sound(g)
    PROVE  Inv'
<1>1. phase' = "failed" /\ UNCHANGED <<streamVars, walkVars, outputs>>
  BY DEF Fail
<1>2. TypeOK'
  BY <1>1 DEF Inv, TypeOK, streamVars, walkVars
<1>3. FailsOnlyWhenItMust'
  BY <1>1, StreamUnchanged DEF FailsOnlyWhenItMust
<1> QED
  BY <1>1, <1>2, <1>3 DEF Inv, walkVars

LEMMA BeginGroupKeepsInv ==
    ASSUME Inv, NEW g \in Selected, BeginGroup(g)
    PROVE  Inv'
<1>1. CASE g \notin seenGroups
  BY <1>1, FailKeepsInv DEF BeginGroup, Sound
<1>2. CASE g \in seenGroups
  <2>1. /\ phase = "expand" /\ phase' = "expand"
        /\ group' = g /\ stack' = roots[g] /\ seenSets' = {} /\ found' = {}
        /\ UNCHANGED <<streamVars, outputs>>
    BY <1>2 DEF BeginGroup
  <2>2. TypeOK'
    BY <2>1 DEF Inv, TypeOK, streamVars
  <2>3. Walk'
    BY <1>2, <2>1 DEF Walk, streamVars
  <2>4. Right'
    BY <2>1, StreamUnchanged DEF Inv, Right
  <2> QED
    BY <2>1, <2>2, <2>3, <2>4, BepAssumption DEF Inv, FailsOnlyWhenItMust
<1> QED
  BY <1>1, <1>2

LEMMA VisitSetKeepsInv ==
    ASSUME Inv, NEW id \in SetIds, VisitSet(id)
    PROVE  Inv'
<1> DEFINE set == namedSets[id]
<1>0. TypeOK /\ Walk /\ phase = "expand" /\ id \in stack /\ Right /\ group \in Selected
  BY BepAssumption DEF VisitSet, Inv, TypeOK
<1>1. CASE id \in seenSets
  <2>1. stack' = stack \ {id} /\ UNCHANGED <<phase, streamVars, group, seenSets, found, outputs>>
    BY <1>1 DEF VisitSet
  <2>2. TypeOK'
    BY <1>0, <2>1 DEF TypeOK, streamVars
  <2>3. seenSets' \cup stack' = seenSets \cup stack
    BY <1>1, <2>1
  <2>4. Walk'
    BY <1>0, <2>1, <2>3, StreamUnchanged DEF Walk, streamVars
  <2>5. Right'
    BY <1>0, <2>1, StreamUnchanged DEF Right
  <2> QED
    BY <1>0, <2>1, <2>2, <2>4, <2>5 DEF Inv, FailsOnlyWhenItMust
<1>2. CASE id \notin seenSets /\ set = NoSet
  <2>1. ~Sound(group)
    BY <1>0, <1>2, OnTheStack DEF Sound
  <2> QED
    BY <1>0, <1>2, <2>1, FailKeepsInv DEF VisitSet
<1>3. CASE id \notin seenSets /\ set # NoSet
  <2>1. /\ seenSets' = seenSets \cup {id}
        /\ stack' = (stack \ {id}) \cup set.fileSets
        /\ found' = found \cup set.files
        /\ UNCHANGED <<phase, streamVars, group, outputs>>
    BY <1>3 DEF VisitSet
  <2>2. set \in NamedSet
    BY <1>0, <1>3 DEF TypeOK
  <2>3. TypeOK'
    BY <1>0, <2>1, <2>2 DEF TypeOK, streamVars, NamedSet
  <2>4. seenSets' \cup stack' = (seenSets \cup stack) \cup set.fileSets
    BY <1>0, <2>1
  <2>5. \A S \in SUBSET SetIds : roots[group] \subseteq S /\ ClosedSet(S) => seenSets' \cup stack' \subseteq S
    <3> SUFFICES ASSUME NEW S \in SUBSET SetIds, roots[group] \subseteq S, ClosedSet(S)
                 PROVE  seenSets' \cup stack' \subseteq S
      OBVIOUS
    <3>1. seenSets \cup stack \subseteq S
      BY <1>0 DEF Walk
    <3>2. set.fileSets \subseteq S
      BY <1>0, <1>3, <3>1 DEF ClosedSet
    <3> QED
      BY <2>4, <3>1, <3>2
  <2>6. \A s \in seenSets' : namedSets[s] # NoSet /\ namedSets[s].fileSets \subseteq seenSets' \cup stack'
    BY <1>0, <1>3, <2>1, <2>4 DEF Walk
  <2>7. found' = UNION {namedSets[s].files : s \in seenSets'}
    BY <1>0, <2>1 DEF Walk
  <2>8. Walk'
    BY <1>0, <2>1, <2>4, <2>5, <2>6, <2>7, StreamUnchanged DEF Walk, streamVars
  <2>9. Right'
    BY <1>0, <2>1, StreamUnchanged DEF Right
  <2> QED
    BY <1>0, <2>1, <2>3, <2>8, <2>9 DEF Inv, FailsOnlyWhenItMust
<1> QED
  BY <1>1, <1>2, <1>3

LEMMA EndGroupKeepsInv ==
    ASSUME Inv, EndGroup
    PROVE  Inv'
<1>0. TypeOK /\ Walk /\ phase = "expand" /\ stack = {} /\ Right /\ group \in Selected
  BY DEF EndGroup, Inv, TypeOK
<1>1. /\ \A id \in SetsOf(group) : namedSets[id] # NoSet
      /\ Reported(group) = found \cup inline[group]
  BY <1>0, WalkDone
<1>2. CASE Conflict(found \cup inline[group])
  <2>1. ~Sound(group)
    BY <1>1, <1>2 DEF Sound
  <2> QED
    BY <1>0, <1>2, <2>1, FailKeepsInv DEF EndGroup
<1>3. CASE ~Conflict(found \cup inline[group])
  <2>1. /\ outputs' = [outputs EXCEPT ![group] = found \cup inline[group]]
        /\ group' = NoGroup
        /\ UNCHANGED <<phase, streamVars, stack, seenSets, found>>
    BY <1>3 DEF EndGroup
  <2>2. Sound(group)
    BY <1>0, <1>1, <1>3 DEF Sound, Walk
  <2>3. TypeOK'
    BY <1>0, <2>1 DEF TypeOK, streamVars
  <2>4. Right'
    <3> SUFFICES ASSUME NEW g \in Selected, outputs'[g] # NoSet
                 PROVE  Sound(g)' /\ outputs'[g] = Reported(g)'
      BY DEF Right
    <3>1. CASE g = group
      BY <1>0, <1>1, <2>1, <2>2, <3>1, StreamUnchanged DEF TypeOK
    <3>2. CASE g # group
      BY <1>0, <2>1, <3>2, StreamUnchanged DEF Right, TypeOK
    <3> QED
      BY <3>1, <3>2
  <2> QED
    BY <1>0, <2>1, <2>3, <2>4 DEF Inv, FailsOnlyWhenItMust
<1> QED
  BY <1>2, <1>3

LEMMA AllReadKeepsInv ==
    ASSUME Inv, AllRead
    PROVE  Inv'
<1>1. /\ phase = "expand" /\ phase' = "done"
      /\ \A g \in Selected : outputs[g] # NoSet
      /\ UNCHANGED <<streamVars, walkVars, outputs>>
  BY DEF AllRead
<1>2. TypeOK'
  BY <1>1 DEF Inv, TypeOK, streamVars, walkVars
<1>3. Right'
  BY <1>1, StreamUnchanged DEF Inv, Right
<1> QED
  BY <1>1, <1>2, <1>3 DEF Inv, FailsOnlyWhenItMust, walkVars

LEMMA StutterKeepsInv ==
    ASSUME Inv, UNCHANGED vars
    PROVE  Inv'
<1>1. UNCHANGED <<phase, streamVars, walkVars, outputs>>
  BY DEF vars
<1>2. TypeOK' /\ (Fresh' <=> Fresh)
  BY <1>1 DEF Inv, TypeOK, Fresh, streamVars, walkVars
<1>3. Walk' <=> Walk
  BY <1>1, StreamUnchanged DEF Walk, streamVars, walkVars
<1>4. Right' <=> Right
  BY <1>1, StreamUnchanged DEF Right
<1>5. FailsOnlyWhenItMust' <=> FailsOnlyWhenItMust
  BY <1>1, StreamUnchanged DEF FailsOnlyWhenItMust, streamVars
<1> QED
  BY <1>1, <1>2, <1>3, <1>4, <1>5 DEF Inv, walkVars

LEMMA StepInv == Inv /\ [Next]_vars => Inv'
<1> SUFFICES ASSUME Inv, [Next]_vars PROVE Inv'
  OBVIOUS
<1>1. CASE NoEvents \/ OpenEvents \/ Read
  BY <1>1, ReadKeepsInv
<1>2. ASSUME NEW g \in Selected, BeginGroup(g) PROVE Inv'
  BY <1>2, BeginGroupKeepsInv
<1>3. ASSUME NEW id \in SetIds, VisitSet(id) PROVE Inv'
  BY <1>3, VisitSetKeepsInv
<1>4. CASE EndGroup
  BY <1>4, EndGroupKeepsInv
<1>5. CASE AllRead
  BY <1>5, AllReadKeepsInv
<1>6. CASE UNCHANGED vars
  BY <1>6, StutterKeepsInv
<1> QED
  BY <1>1, <1>2, <1>3, <1>4, <1>5, <1>6 DEF Next, Expand

LEMMA SpecInv == Spec => []Inv
  BY InitInv, StepInv, PTL DEF Spec

\* The variables keep their types.
THEOREM TypeCorrect == Spec => []TypeOK
<1>1. Inv => TypeOK
  BY DEF Inv
<1> QED
  BY <1>1, SpecInv, PTL

\* Outputs called complete are every artifact reachable from the selected groups, and no other.
THEOREM OutputsAreComplete == Spec => []CompleteOutputs
<1>1. Inv => CompleteOutputs
  BY DEF Inv, Right, CompleteOutputs
<1> QED
  BY <1>1, SpecInv, PTL

\* They are withheld only for a broken stream, a missing set or group, or a conflict.
THEOREM FailuresAreReal == Spec => []FailsOnlyWhenItMust
<1>1. Inv => FailsOnlyWhenItMust
  BY DEF Inv
<1> QED
  BY <1>1, SpecInv, PTL

=============================================================================
