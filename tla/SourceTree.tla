----------------------------- MODULE SourceTree -----------------------------
(***************************************************************************)
(* The world ibazel watches: the files of a Bazel workspace, the           *)
(* directories that hold them and the dependency graph of the requested    *)
(* targets.  None of it is ibazel's code.  The module is the environment   *)
(* of IBazel and models what ibazel.go asks of Bazel and of the file       *)
(* system: `bazel cquery deps(set(T))` and `bazel query buildfiles(...)`   *)
(* read `graph`; os.Stat and EvalSymlinks read `exists`; a build reads     *)
(* the version of every file.                                              *)
(***************************************************************************)
EXTENDS Integers, FiniteSets

CONSTANTS
    SourceFiles,  \* files a target can depend on
    BuildFiles,   \* BUILD and .bzl files
    Dirs,         \* directories
    DirOf,        \* the directory of every file
    Rules,        \* the labels of rules
    Targets,      \* those ibazel was given
    DeclaredIn,   \* per rule: the BUILD file it is declared in (its location)
    Loads,        \* per rule: the .bzl files its BUILD file loads
    Globs,        \* per rule: the files whose coming or going changes what its glob() finds
    RuleGraphs,   \* what every rule may depend on, as the workspace evolves
    MaxEdits,     \* bound on the edits of one behaviour
    Edits,        \* the kinds of edits made: a subset of EditKinds
    NoFile        \* no path at all (the Change{Kind: "graph"} of the catch-up build)

Files     == SourceFiles \cup BuildFiles
EditKinds == {"write", "touch", "vanish", "dirVanish"}

ASSUME SourceTreeAssumption ==
    /\ SourceFiles \cap BuildFiles = {}
    /\ DirOf \in [Files -> Dirs]
    /\ Targets \subseteq Rules
    /\ DeclaredIn \in [Rules -> BuildFiles]
    /\ Loads \in [Rules -> SUBSET BuildFiles]
    /\ Globs \in [Rules -> SUBSET Files]
    /\ Rules \cap SourceFiles = {}
    /\ RuleGraphs \subseteq [Rules -> SUBSET (Rules \cup SourceFiles)]
    /\ MaxEdits \in Nat
    /\ Edits \subseteq EditKinds
    /\ NoFile \notin Files

VARIABLES
    deps,     \* what every rule depends on now: rules and source files
    version,  \* how often the contents of a file changed
    exists,   \* the files present on disk
    dirs,     \* the directories present on disk
    edits     \* edits made so far, for MaxEdits only

treeVars == <<deps, version, exists, dirs, edits>>

\* The rules reached from rule r in the rule graph d, r among them.
Reached == [d \in RuleGraphs |-> [r \in Rules |->
    {s \in Rules : \A S \in SUBSET Rules :
        r \in S /\ (\A q \in S : d[q] \cap Rules \subseteq S) => s \in S}]]

\* The BUILD files that say what rule r depends on.
Declares(r) == {DeclaredIn[r]} \cup Loads[r]

\* The files of rule r and of all it depends on.
FilesUnder == [d \in RuleGraphs |-> [r \in Rules |->
    UNION {Declares(s) \cup (d[s] \cap SourceFiles) : s \in Reached[d][r]}]]

\* The files the targets depend on: sources and BUILD files.
GraphOf(d) == UNION {FilesUnder[d][t] : t \in Targets}
graph == GraphOf(deps)

TreeTypeOK ==
    /\ deps \in RuleGraphs
    /\ version \in [Files -> Nat]
    /\ exists \subseteq Files
    /\ dirs \subseteq Dirs
    /\ edits \in 0..MaxEdits

TreeInit ==
    /\ deps \in RuleGraphs
    /\ version = [f \in Files |-> 0]
    /\ exists = Files
    /\ dirs = Dirs
    /\ edits = 0

AnEdit(kind) == kind \in Edits /\ edits < MaxEdits /\ edits' = edits + 1

NewContents(f) == version' = [version EXCEPT ![f] = @ + 1]

\* glob() of rule r after f came or went: a source is found if it is there; a BUILD file
\* makes its directory a package of its own, and glob() does not look into other packages.
GlobAfter(r, f) ==
    /\ f \in Globs[r] /\ exists' # exists
    /\ \E found \in SUBSET (IF f \in SourceFiles THEN {f} ELSE Globs[r] \cap SourceFiles) :
        deps'[r] = IF f \in exists' \cap SourceFiles \/ f \in BuildFiles \ exists'
                   THEN deps[r] \cup (found \cap exists') ELSE deps[r] \ found

\* What the rules depend on after f was written, came or went: other dependencies of those
\* that f declares, or what a glob() finds now.
DepsAfter(f) ==
    /\ deps' \in RuleGraphs
    /\ \A r \in Rules : deps'[r] # deps[r] => f \in Declares(r) \cap exists' \/ GlobAfter(r, f)

\* An editor saves a file in place.
TreeWrite(f) ==
    /\ AnEdit("write")
    /\ f \in exists
    /\ NewContents(f)
    /\ UNCHANGED <<exists, dirs>>
    /\ DepsAfter(f)

\* A file is read or its attributes change: an event, and no new contents.
TreeTouch(f) ==
    /\ AnEdit("touch")
    /\ f \in exists
    /\ UNCHANGED <<deps, version, exists, dirs>>

\* A file is deleted or renamed away, for instance the first half of a save
\* that renames the old file and creates a new one.
TreeRemove(f) ==
    /\ AnEdit("vanish")
    /\ f \in exists
    /\ exists' = exists \ {f}
    /\ NewContents(f)
    /\ DepsAfter(f)
    /\ UNCHANGED dirs

\* A missing file is created, with its directory where that is missing too.
TreeCreate(f) ==
    /\ AnEdit("vanish")
    /\ f \notin exists
    /\ exists' = exists \cup {f}
    /\ dirs' = dirs \cup {DirOf[f]}
    /\ NewContents(f)
    /\ DepsAfter(f)

\* An emptied directory is removed, as a branch switch or a `rm -r` does.
TreeRemoveDir(d) ==
    /\ AnEdit("dirVanish")
    /\ d \in dirs
    /\ \A f \in exists : DirOf[f] # d
    /\ dirs' = dirs \ {d}
    /\ UNCHANGED <<deps, version, exists>>

=============================================================================
