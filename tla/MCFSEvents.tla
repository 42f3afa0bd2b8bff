------------------------------ MODULE MCFSEvents ------------------------------
(***************************************************************************)
(* An instance of FSEvents for TLC: two files in two directories of one    *)
(* workspace, which is one top-level tree, and a second tree, ext.         *)
(***************************************************************************)
EXTENDS FSEvents

MCNames == {"w", "lib", "gen", "a", "ext"}
MCFiles == {"lib", "gen"}
MCDirOf == [f \in MCFiles |-> IF f = "lib" THEN <<"w", "lib">> ELSE <<"w", "gen", "a">>]

\* One directory, a directory and one below it, two in one tree, another tree, the root, none.
MCWantedSets ==
    {{<<"w">>}, {<<"w">>, <<"w", "lib">>}, {<<"w", "lib">>, <<"w", "gen", "a">>},
     {<<"w", "lib">>, <<"ext">>}, {<<>>}, {}}

MCFlagSets == {{"ItemIsFile", "ItemModified"}, {"ItemIsFile", "ItemXattrMod"},
               {"ItemIsDir", "ItemCreated"}}

=============================================================================
