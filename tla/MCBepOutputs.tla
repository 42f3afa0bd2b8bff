---------------------------- MODULE MCBepOutputs -----------------------------
(***************************************************************************)
(* An instance of BepOutputs for TLC: "old" and "new" are two versions of  *)
(* one artifact, whose metadata differ; "doc" is another artifact.         *)
(***************************************************************************)
EXTENDS BepOutputs, TLC

MCPathOf == [a \in Artifacts |-> IF a = "doc" THEN "doc.txt" ELSE "lib.o"]

=============================================================================
