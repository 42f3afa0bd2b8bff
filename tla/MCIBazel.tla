------------------------------ MODULE MCIBazel ------------------------------
(***************************************************************************)
(* Instances of IBazel for TLC.  The target app lives in the directory     *)
(* root and is built from main; as the root BUILD file evolves it also     *)
(* depends on the rule helper of tools/BUILD, which is built from lib/lib, *)
(* or has a glob() that finds lib/lib.                                     *)
(***************************************************************************)
EXTENDS IBazel, TLC

CONSTANTS main, lib, BUILD, toolsBUILD, rootDir, libDir, toolsDir, app, helper

MCSourceFiles == {main, lib}
MCBuildFiles  == {BUILD, toolsBUILD}
MCDirs        == {rootDir, libDir, toolsDir}
MCDirOf       == (main :> rootDir) @@ (BUILD :> rootDir) @@ (lib :> libDir) @@ (toolsBUILD :> toolsDir)
MCRules       == {app, helper}
MCDeclaredIn  == (app :> BUILD) @@ (helper :> toolsBUILD)
MCLoads       == [r \in MCRules |-> {}]
MCGlobs       == [r \in MCRules |-> IF r = app THEN {lib} ELSE {}]

Graph(ofApp) == (app :> ofApp) @@ (helper :> {lib})
MCRuleGraphs == {Graph({main}), Graph({main, helper}), Graph({main, lib})}

\* The rules list their sources.
MCListingRuleGraphs == {Graph({main}), Graph({main, helper})}

=============================================================================
