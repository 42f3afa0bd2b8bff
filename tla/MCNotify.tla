------------------------------ MODULE MCNotify -------------------------------
(***************************************************************************)
(* Instances of Notify for TLC.  The program app serves the targets web    *)
(* and api; web is declared beside it, api in lib/BUILD, which loads a     *)
(* macro of tools.  Which of the two depends on lib, by a glob() or        *)
(* through the rule core of lib/BUILD, changes as files come and go.      *)
(***************************************************************************)
EXTENDS Notify, TLC

CONSTANTS main, lib, BUILD, libBUILD, defs, rootDir, libDir, toolsDir, app, web, api, core

MCSourceFiles == {main, lib}
MCBuildFiles  == {BUILD, libBUILD, defs}
MCDirs        == {rootDir, libDir, toolsDir}
MCDirOf       == (main :> rootDir) @@ (BUILD :> rootDir) @@ (defs :> toolsDir)
                     @@ (lib :> libDir) @@ (libBUILD :> libDir)
MCRules       == {app, web, api, core}
MCDeclaredIn  == (app :> BUILD) @@ (web :> BUILD) @@ (api :> libBUILD) @@ (core :> libBUILD)
MCGlobs       == (app :> {}) @@ (web :> {}) @@ (api :> {lib}) @@ (core :> {})
MCLoads       == (app :> {}) @@ (web :> {}) @@ (api :> {defs}) @@ (core :> {defs})

Graph(ofApp, ofWeb, ofApi) ==
    (app :> ofApp) @@ (web :> ofWeb) @@ (api :> ofApi) @@ (core :> {lib})

\* lib is a source of web, of api, of both or of neither, directly or through core.
MCRuleGraphs == {Graph({web, api}, {main}, {main, lib}),
                 Graph({web, api}, {main, core}, {main}),
                 Graph({web, api}, {main, core}, {main, lib}),
                 Graph({web, api}, {main}, {main})}

\* app comes to serve api too.
MCGrowingRuleGraphs == {Graph({web}, {main, core}, {main}), Graph({web, api}, {main, core}, {main})}

=============================================================================
