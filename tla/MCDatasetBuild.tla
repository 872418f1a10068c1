---------------------------- MODULE MCDatasetBuild ----------------------------
(* Two symbols that share one native worker, two directories, and three        *)
(* commands of which the last, if there are three, restores.                   *)
EXTENDS DatasetBuild

MCOrder == <<"m1", "m2">>

MCNext == (runs < MaxRuns - 1 /\ StartBuild) \/ StartRestore \/ Step \/ Dies

MCSpec == BuildInit /\ [][MCNext]_allBuildVars /\ WF_allBuildVars(Step)
===============================================================================
