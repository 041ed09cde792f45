------------------------------ MODULE MCTaskDag ------------------------------
(* A plan of two nodes, of which the second, more important one needs the   *)
(* first, and a third, most important one that the agent may add with any   *)
(* dependencies.                                                            *)
EXTENDS TaskDag, TLC

MCNodes == 1 .. 3
MCDeps == 1 :> {} @@ 2 :> {1}
MCPriority == 1 :> 6 @@ 2 :> 5 @@ 3 :> 1
=============================================================================
