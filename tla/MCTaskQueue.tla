------------------------------ MODULE MCTaskQueue ------------------------------
(* Two tasks, one of them more urgent. *)
EXTENDS TaskQueue

CONSTANTS t1, t2

MCPriority == t1 :> 1 @@ t2 :> 2

OneBefore == <<t1>>
=============================================================================
