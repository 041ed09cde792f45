------------------------------ MODULE MCTeam103 ------------------------------
(* Two runs of one team.  In run a, two jobs of the first wave share a file, *)
(* a third one is free, and a fourth one depends on the first.  The job of   *)
(* run b depends on itself, and has the title, the file and the worker id of *)
(* a job of run a.                                                           *)
EXTENDS Team103, TLC

MCRun == "a1" :> "a" @@ "a2" :> "a" @@ "a3" :> "a" @@ "a4" :> "a" @@ "b1" :> "b"
MCTitle == "a1" :> "one" @@ "a2" :> "two" @@ "a3" :> "three" @@ "a4" :> "four" @@ "b1" :> "one"
MCNeeds == "a1" :> {} @@ "a2" :> {} @@ "a3" :> {} @@ "a4" :> {"one", "other"} @@ "b1" :> {"one"}
MCFiles == "a1" :> {"f"} @@ "a2" :> {"f", "g"} @@ "a3" :> {} @@ "a4" :> {"g"} @@ "b1" :> {"f"}
MCWorker == "a1" :> 0 @@ "a2" :> 1 @@ "a3" :> 2 @@ "a4" :> 3 @@ "b1" :> 0
=============================================================================
