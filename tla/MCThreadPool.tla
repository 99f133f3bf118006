---------------------------- MODULE MCThreadPool ----------------------------
(***************************************************************************)
(* Instances of ThreadPool for TLC: two stages, as in generate mode, or    *)
(* one, as in execute mode.                                                *)
(***************************************************************************)
EXTENDS ThreadPool

CONSTANTS a1, a2, b1, b2

TwoStages == <<"stage1", "stage2">>
OneStage  == <<"stage1">>

TwoTasks == "stage1" :> <<a1, a2>> @@ "stage2" :> <<b1, b2>>

MCLists == {"backlog", "active", "complete"} \cup ToSet(Stages)
=============================================================================
