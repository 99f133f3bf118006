---------------------------- MODULE CounterBuild ----------------------------
(***************************************************************************)
(* build_counter fills its arrays (Counter) while the columns of the same  *)
(* stage wait for them (CounterAwait).                                     *)
(***************************************************************************)
EXTENDS Counter, CounterAwait

buildVars == <<vars, fillVars>>

BuildInit == Init /\ FillInit

(* The worker of the counter's task sets one pointer and its string. *)
Fill(w) == wpc[w] = "build" /\ SetDigits /\ UNCHANGED vars

(* A slip for comparison: ready is set while the arrays are being filled.  *)
StepUnfinished(w) == Worker(w) /\ UNCHANGED fillVars

(* The arrays are complete when the lowest magnitude is. *)
Step(w) ==
    /\ Worker(w)
    /\ wpc[w] = "build" /\ built' => mag = -1
    /\ UNCHANGED fillVars

Environment ==
    /\ (\E w \in Workers : SpuriousWakeup(w)) \/ BacklogCleared \/ Finished
    /\ UNCHANGED fillVars

BuildNext == (\E w \in Workers : Fill(w) \/ Step(w)) \/ Environment

(* As CounterAwait!FairSpec; the loop that fills the arrays runs on. *)
BuildSpec ==
    /\ BuildInit /\ [][BuildNext]_buildVars
    /\ WF_buildVars(BacklogCleared /\ UNCHANGED fillVars)
    /\ \A w \in Workers :
        /\ WF_buildVars(Fill(w))
        /\ SF_buildVars(Step(w))
        /\ SF_buildVars(Cancelled(w) /\ UNCHANGED fillVars)

-----------------------------------------------------------------------------
(* A column goes on from counter_await only when every pointer is set: the *)
(* flag it reads without the lock stands for all of the arrays.            *)
WholeWhenUsed ==
    \A w \in Workers : wpc[w] = "use" /\ task[w] \in Columns
                            => mag = -1 /\ DOMAIN pointers = 0..upto
=============================================================================
