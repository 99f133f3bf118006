----------------------------- MODULE StagedRun -----------------------------
(***************************************************************************)
(* What mysql_seed_generate (generate/generate.h) wants from the pool when *)
(* nothing fails: all tasks of a stage run, each once and in any order;    *)
(* only then does the next stage begin; after the last stage the run       *)
(* succeeds.  Threads, queues, locks and signals are absent.               *)
(***************************************************************************)
EXTENDS Integers, Sequences

CONSTANTS Stages,   \* the stages, in order
          Tasks     \* stage -> its tasks, a sequence

VARIABLES stage,    \* the stage begun last
          done,     \* the tasks that have run
          result    \* "none" or "success"

vars == <<stage, done, result>>

TasksOf(i) == {Tasks[Stages[i]][j] : j \in 1..Len(Tasks[Stages[i]])}

StageDone == TasksOf(stage) \subseteq done

Init ==
    /\ stage = 1
    /\ done = {}
    /\ result = "none"

Run(t) ==
    /\ t \in TasksOf(stage) \ done
    /\ done' = done \cup {t}
    /\ UNCHANGED <<stage, result>>

Advance ==
    /\ StageDone /\ stage < Len(Stages)
    /\ stage' = stage + 1
    /\ UNCHANGED <<done, result>>

Succeed ==
    /\ StageDone /\ stage = Len(Stages) /\ result = "none"
    /\ result' = "success"
    /\ UNCHANGED <<stage, done>>

Next == (\E t \in TasksOf(stage) : Run(t)) \/ Advance \/ Succeed

Spec == Init /\ [][Next]_vars

FairSpec == Spec /\ WF_vars(Next)
=============================================================================
