---------------------------- MODULE CounterAwait ----------------------------
(***************************************************************************)
(* The one dependency between tasks of the same stage: columns of unique   *)
(* integers (and of names built from them) wait in counter_await until     *)
(* build_counter, another task of the first stage, has finished.  A        *)
(* waiting task occupies its worker.  The order in which generate.h links  *)
(* the tasks ("ensure Counter gets assigned first task if needed") is what *)
(* keeps the workers from all waiting for a task nobody can take.          *)
(*                                                                         *)
(* The pool is reduced to a queue of tasks taken in order (ThreadPool has  *)
(* the rest); after a failure its supervisor cancels every worker.         *)
(***************************************************************************)
EXTENDS Integers, Sequences, FiniteSets

CONSTANTS Workers,     \* the crew
          Columns,     \* columns whose build function calls counter_await
          Others,      \* loaders, and columns that do not
          MayFail,     \* the allocation of the counter may fail
          NONE         \* no task, no owner

ASSUME AwaitAssumption ==
    /\ IsFiniteSet(Columns \cup Others)
    /\ Columns \cap Others = {}
    /\ {"counter", NONE} \cap (Columns \cup Others) = {}
    /\ MayFail \in BOOLEAN

VARIABLES
    backlog,     \* tasks not taken yet, in order
    wpc,         \* worker -> where it is
    task,        \* worker -> its task
    ready,       \* counter->ready
    built,       \* the arrays behind counter->pointers are complete
    processing,  \* the owner of counter->processing
    done,        \* tasks that returned
    failed       \* a task has failed

vars == <<backlog, wpc, task, ready, built, processing, done, failed>>

(* All orders of the tasks after the first: it depends on the arguments    *)
(* which table or database a column belongs to.                            *)
Orders(S) ==
    {s \in [1..Cardinality(S) -> S] : \A i, j \in DOMAIN s : s[i] = s[j] => i = j}

(* A slip for comparison: the counter is linked behind the columns. *)
CounterLast(s) == s \o <<"counter">>

(* The first stage: the counter, then loaders and columns. *)
FirstStage(s) == <<"counter">> \o s

Init ==
    /\ \E s \in Orders(Columns \cup Others) : backlog = FirstStage(s)
    /\ wpc = [w \in Workers |-> "pop"] /\ task = [w \in Workers |-> NONE]
    /\ ready = FALSE /\ built = FALSE
    /\ processing = NONE
    /\ done = {} /\ failed = FALSE

Goto(w, l) == wpc' = [wpc EXCEPT ![w] = l]

Pop(w) ==
    /\ wpc[w] = "pop" /\ backlog # <<>>
    /\ task' = [task EXCEPT ![w] = Head(backlog)]
    /\ backlog' = Tail(backlog)
    /\ Goto(w, IF Head(backlog) = "counter" THEN "build_lock"
               ELSE IF Head(backlog) \in Columns THEN "check" ELSE "use")
    /\ UNCHANGED <<ready, built, processing, done, failed>>

(* The column or loader uses what it needs and returns. *)
Return(w) ==
    /\ wpc[w] = "use"
    /\ done' = done \cup {task[w]}
    /\ task' = [task EXCEPT ![w] = NONE]
    /\ Goto(w, "pop")
    /\ UNCHANGED <<backlog, ready, built, processing, failed>>

-----------------------------------------------------------------------------
(* counter_await: look without the lock, then lock, look again, and wait.  *)
counter_await(w) ==
    /\ \/ wpc[w] = "check" /\ Goto(w, IF ready THEN "use" ELSE "lock") /\ UNCHANGED processing
       \/ wpc[w] = "lock" /\ processing = NONE /\ processing' = w /\ Goto(w, "test")
       \/ wpc[w] = "test" /\ processing' = NONE /\ Goto(w, IF ready THEN "use" ELSE "wait")
    /\ UNCHANGED <<backlog, task, ready, built, done, failed>>

(* A slip for comparison: any wakeup ends the wait, "if" for "while". *)
WakeupEndsWait(w) ==
    /\ wpc[w] = "wait" /\ Goto(w, "use")
    /\ UNCHANGED <<backlog, task, ready, built, processing, done, failed>>

SpuriousWakeup(w) ==
    /\ wpc[w] = "wait" /\ Goto(w, "lock")
    /\ UNCHANGED <<backlog, task, ready, built, processing, done, failed>>

(* build_counter: all of it with counter->processing locked. *)
build_counter(w) ==
    /\ \/ /\ wpc[w] = "build_lock" /\ processing = NONE
          /\ processing' = w /\ Goto(w, "build")
          /\ UNCHANGED <<ready, built, task, done>>
       \/ /\ wpc[w] = "build" /\ built' = TRUE /\ Goto(w, "ready")
          /\ UNCHANGED <<ready, processing, task, done>>
       \/ /\ wpc[w] = "ready" /\ ready' = TRUE /\ Goto(w, "broadcast")
          /\ UNCHANGED <<built, processing, task, done>>
       \/ /\ wpc[w] = "broadcast"
          /\ wpc' = [v \in Workers |-> IF v = w THEN "unlock"
                                       ELSE IF wpc[v] = "wait" THEN "lock" ELSE wpc[v]]
          /\ UNCHANGED <<ready, built, processing, task, done>>
       \/ /\ wpc[w] = "unlock" /\ processing' = NONE
          /\ done' = done \cup {"counter"} /\ task' = [task EXCEPT ![w] = NONE]
          /\ Goto(w, "pop")
          /\ UNCHANGED <<ready, built>>
    /\ UNCHANGED <<backlog, failed>>

(* malloc fails: counter_exit_on_failure reports to the pool and the       *)
(* worker exits; its cleanup handler releases the lock.                    *)
counter_exit_on_failure(w) ==
    /\ MayFail /\ wpc[w] = "build"
    /\ failed' = TRUE
    /\ processing' = NONE
    /\ Goto(w, "exited")
    /\ UNCHANGED <<backlog, task, ready, built, done>>

(* The supervisor clears the backlog after a failure. *)
BacklogCleared ==
    /\ failed /\ backlog # <<>>
    /\ backlog' = <<>>
    /\ UNCHANGED <<wpc, task, ready, built, processing, done, failed>>

(* The supervisor has cancelled the crew: a worker dies in a system call   *)
(* of its task, in counter_await, or waiting for a task.  A wait that is   *)
(* interrupted has the lock again and the cleanup handler releases it.     *)
Cancelled(w) ==
    /\ failed
    /\ \/ wpc[w] = "use"
       \/ wpc[w] = "wait" /\ processing = NONE
       \/ wpc[w] = "pop" /\ backlog = <<>>
    /\ Goto(w, "exited")
    /\ UNCHANGED <<backlog, task, ready, built, processing, done, failed>>

Worker(w) ==
    Pop(w) \/ Return(w) \/ counter_await(w) \/ build_counter(w)
    \/ counter_exit_on_failure(w) \/ Cancelled(w)

AllDone == done = {"counter"} \cup Columns \cup Others

Over == AllDone \/ \A w \in Workers : wpc[w] = "exited"

Finished == Over /\ UNCHANGED vars

Next ==
    \/ \E w \in Workers : Worker(w) \/ SpuriousWakeup(w)
    \/ BacklogCleared
    \/ Finished

Spec == Init /\ [][Next]_vars

(* Strong fairness: a mutex that is free again and again is granted, and a *)
(* cancelled worker that enters pthread_cond_wait again and again dies     *)
(* there, whatever wakes it.                                               *)
FairSpec ==
    /\ Spec
    /\ WF_vars(BacklogCleared)
    /\ \A w \in Workers : SF_vars(Worker(w)) /\ SF_vars(Cancelled(w))

-----------------------------------------------------------------------------
TypeOK ==
    /\ \A i \in 1..Len(backlog) : backlog[i] \in {"counter"} \cup Columns \cup Others
    /\ wpc \in [Workers -> {"pop", "use", "check", "lock", "test", "wait", "build_lock",
                            "build", "ready", "broadcast", "unlock", "exited"}]
    /\ task \in [Workers -> {"counter", NONE} \cup Columns \cup Others]
    /\ {ready, built, failed} \subseteq BOOLEAN
    /\ processing \in Workers \cup {NONE}
    /\ done \subseteq {"counter"} \cup Columns \cup Others

(* A column goes on from counter_await only when the counter is complete,  *)
(* although it reads counter->ready without the lock first.                *)
NoEarlyUse == \A w \in Workers : wpc[w] = "use" /\ task[w] \in Columns => built

(* The stage ends: every task returns, or the crew is gone after a         *)
(* failure.  However many columns wait, the counter has a worker.          *)
StageEnds == <>Over
=============================================================================
