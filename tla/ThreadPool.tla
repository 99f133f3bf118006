----------------------------- MODULE ThreadPool -----------------------------
(***************************************************************************)
(* thread/thread_pool.h and its client: a main thread that starts a crew   *)
(* of workers and a supervisor, feeds the pool one stage of tasks after    *)
(* the other, and tears everything down.  The client is the protocol of    *)
(* mysql_seed_generate (generate/generate.h); execute_multiple is the same *)
(* protocol with a single stage.                                           *)
(*                                                                         *)
(* Threads are the workers, the supervisor and main.  A step is a critical *)
(* section (TaskList), a system call, or a piece of code that touches no   *)
(* shared state.  A thread in pthread_cond_wait is in a "wait" state; a    *)
(* signal moves one waiter back to the state that re-reads the condition,  *)
(* and so may a spurious wakeup.                                           *)
(*                                                                         *)
(* Cancellation is deferred: pthread_cancel only marks the worker, which   *)
(* dies at a cancellation point, that is in pthread_cond_wait or in the    *)
(* system calls of a task or of its failure handler, and not between a     *)
(* task's last system call and its next wait.                              *)
(***************************************************************************)
EXTENDS TaskList, SequencesExt

CONSTANTS
    WorkerCount,      \* COUNT_GENERATOR_WORKERS
    Stages,           \* the task stores, in the order main loads them
    Tasks,            \* store -> its array of task nodes
    MayFail,          \* the tasks whose procedure may fail
    CreateMayFail,    \* pthread_create may fail
    KeyMayFail,       \* pthread_key_create / pthread_setspecific may fail
    DumpMayFail,      \* writing the log to stdout may fail
    ReportMayFail     \* a pthread call whose result main checks may fail

(* Each store is a field of its own and links an array of its own: no name *)
(* occurs twice, and the nodes are the elements of the arrays, each once.  *)
ASSUME PoolAssumption ==
    /\ WorkerCount \in Nat \ {0}
    /\ Stages \in Seq(Lists \ {"backlog", "active", "complete"}) \ {<<>>}
    /\ Lists = {"backlog", "active", "complete"} \cup ToSet(Stages)
    /\ \A i, k \in 1..Len(Stages) : Stages[i] = Stages[k] => i = k
    /\ \A i \in 1..Len(Stages) : Tasks[Stages[i]] \in Seq(Nodes) \ {<<>>}
    /\ \A n \in Nodes : \E i \in 1..Len(Stages) : n \in ToSet(Tasks[Stages[i]])
    /\ \A i, k \in 1..Len(Stages) :
        \A j \in 1..Len(Tasks[Stages[i]]), l \in 1..Len(Tasks[Stages[k]]) :
            Tasks[Stages[i]][j] = Tasks[Stages[k]][l] => i = k /\ j = l
    /\ MayFail \subseteq Nodes
    /\ {CreateMayFail, KeyMayFail, DumpMayFail, ReportMayFail} \subseteq BOOLEAN

Workers == 1..WorkerCount

VARIABLES
    wpc,         \* worker -> where it is
    node,        \* worker -> the node in its hands, or NULL
    created,     \* workers created so far
    cancelled,   \* workers marked by pthread_cancel
    spc,         \* where the supervisor is
    supCancel,   \* pthread_cancel was called on the supervisor
    key,         \* supervisor->key: none, created, set (to the supervisor)
    event,       \* supervisor->event: "none", "exit_failure", "exit_success"
    logLock,     \* the pool's log is locked across steps
    busy, exit,  \* pool->status
    mpc,         \* where main is
    stage,       \* the stage main has loaded last
    result,      \* *exit_status, "none" until main decides it
    freed,       \* main has freed the task nodes
    done,        \* tasks whose procedure returned
    failed       \* tasks whose procedure failed

workerVars == <<wpc, node, created, cancelled>>
supVars    == <<spc, supCancel, key, event, logLock>>
statusVars == <<busy, exit>>
mainVars   == <<mpc, stage, result, freed>>
taskVars   == <<done, failed>>
vars == <<listVars, workerVars, supVars, statusVars, mainVars, taskVars>>

StageTasks(i) == ToSet(Tasks[Stages[i]])

(* The chains of TaskNodes that main builds in generator_alloc; a stage's  *)
(* nodes are not reachable by a worker before main loads the stage.        *)
Neighbour(n, d) ==
    LET i == CHOOSE i \in 1..Len(Stages) : n \in StageTasks(i)
        t == Tasks[Stages[i]]
        j == CHOOSE j \in 1..Len(t) : t[j] = n
    IN  IF j + d \in 1..Len(t) THEN t[j + d] ELSE NULL

(* thread_pool_init: backlog holds the first stage. *)
Init ==
    /\ head = [l \in Lists |-> IF l \in {"active", "complete"} THEN NULL
                               ELSE IF l = "backlog" THEN Head(Tasks[Stages[1]])
                               ELSE Head(Tasks[l])]
    /\ last = [l \in Lists |-> IF l \in {"active", "complete"} THEN NULL
                               ELSE IF l = "backlog" THEN Last(Tasks[Stages[1]])
                               ELSE Last(Tasks[l])]
    /\ next = [n \in Nodes |-> Neighbour(n, 1)]
    /\ prev = [n \in Nodes |-> Neighbour(n, -1)]
    /\ wpc = [w \in Workers |-> "none"] /\ node = [w \in Workers |-> NULL]
    /\ created = 0 /\ cancelled = {}
    /\ spc = "none" /\ supCancel = FALSE /\ key = "none" /\ event = "none" /\ logLock = FALSE
    /\ busy = FALSE /\ exit = "none"
    /\ mpc = "start" /\ stage = 1 /\ result = "none" /\ freed = FALSE
    /\ done = {} /\ failed = {}

(* The process ends when main returns. *)
Running == mpc # "exit"

-----------------------------------------------------------------------------
(***************************************************************************)
(* Threads: thread/thread_utils.h                                          *)
(***************************************************************************)
Goto(w, l) == wpc' = [wpc EXCEPT ![w] = l]

(* worker_spawn is worker_process_tasks. *)
thread_create(w) == created' = created + 1 /\ Goto(w, "pop")

thread_cancel(threads) == cancelled' = cancelled \union threads

thread_exit(w) == Goto(w, "exited")

(* worker_crew_cancel_failure, worker_crew_cancel_success *)
worker_crew_cancel == thread_cancel(Workers)

thread_cond_await(w) == Goto(w, "wait")

thread_cond_signal ==
    IF \E w \in Workers : wpc[w] = "wait"
    THEN \E w \in Workers : wpc[w] = "wait" /\ Goto(w, "pop")
    ELSE UNCHANGED wpc

-----------------------------------------------------------------------------
(***************************************************************************)
(* Condition variables                                                     *)
(***************************************************************************)

(* Only main waits on the empty conditions and on status.done. *)
WakeMain(signalled, from, to) ==
    mpc' = IF signalled /\ mpc = from THEN to ELSE mpc

WakeDone == mpc' = CASE mpc = "wait_exit"    -> "await_exit"
                     [] mpc = "wait_failure" -> "await_failure"
                     [] OTHER                -> mpc

WakeSupervisor == spc' = IF spc = "wait" THEN "listen" ELSE spc

(* &backlog.node_ready *)
WakeWorker == thread_cond_signal

SpuriousWakeup ==
    /\ Running
    /\ \/ \E w \in Workers : /\ wpc[w] = "wait"
                             /\ wpc' = [wpc EXCEPT ![w] = "pop"]
                             /\ UNCHANGED <<spc, mpc>>
       \/ /\ spc = "wait" /\ spc' = "listen"
          /\ UNCHANGED <<wpc, mpc>>
       \/ /\ \/ mpc = "wait_backlog" /\ mpc' = "await_backlog"
             \/ mpc = "wait_active"  /\ mpc' = "await_active"
             \/ mpc = "wait_exit"    /\ mpc' = "await_exit"
             \/ mpc = "wait_failure" /\ mpc' = "await_failure"
          /\ UNCHANGED <<wpc, spc>>
    /\ UNCHANGED <<listVars, node, created, cancelled, supCancel, key, event, logLock,
                   statusVars, stage, result, freed, taskVars>>

-----------------------------------------------------------------------------
(***************************************************************************)
(* Workers: worker_process_tasks                                           *)
(***************************************************************************)
(* task_queue_pop_push(backlog, active), or wait for node_ready. *)
WorkerPop(w) ==
    /\ wpc[w] = "pop"
    /\ \/ /\ IsEmpty("backlog")
          /\ thread_cond_await(w)
          /\ UNCHANGED <<listVars, node, mpc>>
       \/ /\ task_queue_pop_push("backlog", "active")
          /\ node' = [node EXCEPT ![w] = head["backlog"]]
          /\ Goto(w, "task")
          /\ WakeMain(PopSignals("backlog"), "wait_backlog", "await_backlog")
    /\ UNCHANGED <<created, cancelled, supVars, statusVars, stage, result, freed,
                   taskVars>>

(* The task returns. *)
TaskReturns(w) ==
    /\ wpc[w] = "task"
    /\ done' = done \cup {node[w]}
    /\ Goto(w, "remove")
    /\ UNCHANGED <<listVars, node, created, cancelled, supVars, statusVars,
                   mainVars, failed>>

(* A slip for comparison: the failure handler reports nothing and returns. *)
FailureSwallowed(w) ==
    /\ wpc[w] = "task"
    /\ node[w] \in MayFail
    /\ failed' = failed \cup {node[w]}
    /\ Goto(w, "remove")
    /\ UNCHANGED <<listVars, node, created, cancelled, supVars, statusVars,
                   mainVars, done>>

(* The task calls its failure handler, which ends in                       *)
(* generator_exit_on_failure.                                              *)
TaskFails(w) ==
    /\ wpc[w] = "task"
    /\ node[w] \in MayFail
    /\ failed' = failed \cup {node[w]}
    /\ Goto(w, "log")
    /\ UNCHANGED <<listVars, node, created, cancelled, supVars, statusVars,
                   mainVars, done>>

(* thread_pool_exit_on_failure, first half: append to the pool's log. *)
FailureLogged(w) ==
    /\ wpc[w] = "log"
    /\ ~logLock
    /\ Goto(w, "signal")
    /\ UNCHANGED <<listVars, node, created, cancelled, supVars, statusVars,
                   mainVars, taskVars>>

(* Slips for comparison: the supervisor's condition is not signalled; the  *)
(* worker does not exit and takes its node out of the active queue.        *)
FailureUnsignalled(w) ==
    /\ wpc[w] = "signal"
    /\ event' = "exit_failure"
    /\ Goto(w, "exited")
    /\ UNCHANGED <<listVars, node, created, cancelled, spc, supCancel, key, logLock,
                   statusVars, mainVars, taskVars>>

FailureGoesOn(w) ==
    /\ wpc[w] = "signal"
    /\ event' = "exit_failure"
    /\ WakeSupervisor
    /\ Goto(w, "remove")
    /\ UNCHANGED <<listVars, node, created, cancelled, supCancel, key, logLock,
                   statusVars, mainVars, taskVars>>

(* Second half: supervisor_signal, then thread_exit.  The failed node stays *)
(* in the active queue.                                                     *)
FailureSignalled(w) ==
    /\ wpc[w] = "signal"
    /\ event' = "exit_failure"
    /\ WakeSupervisor
    /\ thread_exit(w)
    /\ UNCHANGED <<listVars, node, created, cancelled, supCancel, key, logLock,
                   statusVars, mainVars, taskVars>>

(* A slip for comparison: the empty condition is not signalled. *)
RemoveUnsignalled(w) ==
    /\ wpc[w] = "remove"
    /\ task_queue_remove("active", node[w])
    /\ Goto(w, "push")
    /\ UNCHANGED <<node, created, cancelled, supVars, statusVars, mainVars, taskVars>>

WorkerRemove(w) ==
    /\ wpc[w] = "remove"
    /\ task_queue_remove("active", node[w])
    /\ WakeMain(RemoveSignals(node[w]), "wait_active", "await_active")
    /\ Goto(w, "push")
    /\ UNCHANGED <<node, created, cancelled, supVars, statusVars, stage, result,
                   freed, taskVars>>

WorkerPush(w) ==
    /\ wpc[w] = "push"
    /\ task_queue_push("complete", node[w])
    /\ node' = [node EXCEPT ![w] = NULL]
    /\ Goto(w, "pop")
    /\ UNCHANGED <<created, cancelled, supVars, statusVars, mainVars, taskVars>>

(* A cancelled worker dies at a cancellation point.  Its cleanup handlers  *)
(* release the lock it was waiting with; its node stays where it is.       *)
WorkerCancelled(w) ==
    /\ w \in cancelled
    /\ wpc[w] \in {"wait", "task", "log"}
    /\ thread_exit(w)
    /\ UNCHANGED <<listVars, node, created, cancelled, supVars, statusVars,
                   mainVars, taskVars>>

Worker(w) ==
    /\ Running
    /\ \/ WorkerPop(w) \/ TaskReturns(w) \/ TaskFails(w)
       \/ FailureLogged(w) \/ FailureSignalled(w)
       \/ WorkerRemove(w) \/ WorkerPush(w) \/ WorkerCancelled(w)

-----------------------------------------------------------------------------
(***************************************************************************)
(* Supervisor                                                              *)
(***************************************************************************)
SupGoto(l) == spc' = l

SupOnly == UNCHANGED <<wpc, node, created, stage, result, freed, taskVars>>

thread_key_create(ok) ==
    IF ok THEN key' = "created" /\ SupGoto("key")
    ELSE KeyMayFail /\ UNCHANGED key /\ SupGoto("log_failure")

thread_key_set(ok) ==
    IF ok THEN key' = "set" /\ SupGoto("listen")
    ELSE KeyMayFail /\ UNCHANGED key /\ SupGoto("log_failure")

thread_key_delete == key' = "none"

(* The key's destructor reports a supervisor that dies. *)
supervisor_spawn ==
    /\ \E ok \in BOOLEAN : \/ spc = "spawn" /\ thread_key_create(ok)
                           \/ spc = "key" /\ thread_key_set(ok)
    /\ SupOnly
    /\ UNCHANGED <<listVars, cancelled, supCancel, event, logLock, statusVars, mpc>>

(* supervisor_listen: the event is read again after the lock is released. *)
supervisor_listen ==
    /\ \/ spc = "listen" /\ event = "none" /\ SupGoto("wait")
       \/ spc = "listen" /\ event # "none" /\ SupGoto("event")
       \/ spc = "event" /\ event = "exit_failure" /\ SupGoto("fail_cancel")
       \/ spc = "event" /\ event = "exit_success" /\ SupGoto("success_cancel")
    /\ SupOnly
    /\ UNCHANGED <<listVars, cancelled, supCancel, key, event, logLock, statusVars, mpc>>

(* supervisor_exit_on_failure: append to the log, then supervisor_do_exit_ *)
(* failure.  The lock is not recursive.                                    *)
supervisor_exit_on_failure ==
    /\ spc = "log_failure"
    /\ ~logLock
    /\ SupGoto("fail_cancel")
    /\ SupOnly
    /\ UNCHANGED <<listVars, cancelled, supCancel, key, event, logLock, statusVars, mpc>>

(* supervisor_do_exit_failure: cancel the crew, dump the log to stderr,    *)
(* clear backlog and active so that main wakes up, and last say that the   *)
(* pool is no longer busy.                                                 *)
supervisor_do_exit_failure ==
    /\ \/ /\ spc = "fail_cancel" /\ SupGoto("fail_dump")
          /\ thread_key_delete /\ worker_crew_cancel
          /\ UNCHANGED <<listVars, statusVars, mpc>>
       \/ /\ spc = "fail_dump" /\ ~logLock /\ SupGoto("fail_backlog")
          /\ UNCHANGED <<listVars, cancelled, key, statusVars, mpc>>
       \/ /\ spc = "fail_backlog" /\ SupGoto("fail_active")
          /\ task_queue_clear("backlog")
          /\ WakeMain(ClearSignals("backlog"), "wait_backlog", "await_backlog")
          /\ UNCHANGED <<cancelled, key, statusVars>>
       \/ /\ spc = "fail_active" /\ SupGoto("fail_status")
          /\ task_queue_clear("active")
          /\ WakeMain(ClearSignals("active"), "wait_active", "await_active")
          /\ UNCHANGED <<cancelled, key, statusVars>>
       \/ /\ spc = "fail_status" /\ SupGoto("exited")
          /\ exit' = "failure" /\ busy' = FALSE
          /\ WakeDone
          /\ UNCHANGED <<listVars, cancelled, key>>
    /\ SupOnly
    /\ UNCHANGED <<supCancel, event, logLock>>

(* supervisor_do_exit_success: cancel the crew, dump the log to stdout     *)
(* with the log locked, and say that the pool is done.                     *)
supervisor_do_exit_success ==
    /\ \/ /\ spc = "success_cancel" /\ SupGoto("success_lock")
          /\ thread_key_delete /\ worker_crew_cancel
          /\ UNCHANGED <<logLock, statusVars, mpc>>
       \/ /\ spc = "success_cancel" /\ KeyMayFail /\ SupGoto("log_failure")
          /\ UNCHANGED <<cancelled, key, logLock, statusVars, mpc>>
       \/ /\ spc = "success_lock" /\ ~logLock /\ SupGoto("success_dump")
          /\ logLock' = TRUE
          /\ UNCHANGED <<cancelled, key, statusVars, mpc>>
       \/ /\ spc = "success_dump" /\ SupGoto("success_status")
          /\ logLock' = FALSE
          /\ UNCHANGED <<cancelled, key, statusVars, mpc>>
       \/ /\ spc = "success_dump" /\ DumpMayFail /\ SupGoto("log_failure")
          /\ UNCHANGED <<cancelled, key, logLock, statusVars, mpc>>
       \/ /\ spc = "success_status" /\ SupGoto("exited")
          /\ exit' = "success" /\ busy' = FALSE
          /\ WakeDone
          /\ UNCHANGED <<cancelled, key, logLock>>
    /\ SupOnly
    /\ UNCHANGED <<listVars, supCancel, event>>

(* thread_pool_cancel has marked the supervisor.  Where the key is set, as *)
(* in pthread_cond_wait, the destructor runs supervisor_do_exit_failure;   *)
(* in a write only the cleanup handler of the log's lock runs.             *)
supervisor_exit_cleanup ==
    /\ supCancel
    /\ spc \in {"wait", "fail_dump", "success_dump"}
    /\ SupGoto(IF key = "set" THEN "fail_cancel" ELSE "exited")
    /\ logLock' = (logLock /\ spc # "success_dump")
    /\ SupOnly
    /\ UNCHANGED <<listVars, cancelled, supCancel, key, event, statusVars, mpc>>

Supervisor ==
    /\ Running
    /\ \/ supervisor_spawn \/ supervisor_listen \/ supervisor_exit_on_failure
       \/ supervisor_do_exit_failure \/ supervisor_do_exit_success
       \/ supervisor_exit_cleanup

-----------------------------------------------------------------------------
(***************************************************************************)
(* Main                                                                    *)
(***************************************************************************)
MainGoto(l) == mpc' = l

(* On failure the threads created so far are marked and main goes on       *)
(* without waiting for them.                                               *)
worker_crew_start ==
    /\ mpc = "create" /\ created < WorkerCount
    /\ \/ thread_create(created + 1) /\ UNCHANGED <<cancelled, mpc>>
       \/ /\ CreateMayFail /\ thread_cancel(1..created)
          /\ MainGoto("start_failed") /\ UNCHANGED <<wpc, created>>
    /\ UNCHANGED <<spc, busy>>

supervisor_start ==
    /\ mpc = "create" /\ created = WorkerCount
    /\ \/ /\ spc' = "spawn" /\ MainGoto("await_backlog")
          /\ UNCHANGED <<cancelled, busy>>
       \/ /\ CreateMayFail /\ worker_crew_cancel /\ busy' = FALSE
          /\ MainGoto("start_failed") /\ UNCHANGED spc
    /\ UNCHANGED <<wpc, created>>

thread_pool_start ==
    /\ \/ /\ mpc = "start" /\ MainGoto("create") /\ busy' = TRUE
          /\ UNCHANGED <<wpc, created, cancelled, spc>>
       \/ worker_crew_start
       \/ supervisor_start
    /\ UNCHANGED <<listVars, node, supCancel, key, event, logLock, exit, stage, result,
                   freed, taskVars>>

thread_pool_cancel == worker_crew_cancel /\ supCancel' = TRUE

MainOnly == UNCHANGED <<node, created, supCancel, key, logLock, statusVars, taskVars>>

(* A slip for comparison: an empty backlog ends the wait. *)
AwaitBacklogOnly ==
    /\ mpc = "await_backlog"
    /\ MainGoto(IF ~IsEmpty("backlog") THEN "wait_backlog"
                ELSE IF stage < Len(Stages) THEN "alive" ELSE "stop")
    /\ MainOnly
    /\ UNCHANGED <<listVars, wpc, cancelled, spc, event, stage, result, freed>>

(* thread_pool_await: backlog empty, then active empty. *)
thread_pool_await ==
    /\ \/ /\ mpc = "await_backlog"
          /\ MainGoto(IF IsEmpty("backlog") THEN "await_active" ELSE "wait_backlog")
       \/ /\ mpc = "await_active"
          /\ MainGoto(IF ~IsEmpty("active") THEN "wait_active"
                      ELSE IF stage < Len(Stages) THEN "alive" ELSE "stop")
    /\ MainOnly
    /\ UNCHANGED <<listVars, wpc, cancelled, spc, event, stage, result, freed>>

thread_pool_alive ==
    /\ mpc = "alive"
    /\ MainGoto(IF busy THEN "reload" ELSE "cleanup")
    /\ MainOnly
    /\ UNCHANGED <<listVars, wpc, cancelled, spc, event, stage, result, freed>>

(* A slip for comparison: node_ready is not signalled. *)
ReloadUnsignalled ==
    /\ mpc = "reload"
    /\ task_queue_reload("backlog", Stages[stage + 1])
    /\ stage' = stage + 1
    /\ MainGoto("await_backlog")
    /\ MainOnly
    /\ UNCHANGED <<wpc, cancelled, spc, event, result, freed>>

thread_pool_reload ==
    /\ mpc = "reload"
    /\ task_queue_reload("backlog", Stages[stage + 1])
    /\ WakeWorker
    /\ stage' = stage + 1
    /\ MainGoto("await_backlog")
    /\ MainOnly
    /\ UNCHANGED <<cancelled, spc, event, result, freed>>

thread_pool_stop ==
    /\ mpc = "stop"
    /\ event' = "exit_success"
    /\ WakeSupervisor
    /\ MainGoto("await_exit")
    /\ MainOnly
    /\ UNCHANGED <<listVars, wpc, cancelled, stage, result, freed>>

(* thread_pool_await_exit_success, then thread_pool_exit_status. *)
thread_pool_await_exit_success ==
    /\ mpc = "await_exit"
    /\ IF busy THEN MainGoto("wait_exit") /\ UNCHANGED result
       ELSE IF exit = "success" THEN MainGoto("free") /\ result' = "success"
       ELSE MainGoto("cleanup") /\ UNCHANGED result
    /\ MainOnly
    /\ UNCHANGED <<listVars, wpc, cancelled, spc, event, stage, freed>>

(* A checked pthread call of main fails: LIVE_POOL_FAILURE_A, or its like  *)
(* after the last stage; once the pool is stopped, thread_pool_cancel.     *)
PoolCallFails ==
    /\ ReportMayFail
    /\ \/ /\ mpc \in {"await_backlog", "await_active", "alive", "reload", "stop"}
          /\ MainGoto("exit_on_failure")
          /\ UNCHANGED <<cancelled, supCancel>>
       \/ /\ mpc = "await_exit"
          /\ thread_pool_cancel
          /\ MainGoto("cleanup")
    /\ UNCHANGED <<listVars, wpc, node, created, spc, key, event, logLock, statusVars,
                   stage, result, freed, taskVars>>

(* thread_pool_exit_on_failure and thread_pool_await_exit_failure. *)
LivePoolFailure ==
    /\ \/ /\ mpc = "exit_on_failure" /\ ~logLock
          /\ event' = "exit_failure" /\ WakeSupervisor
          /\ MainGoto("await_failure")
       \/ /\ mpc = "await_failure"
          /\ MainGoto(IF busy THEN "wait_failure" ELSE "cleanup")
          /\ UNCHANGED <<spc, event>>
    /\ MainOnly
    /\ UNCHANGED <<listVars, wpc, cancelled, stage, result, freed>>

(* DEAD_POOL_FAILURE_A and _B, or the return after thread_pool_start       *)
(* failed: remove what was generated, report failure, free, return.        *)
Teardown ==
    /\ \/ /\ mpc \in {"cleanup", "start_failed"}
          /\ result' = "failure" /\ MainGoto("free") /\ UNCHANGED freed
       \/ /\ mpc = "free"
          /\ freed' = TRUE /\ MainGoto("return") /\ UNCHANGED result
       \/ /\ mpc = "return"
          /\ MainGoto("exit") /\ UNCHANGED <<result, freed>>
    /\ MainOnly
    /\ UNCHANGED <<listVars, wpc, cancelled, spc, event, stage>>

Main ==
    \/ thread_pool_start \/ thread_pool_await \/ thread_pool_alive
    \/ thread_pool_reload \/ thread_pool_stop \/ thread_pool_await_exit_success
    \/ PoolCallFails \/ LivePoolFailure \/ Teardown

Exited == ~Running /\ UNCHANGED vars

Next ==
    \/ \E w \in Workers : Worker(w)
    \/ Supervisor
    \/ Main
    \/ SpuriousWakeup
    \/ Exited

(* Every thread that can move does, every task returns, fails or is        *)
(* cancelled, and a cancelled thread in a wait dies.  Nothing makes a      *)
(* spurious wakeup happen.                                                 *)
Fairness ==
    /\ \A w \in Workers : WF_vars(Worker(w))
    /\ WF_vars(Supervisor)
    /\ WF_vars(Main)

Spec == Init /\ [][Next]_vars

FairSpec == Spec /\ Fairness

-----------------------------------------------------------------------------
(***************************************************************************)
(* Properties                                                              *)
(***************************************************************************)
Holds(w) == wpc[w] \in {"task", "log", "signal", "remove", "push"}

(* Each task runs at most once and in one worker only, whatever fails and  *)
(* however the queues are cleared under running workers: pop_push hands a  *)
(* node of the backlog to exactly one worker.                              *)
RunOnce ==
    /\ \A w \in Workers : wpc[w] = "task" => node[w] \notin done \cup failed
    /\ \A v, w \in Workers :
        Holds(v) /\ Holds(w) /\ node[v] = node[w] => v = w

(* Main reports success only if every task of every stage has returned and *)
(* none has failed.                                                        *)
SuccessIsComplete ==
    result = "success" => /\ failed = {}
                          /\ \A i \in 1..Len(Stages) : StageTasks(i) \subseteq done

(* Without failures the pool and its client implement StagedRun: stages    *)
(* follow each other with a barrier between them (thread_pool_await), each *)
(* task runs once, success is reported after the last stage, and the whole *)
(* run gets there.                                                         *)
Staged == INSTANCE StagedRun WITH stage <- stage, done <- done, result <- result

ImplementsStagedRun == Staged!FairSpec

(* node_ready is signalled once per reload, not once per node, and a       *)
(* worker that takes a node does not pass the signal on.  Still, as long   *)
(* as no worker was cancelled or failed, a backlog with nodes has a worker *)
(* that will look at it again.                                             *)
NoLostWakeup ==
    /\ head["backlog"] # NULL /\ created = WorkerCount
    /\ cancelled = {} /\ failed = {}
    => \E w \in Workers : wpc[w] \in {"pop", "task", "remove", "push"}

(* A failure that was signalled is not overwritten by thread_pool_stop     *)
(* before the supervisor has read it, although the supervisor reads        *)
(* supervisor->event outside the lock: the failed node holds main in       *)
(* thread_pool_await until the supervisor clears the active queue.         *)
FailureNotOverwritten ==
    [][event = "exit_failure" /\ event' # event
            => spc \notin {"none", "spawn", "key", "listen", "wait", "event"}]_vars

(* A failed task is always followed by the end of the process or by a pool *)
(* that says it is no longer busy and has failed.                          *)
FailureReported ==
    failed # {} ~> ~Running \/ (exit = "failure" /\ ~busy)

(* Main always gets to the end. *)
Terminates == <>~Running

(* After a failed task main gets to the end: "system call failures are     *)
(* logged and reported after cleanup" (README.md:390), and clearing the    *)
(* queues is there to "ensure that it's awoken" (thread_pool.h:381).       *)
FailureEndsRun == failed # {} ~> ~Running
=============================================================================
