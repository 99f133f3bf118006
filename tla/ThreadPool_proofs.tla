-------------------------- MODULE ThreadPool_proofs --------------------------
(***************************************************************************)
(* Proofs about ThreadPool, for any number of workers, stages and tasks.   *)
(*                                                                         *)
(* Two regimes have to be told apart.  Once the supervisor clears a queue  *)
(* under running workers (supervisor_do_exit_failure), the active list no  *)
(* longer spells out anything.  What survives is that no pointer leads     *)
(* from a node some worker had in its hands to one no worker has had:      *)
(* OnceInv says so, and it is why a task still runs at most once.  Before  *)
(* the clearing, active spells out exactly the nodes in the workers' hands *)
(* (HandedInv), which is why thread_pool_await is a barrier.               *)
(***************************************************************************)
EXTENDS ThreadPool, TaskList_proofs

-----------------------------------------------------------------------------
TaskAt(k, j) == Tasks[Stages[k]][j]

Size(k) == Len(Tasks[Stages[k]])

(* The nodes in the workers' hands, and the nodes that ever were. *)
InHand == {n \in Nodes : \E w \in Workers : node[w] = n}

Touched == done \cup failed \cup InHand

WorkerStates == {"none", "pop", "wait", "task", "log", "signal", "remove", "push",
                 "exited"}

TypeOK ==
    /\ ListTypeOK
    /\ wpc \in [Workers -> WorkerStates]
    /\ node \in [Workers -> Pointers]
    /\ created \in 0..WorkerCount
    /\ \A w \in Workers : wpc[w] = "none" <=> w > created
    /\ stage \in 1..Len(Stages)
    /\ mpc \in {"alive", "reload"} => stage < Len(Stages)
    /\ done \subseteq Nodes /\ failed \subseteq Nodes

(* What a worker has in its hands, by where it is. *)
HandOf(w) ==
    /\ wpc[w] \in {"none", "pop", "wait"} => node[w] = NULL
    /\ Holds(w) => node[w] # NULL
    /\ wpc[w] = "task" => node[w] \notin done \cup failed
    /\ wpc[w] \in {"remove", "push"} => node[w] \in done
    /\ wpc[w] \in {"log", "signal"} => node[w] \in failed

Hands ==
    /\ \A w \in Workers : HandOf(w)
    /\ \A v, w \in Workers : node[v] = node[w] /\ node[v] # NULL => v = w

(* The tasks that were not touched (T is the set of those that were, st    *)
(* the stage) are as generator_alloc linked them, and in the current stage *)
(* they are what the backlog leads to.                                     *)
Later(T, st) ==
    \A k \in 1..Len(Stages) : \A j \in 1..Size(k) : k > st => TaskAt(k, j) \notin T

Rest(T, st, h) ==
    h = NULL \/ \E i \in 1..Size(st) : /\ h = TaskAt(st, i)
                                       /\ \A j \in i..Size(st) : TaskAt(st, j) \notin T

Arrays(T, st, nx) ==
    \A k \in 1..Len(Stages) : \A j \in 1..Size(k) :
        k >= st /\ TaskAt(k, j) \notin T
            => nx[TaskAt(k, j)] = IF j = Size(k) THEN NULL ELSE TaskAt(k, j + 1)

(* No pointer leads from a touched node to an untouched one. *)
Closed(T, la, nx, pv) ==
    /\ la["active"] \in T \cup {NULL} /\ la["complete"] \in T \cup {NULL}
    /\ \A n \in T : nx[n] \in T \cup {NULL} /\ pv[n] \in T \cup {NULL}

StoresKept(hd) == \A k \in 1..Len(Stages) : hd[Stages[k]] = TaskAt(k, 1)

OnceInv ==
    /\ TypeOK
    /\ Hands
    /\ Later(Touched, stage)
    /\ Rest(Touched, stage, head["backlog"])
    /\ Arrays(Touched, stage, next)
    /\ Closed(Touched, last, next, prev)
    /\ StoresKept(head)

-----------------------------------------------------------------------------
(* The queues have not been cleared yet. *)
Intact == spc \in {"none", "spawn", "key", "listen", "wait", "event"}

(* The nodes a worker has taken from the backlog and not yet removed. *)
Active == {n \in Nodes : \E w \in Workers : node[w] = n /\ wpc[w] # "push"}

Finished == failed = {} /\ \A k \in 1..Len(Stages) : StageTasks(k) \subseteq done

(* The backlog gives out the tasks of the stage in order. *)
Given(T, st, h) ==
    \/ h = NULL /\ \A j \in 1..Size(st) : TaskAt(st, j) \in T
    \/ \E i \in 1..Size(st) : /\ h = TaskAt(st, i)
                              /\ \A j \in 1..i - 1 : TaskAt(st, j) \in T

SpansActive(A, h, t, nx, pv) ==
    \E s \in Seq(Nodes) : Distinct(s) /\ ToSet(s) = A /\ Spans(s, h, t, nx, pv)

HandedInv ==
    /\ \A k \in 1..stage - 1 : StageTasks(k) \subseteq done
    /\ Given(Touched, stage, head["backlog"])
    /\ SpansActive(Active, head["active"], last["active"], next, prev)
    /\ last["complete"] \notin Active
    /\ \A n \in failed : \E w \in Workers :
            node[w] = n /\ wpc[w] \in {"log", "signal", "exited"}
    /\ mpc \in {"await_active", "wait_active", "alive", "reload", "stop"}
            => head["backlog"] = NULL
    /\ mpc \in {"alive", "reload", "stop"} => Active = {}
    /\ mpc = "stop" => stage = Len(Stages)

SuccessInv ==
    /\ mpc \in {"start", "create"} => spc = "none"
    /\ Intact => HandedInv
    /\ Intact /\ event = "exit_success" => Finished
    /\ spc \in {"success_cancel", "success_lock", "success_dump", "success_status"}
            => Finished
    /\ exit = "success" => Finished
    /\ result = "success" => Finished
    /\ event = "exit_failure" =>
            failed # {} \/ mpc \in {"await_failure", "wait_failure", "cleanup", "free",
                                    "return", "exit"}

-----------------------------------------------------------------------------
WakeInv ==
    /\ \A w \in Workers : /\ wpc[w] = "exited" => cancelled # {} \/ failed # {}
                          /\ wpc[w] \in {"log", "signal"} => failed # {}
    /\ NoLostWakeup

-----------------------------------------------------------------------------
(* Arrays of tasks *)

(* The stages are numbered, each has an array of at least one task, and no
   node is in the arrays twice. *)
LEMMA ArrayFacts ==
    /\ Len(Stages) \in Nat \ {0}
    /\ \A k \in 1..Len(Stages) :
        /\ Size(k) \in Nat \ {0}
        /\ Stages[k] \in Lists
        /\ Stages[k] \notin {"backlog", "active", "complete"}
        /\ \A j \in 1..Size(k) : TaskAt(k, j) \in Nodes
        /\ Tasks[Stages[k]] \in Seq(Nodes)
    /\ \A i, k \in 1..Len(Stages) : \A j \in 1..Size(i), l \in 1..Size(k) :
        TaskAt(i, j) = TaskAt(k, l) => i = k /\ j = l
    /\ {"backlog", "active", "complete"} \subseteq Lists
<1> USE PoolAssumption DEF Size, TaskAt
<1>1. Len(Stages) \in Nat \ {0}
  OBVIOUS
<1>2. ASSUME NEW k \in 1..Len(Stages)
      PROVE  /\ Size(k) \in Nat \ {0}
             /\ Stages[k] \in Lists
             /\ Stages[k] \notin {"backlog", "active", "complete"}
             /\ \A j \in 1..Size(k) : TaskAt(k, j) \in Nodes
             /\ Tasks[Stages[k]] \in Seq(Nodes)
  <2>1. Stages[k] \in Lists \ {"backlog", "active", "complete"}
    BY <1>2
  <2>2. PICK t \in Seq(Nodes) : t = Tasks[Stages[k]] /\ t # <<>>
    BY <1>2
  <2>3. Len(t) \in Nat \ {0} /\ \A j \in 1..Len(t) : t[j] \in Nodes
    BY <2>2
  <2> QED
    BY <2>1, <2>2, <2>3
<1> QED
  BY <1>1, <1>2

(* The set of a stage's tasks, by index. *)
LEMMA StageTasksFacts ==
    ASSUME NEW k \in 1..Len(Stages)
    PROVE  \A n : n \in StageTasks(k) <=> \E j \in 1..Size(k) : n = TaskAt(k, j)
<1>1. PICK t \in Seq(Nodes) : t = Tasks[Stages[k]]
  BY PoolAssumption
<1> QED
  BY <1>1 DEF StageTasks, ToSet, Size, TaskAt

(* A task's neighbour in its array, as Init computes it. *)
LEMMA NeighbourFacts ==
    ASSUME NEW k \in 1..Len(Stages), NEW j \in 1..Size(k), NEW d \in {1, -1}
    PROVE  Neighbour(TaskAt(k, j), d)
             = IF j + d \in 1..Size(k) THEN TaskAt(k, j + d) ELSE NULL
<1>0. PICK n : n = TaskAt(k, j)
  OBVIOUS
<1>1. \A i \in 1..Len(Stages) : n \in StageTasks(i) <=> i = k
  BY <1>0, ArrayFacts, StageTasksFacts
<1>2. (CHOOSE i \in 1..Len(Stages) : n \in StageTasks(i)) = k
  BY <1>1
<1>3. \A l \in 1..Size(k) : TaskAt(k, l) = n <=> l = j
  BY <1>0, ArrayFacts
<1>4. (CHOOSE l \in 1..Len(Tasks[Stages[k]]) : Tasks[Stages[k]][l] = n) = j
  BY <1>3 DEF Size, TaskAt
<1>5. Neighbour(n, d) = IF j + d \in 1..Len(Tasks[Stages[k]])
                          THEN Tasks[Stages[k]][j + d] ELSE NULL
  <2> DEFINE c == CHOOSE i \in 1..Len(Stages) : n \in StageTasks(i)
             t == Tasks[Stages[c]]
             l == CHOOSE l \in 1..Len(t) : t[l] = n
  <2>1. Neighbour(n, d) = IF l + d \in 1..Len(t) THEN t[l + d] ELSE NULL
    BY DEF Neighbour
  <2>2. t = Tasks[Stages[k]]
    BY <1>2
  <2>3. l = j
    BY <1>2, <1>4
  <2> HIDE DEF l, t
  <2> QED
    BY <2>1, <2>2, <2>3
<1> QED
  BY <1>0, <1>5 DEF Size, TaskAt

(* Every node is in one of the arrays. *)
LEMMA NodeInArray ==
    ASSUME NEW n \in Nodes
    PROVE  \E k \in 1..Len(Stages) : \E j \in 1..Size(k) : n = TaskAt(k, j)
<1>1. PICK k \in 1..Len(Stages) : n \in StageTasks(k)
  BY PoolAssumption DEF StageTasks
<1> QED
  BY <1>1, StageTasksFacts

-----------------------------------------------------------------------------
(* OnceInv: the initial state *)

(* The initial state has the right types. *)
LEMMA InitTypeOK ==
    ASSUME Init
    PROVE  TypeOK
<1>1. \A n \in Nodes : Neighbour(n, 1) \in Pointers /\ Neighbour(n, -1) \in Pointers
  <2> SUFFICES ASSUME NEW n \in Nodes
               PROVE  Neighbour(n, 1) \in Pointers /\ Neighbour(n, -1) \in Pointers
    OBVIOUS
  <2>1. PICK k \in 1..Len(Stages) : \E j \in 1..Size(k) : n = TaskAt(k, j)
    BY NodeInArray
  <2>2. PICK j \in 1..Size(k) : n = TaskAt(k, j)
    BY <2>1
  <2> QED
    BY <2>2, NeighbourFacts, ArrayFacts DEF Pointers
<1>2. \A k \in 1..Len(Stages) : /\ Head(Tasks[Stages[k]]) = TaskAt(k, 1)
                                /\ TaskAt(k, 1) \in Nodes
                                /\ Last(Tasks[Stages[k]]) \in Nodes
  <2> SUFFICES ASSUME NEW k \in 1..Len(Stages)
               PROVE  /\ Head(Tasks[Stages[k]]) = TaskAt(k, 1)
                      /\ TaskAt(k, 1) \in Nodes
                      /\ Last(Tasks[Stages[k]]) \in Nodes
    OBVIOUS
  <2>1. PICK t \in Seq(Nodes) : t = Tasks[Stages[k]] /\ t # <<>>
    BY PoolAssumption
  <2>2. Head(t) = t[1] /\ t[1] \in Nodes /\ t[Len(t)] \in Nodes
    BY <2>1
  <2> QED
    BY <2>1, <2>2 DEF TaskAt, Last
<1>3. \A l \in Lists \ {"backlog", "active", "complete"} :
        \E k \in 1..Len(Stages) : l = Stages[k]
  BY PoolAssumption DEF ToSet
<1>4. 1 \in 1..Len(Stages)
  BY ArrayFacts
<1>5. ListTypeOK
  <2>1. \A l \in Lists : head[l] \in Pointers /\ last[l] \in Pointers
    <3> SUFFICES ASSUME NEW l \in Lists
                 PROVE  head[l] \in Pointers /\ last[l] \in Pointers
      OBVIOUS
    <3>1. CASE l \in {"active", "complete"}
      BY <3>1 DEF Init, Pointers
    <3>2. CASE l = "backlog"
      <4>1. head[l] = Head(Tasks[Stages[1]]) /\ last[l] = Last(Tasks[Stages[1]])
        BY <3>2 DEF Init
      <4> QED
        BY <4>1, <1>2, <1>4 DEF Pointers
    <3>3. CASE l \notin {"backlog", "active", "complete"}
      <4>1. PICK k \in 1..Len(Stages) : l = Stages[k]
        BY <1>3, <3>3
      <4>2. head[l] = Head(Tasks[l]) /\ last[l] = Last(Tasks[l])
        BY <3>3 DEF Init
      <4> QED
        BY <4>1, <4>2, <1>2 DEF Pointers
    <3> QED
      BY <3>1, <3>2, <3>3
  <2>2. head \in [Lists -> Pointers] /\ last \in [Lists -> Pointers]
    BY <2>1 DEF Init
  <2> QED
    BY <2>2, <1>1 DEF Init, ListTypeOK
<1>6. /\ wpc \in [Workers -> WorkerStates] /\ node \in [Workers -> Pointers]
      /\ created \in 0..WorkerCount
      /\ \A w \in Workers : wpc[w] = "none" <=> w > created
  BY PoolAssumption DEF Init, WorkerStates, Pointers, Workers
<1> QED
  BY <1>4, <1>5, <1>6 DEF Init, TypeOK

(* OnceInv holds initially: no node has been touched, and the backlog holds
   the first stage. *)
LEMMA InitOnceInv ==
    ASSUME Init
    PROVE  OnceInv
<1>1. Touched = {}
  BY NullAssumption DEF Init, Touched, InHand
<1>2. 1 \in 1..Len(Stages) /\ 1 \in 1..Size(1)
  BY ArrayFacts
<1>3. \A k \in 1..Len(Stages) : Head(Tasks[Stages[k]]) = TaskAt(k, 1)
  BY PoolAssumption DEF TaskAt
<1>4. Hands
  BY DEF Init, Hands, HandOf, Holds
<1>5. Later(Touched, stage) /\ Closed(Touched, last, next, prev)
  <2>1. last["active"] = NULL /\ last["complete"] = NULL
    BY ArrayFacts DEF Init
  <2> QED
    BY <1>1, <2>1 DEF Later, Closed
<1>6. Rest(Touched, stage, head["backlog"])
  <2>1. head["backlog"] = TaskAt(1, 1)
    BY ArrayFacts, <1>2, <1>3 DEF Init
  <2> QED
    BY <1>1, <1>2, <2>1 DEF Rest, Init
<1>7. Arrays(Touched, stage, next)
  <2> SUFFICES ASSUME NEW k \in 1..Len(Stages), NEW j \in 1..Size(k)
               PROVE  next[TaskAt(k, j)]
                        = IF j = Size(k) THEN NULL ELSE TaskAt(k, j + 1)
    BY DEF Arrays
  <2>1. TaskAt(k, j) \in Nodes /\ Size(k) \in Nat
    BY ArrayFacts
  <2>2. next[TaskAt(k, j)] = Neighbour(TaskAt(k, j), 1)
    BY <2>1 DEF Init
  <2>3. j + 1 \in 1..Size(k) <=> j # Size(k)
    BY <2>1
  <2> QED
    BY <2>2, <2>3, NeighbourFacts
<1>8. StoresKept(head)
  BY ArrayFacts, <1>3 DEF Init, StoresKept
<1> QED
  BY InitTypeOK, <1>4, <1>5, <1>6, <1>7, <1>8 DEF OnceInv

-----------------------------------------------------------------------------
(* Steps of the supervisor and of main *)

Others == Supervisor \/ Main \/ SpuriousWakeup \/ Exited \/ UNCHANGED vars

(* At most one worker is created or woken. *)
Woken ==
    \/ UNCHANGED <<wpc, created>>
    \/ /\ created' = created
       /\ \E w \in Workers : wpc[w] = "wait" /\ wpc' = [wpc EXCEPT ![w] = "pop"]
    \/ /\ created < WorkerCount /\ created' = created + 1
       /\ wpc' = [wpc EXCEPT ![created + 1] = "pop"]

(* The lists stay, a queue is cleared, or the next stage is loaded. *)
Cleared(q) == task_queue_clear(q) /\ stage' = stage /\ spc \in {"fail_backlog", "fail_active"}

Reloaded ==
    /\ mpc = "reload" /\ mpc' = "await_backlog" /\ spc' = spc /\ event' = event
    /\ task_queue_reload("backlog", Stages[stage + 1])
    /\ stage' = stage + 1

ListsMoved ==
    \/ UNCHANGED listVars /\ stage' = stage
    \/ Cleared("backlog") \/ Cleared("active")
    \/ Reloaded

(* thread_cond_signal wakes at most one worker. *)
LEMMA SignalWakes ==
    ASSUME thread_cond_signal, created' = created
    PROVE  Woken
  BY DEF thread_cond_signal, Goto, Woken

(* A step of another thread than a worker leaves the workers' nodes and the
   tasks alone. *)
LEMMA OthersFrame ==
    ASSUME TypeOK, Others
    PROVE  /\ UNCHANGED <<node, done, failed>>
           /\ Woken
           /\ ListsMoved
<1>1. CASE Supervisor
  <2> USE DEF SupOnly, taskVars, statusVars, Woken, ListsMoved, Cleared, listVars
  <2>1. CASE supervisor_spawn
    BY <2>1 DEF supervisor_spawn
  <2>2. CASE supervisor_listen
    BY <2>2 DEF supervisor_listen
  <2>3. CASE supervisor_exit_on_failure
    BY <2>3 DEF supervisor_exit_on_failure
  <2>4. CASE supervisor_do_exit_failure
    BY <2>4 DEF supervisor_do_exit_failure
  <2>5. CASE supervisor_do_exit_success
    BY <2>5 DEF supervisor_do_exit_success
  <2>6. CASE supervisor_exit_cleanup
    BY <2>6 DEF supervisor_exit_cleanup
  <2> QED
    BY <1>1, <2>1, <2>2, <2>3, <2>4, <2>5, <2>6 DEF Supervisor
<1>2. CASE Main
  <2> USE DEF MainOnly, taskVars, listVars, MainGoto
  <2>1. CASE thread_pool_start
    <3>1. Woken
      BY <2>1 DEF thread_pool_start, worker_crew_start, supervisor_start, thread_create,
                  Goto, Woken
    <3> QED
      BY <2>1, <3>1 DEF thread_pool_start, worker_crew_start, supervisor_start, ListsMoved
  <2>2. CASE thread_pool_await \/ thread_pool_alive
    BY <2>2 DEF thread_pool_await, thread_pool_alive, Woken, ListsMoved
  <2>3. CASE thread_pool_reload
    <3>1. Woken
      BY <2>3, SignalWakes DEF thread_pool_reload, WakeWorker
    <3> QED
      BY <2>3, <3>1 DEF thread_pool_reload, ListsMoved, Reloaded
  <2>4. CASE thread_pool_stop \/ thread_pool_await_exit_success
    BY <2>4 DEF thread_pool_stop, thread_pool_await_exit_success, Woken, ListsMoved
  <2>5. CASE PoolCallFails
    BY <2>5 DEF PoolCallFails, Woken, ListsMoved
  <2>6. CASE LivePoolFailure \/ Teardown
    BY <2>6 DEF LivePoolFailure, Teardown, Woken, ListsMoved
  <2> QED
    BY <1>2, <2>1, <2>2, <2>3, <2>4, <2>5, <2>6 DEF Main
<1>3. CASE SpuriousWakeup
  BY <1>3 DEF SpuriousWakeup, Woken, ListsMoved, taskVars, listVars
<1>4. CASE Exited \/ UNCHANGED vars
  BY <1>4 DEF Exited, vars, workerVars, mainVars, taskVars, Woken, ListsMoved
<1> QED
  BY <1>1, <1>2, <1>3, <1>4 DEF Others

(* What Woken means for one worker: it stays, or it starts looking at the
   backlog with nothing in its hands. *)
LEMMA WokenFacts ==
    ASSUME TypeOK, Woken
    PROVE  /\ wpc' \in [Workers -> WorkerStates]
           /\ created' \in 0..WorkerCount
           /\ \A w \in Workers : wpc'[w] = "none" <=> w > created'
           /\ \A w \in Workers : \/ wpc'[w] = wpc[w]
                                 \/ wpc[w] \in {"none", "wait"} /\ wpc'[w] = "pop"
<1> USE DEF TypeOK, WorkerStates
<1>0. WorkerCount \in Nat /\ created \in Nat /\ Workers \subseteq Nat
  BY PoolAssumption DEF Workers
<1>1. CASE UNCHANGED <<wpc, created>>
  BY <1>1
<1>2. CASE /\ created' = created
           /\ \E w \in Workers : wpc[w] = "wait" /\ wpc' = [wpc EXCEPT ![w] = "pop"]
  BY <1>2
<1>3. CASE /\ created < WorkerCount /\ created' = created + 1
           /\ wpc' = [wpc EXCEPT ![created + 1] = "pop"]
  <2>1. created + 1 \in Workers /\ wpc[created + 1] = "none"
    BY <1>0, <1>3 DEF Workers
  <2>2. \A w \in Workers : w > created + 1 <=> w > created /\ w # created + 1
    BY <1>0
  <2> QED
    BY <1>0, <1>3, <2>1, <2>2
<1> QED
  BY <1>1, <1>2, <1>3 DEF Woken

(* The lists keep their types. *)
LEMMA ListsMovedType ==
    ASSUME TypeOK, ListsMoved
    PROVE  ListTypeOK' /\ stage' \in 1..Len(Stages)
<1>0. /\ Len(Stages) \in Nat /\ NULL \in Pointers
      /\ {"backlog", "active", "complete"} \subseteq Lists
  BY ArrayFacts DEF Pointers
<1>1. CASE UNCHANGED listVars /\ stage' = stage
  BY <1>1 DEF TypeOK, ListTypeOK, listVars
<1>2. CASE Cleared("backlog") \/ Cleared("active")
  BY <1>0, <1>2 DEF Cleared, task_queue_clear, TypeOK, ListTypeOK
<1>3. CASE Reloaded
  <2>1. stage + 1 \in 1..Len(Stages)
    BY <1>0, <1>3 DEF Reloaded, TypeOK
  <2>2. Stages[stage + 1] \in Lists
    BY <2>1, ArrayFacts
  <2> QED
    BY <1>0, <1>3, <2>1, <2>2 DEF Reloaded, task_queue_reload, TypeOK, ListTypeOK
<1> QED
  BY <1>1, <1>2, <1>3 DEF ListsMoved

(* Main is where it may load a stage only while there is one. *)
LEMMA OthersStage ==
    ASSUME TypeOK, Others
    PROVE  mpc' \in {"alive", "reload"} => stage' < Len(Stages)
<1> USE DEF TypeOK
<1>1. CASE Supervisor
  <2>1. stage' = stage
    BY <1>1 DEF Supervisor, supervisor_spawn, supervisor_listen,
         supervisor_exit_on_failure, supervisor_do_exit_failure,
         supervisor_do_exit_success, supervisor_exit_cleanup, SupOnly
  <2>2. mpc' \in {mpc, "await_backlog", "await_active", "await_exit", "await_failure"}
    BY <1>1 DEF Supervisor, supervisor_spawn, supervisor_listen,
         supervisor_exit_on_failure, supervisor_do_exit_failure,
         supervisor_do_exit_success, supervisor_exit_cleanup, WakeMain, WakeDone
  <2> QED
    BY <2>1, <2>2
<1>2. CASE Main
  BY <1>2 DEF Main, thread_pool_start, worker_crew_start, supervisor_start,
       thread_pool_await, thread_pool_alive, thread_pool_reload, thread_pool_stop,
       thread_pool_await_exit_success, PoolCallFails, LivePoolFailure, Teardown, MainGoto
<1>3. CASE SpuriousWakeup
  BY <1>3 DEF SpuriousWakeup
<1>4. CASE Exited \/ UNCHANGED vars
  BY <1>4 DEF Exited, vars, mainVars
<1> QED
  BY <1>1, <1>2, <1>3, <1>4 DEF Others

(* The types survive such a step. *)
LEMMA OthersType ==
    ASSUME TypeOK, Others
    PROVE  TypeOK'
<1>1. UNCHANGED <<node, done, failed>> /\ Woken /\ ListsMoved
  BY OthersFrame
<1>2. /\ wpc' \in [Workers -> WorkerStates] /\ created' \in 0..WorkerCount
      /\ \A w \in Workers : wpc'[w] = "none" <=> w > created'
  BY <1>1, WokenFacts
<1>3. ListTypeOK' /\ stage' \in 1..Len(Stages)
  BY <1>1, ListsMovedType
<1>4. mpc' \in {"alive", "reload"} => stage' < Len(Stages)
  BY OthersStage
<1> QED
  BY <1>1, <1>2, <1>3, <1>4 DEF TypeOK

(* So does OnceInv: clearing a queue forgets nodes, and the stage that is
   loaded is one no worker has touched. *)
LEMMA OthersOnce ==
    ASSUME OnceInv, Others
    PROVE  OnceInv'
<1> USE DEF OnceInv
<1>1. UNCHANGED <<node, done, failed>> /\ Woken /\ ListsMoved
  BY OthersFrame
<1>2. TypeOK'
  BY OthersType
<1>3. PICK T : T = Touched /\ T = Touched'
  BY <1>1 DEF Touched, InHand
<1>4. Hands'
  <2>1. \A w \in Workers : \/ wpc'[w] = wpc[w]
                           \/ wpc[w] \in {"none", "wait"} /\ wpc'[w] = "pop"
    BY <1>1, WokenFacts
  <2>2. \A w \in Workers : HandOf(w)'
    BY <1>1, <2>1 DEF Hands, HandOf, Holds
  <2> QED
    BY <1>1, <2>2 DEF Hands
<1>5. CASE UNCHANGED listVars /\ stage' = stage
  BY <1>2, <1>3, <1>4, <1>5 DEF listVars
<1>6. ASSUME NEW q \in {"backlog", "active"}, Cleared(q)
      PROVE  OnceInv'
  <2>1. /\ next' = next /\ prev' = prev /\ stage' = stage
        /\ head'["backlog"] \in {head["backlog"], NULL}
        /\ \A l \in {"active", "complete"} : last'[l] \in {last[l], NULL}
        /\ \A k \in 1..Len(Stages) : head'[Stages[k]] = head[Stages[k]]
    BY <1>6, ArrayFacts DEF Cleared, task_queue_clear, TypeOK, ListTypeOK
  <2>2. Rest(T, stage, head'["backlog"])
    BY <1>3, <2>1 DEF Rest
  <2>3. Closed(T, last', next, prev)
    BY <1>3, <2>1 DEF Closed
  <2>4. StoresKept(head')
    BY <2>1 DEF StoresKept
  <2> QED
    BY <1>2, <1>3, <1>4, <2>1, <2>2, <2>3, <2>4
<1>7. CASE Reloaded
  <2>1. stage \in Nat /\ Len(Stages) \in Nat /\ stage + 1 \in 1..Len(Stages)
    BY <1>7, ArrayFacts DEF Reloaded, TypeOK
  <2>2. /\ next' = next /\ prev' = prev /\ stage' = stage + 1
        /\ head'["backlog"] = head[Stages[stage + 1]]
        /\ \A l \in {"active", "complete"} : last'[l] = last[l]
        /\ \A k \in 1..Len(Stages) : head'[Stages[k]] = head[Stages[k]]
    BY <1>7, <2>1, ArrayFacts DEF Reloaded, task_queue_reload, TypeOK, ListTypeOK
  <2>3. Later(T, stage + 1)
    BY <1>3, <2>1 DEF Later
  <2>4. Arrays(T, stage + 1, next)
    BY <1>3, <2>1 DEF Arrays
  <2>5. Rest(T, stage + 1, head'["backlog"])
    <3>1. head'["backlog"] = TaskAt(stage + 1, 1)
      BY <2>1, <2>2 DEF StoresKept
    <3>2. 1 \in 1..Size(stage + 1) /\ Size(stage + 1) \in Nat
      BY <2>1, ArrayFacts
    <3>3. \A j \in 1..Size(stage + 1) : TaskAt(stage + 1, j) \notin T
      BY <1>3, <2>1 DEF Later
    <3> QED
      BY <3>1, <3>2, <3>3 DEF Rest
  <2>6. Closed(T, last', next, prev)
    BY <1>3, <2>2 DEF Closed
  <2>7. StoresKept(head')
    BY <2>2 DEF StoresKept
  <2> QED
    BY <1>2, <1>3, <1>4, <2>2, <2>3, <2>4, <2>5, <2>6, <2>7
<1> QED
  BY <1>1, <1>5, <1>6, <1>7 DEF ListsMoved

-----------------------------------------------------------------------------
(* Steps of the workers *)

(* Whatever a worker does, main does not get to a place where it loads a
   stage, and nobody is created. *)
LEMMA WorkerFrame ==
    ASSUME NEW w \in Workers, Worker(w)
    PROVE  /\ stage' = stage /\ created' = created
           /\ mpc' \in {mpc, "await_backlog", "await_active"}
           /\ mpc' # mpc => mpc' = "await_backlog" \/ mpc = "wait_active"
<1> USE DEF mainVars, taskVars, statusVars, WakeMain
<1>1. CASE WorkerPop(w)
  BY <1>1 DEF WorkerPop
<1>2. CASE TaskReturns(w) \/ TaskFails(w) \/ FailureLogged(w)
  BY <1>2 DEF TaskReturns, TaskFails, FailureLogged
<1>3. CASE FailureSignalled(w) \/ WorkerCancelled(w) \/ WorkerPush(w)
  BY <1>3 DEF FailureSignalled, WorkerCancelled, WorkerPush
<1>4. CASE WorkerRemove(w)
  BY <1>4 DEF WorkerRemove
<1> QED
  BY <1>1, <1>2, <1>3, <1>4 DEF Worker

(* TypeOK follows from the types of what the worker wrote. *)
LEMMA WorkerType ==
    ASSUME TypeOK, NEW w \in Workers, Worker(w), NEW l \in WorkerStates \ {"none"},
           wpc[w] # "none", Goto(w, l), ListTypeOK', node' \in [Workers -> Pointers],
           done' \subseteq Nodes, failed' \subseteq Nodes
    PROVE  TypeOK'
<1>1. /\ stage' = stage /\ created' = created
      /\ mpc' \in {mpc, "await_backlog", "await_active"}
  BY WorkerFrame
<1>2. wpc' \in [Workers -> WorkerStates]
  BY DEF Goto, TypeOK
<1>3. \A v \in Workers : wpc'[v] = "none" <=> wpc[v] = "none"
  BY DEF Goto, TypeOK
<1> QED
  BY <1>1, <1>2, <1>3 DEF TypeOK

(* A step of a worker that stays within its own task: it returns, fails, is
   reported or cancelled, or finds the backlog empty. *)
WithinTask(w) ==
    \/ WorkerPop(w) /\ UNCHANGED listVars
    \/ TaskReturns(w) \/ TaskFails(w) \/ FailureLogged(w) \/ FailureSignalled(w)
    \/ WorkerCancelled(w)

(* What such a step changes: where the worker is, and whether its node counts
   as done or failed. *)
LEMMA WithinTaskFacts ==
    ASSUME OnceInv, NEW w \in Workers, WithinTask(w)
    PROVE  /\ UNCHANGED <<listVars, node, stage>>
           /\ \/ /\ wpc[w] = "pop" /\ Goto(w, "wait") /\ UNCHANGED <<done, failed>>
                 /\ head["backlog"] = NULL
              \/ /\ wpc[w] = "task" /\ Goto(w, "remove")
                 /\ done' = done \cup {node[w]} /\ failed' = failed
              \/ /\ wpc[w] = "task" /\ Goto(w, "log")
                 /\ failed' = failed \cup {node[w]} /\ done' = done
              \/ /\ wpc[w] = "log" /\ Goto(w, "signal") /\ UNCHANGED <<done, failed>>
              \/ /\ wpc[w] \in {"signal", "wait", "task", "log"} /\ Goto(w, "exited")
                 /\ UNCHANGED <<done, failed>>
                 /\ wpc[w] # "signal" => w \in cancelled
<1> USE DEF taskVars, mainVars, thread_cond_await, thread_exit
<1>1. CASE WorkerPop(w) /\ UNCHANGED listVars
  <2>1. CASE IsEmpty("backlog") /\ thread_cond_await(w) /\ UNCHANGED <<listVars, node, mpc>>
    BY <1>1, <2>1 DEF WorkerPop, IsEmpty
  <2>2. CASE task_queue_pop_push("backlog", "active")
    \* the node would be its own successor, or stay the head
    <3>1. PICK n : n = head["backlog"]
      OBVIOUS
    <3>2. n # NULL /\ n \in Nodes /\ "backlog" \in Lists /\ "active" \in Lists
      BY <3>1, <2>2, ArrayFacts DEF task_queue_pop_push, OnceInv, TypeOK, ListTypeOK,
                                    Pointers
    <3>3. head'["backlog"] = next[n] /\ last'["active"] = n
      BY <3>1, <3>2, <2>2 DEF task_queue_pop_push, OnceInv, TypeOK, ListTypeOK
    <3>4. last["active"] = n
      BY <3>3, <1>1 DEF listVars
    <3>5. n \in Touched
      BY <3>2, <3>4 DEF OnceInv, Closed
    <3>6. stage \in 1..Len(Stages)
      BY DEF OnceInv, TypeOK
    <3>7. n \notin Touched
      <4>1. PICK i \in 1..Size(stage) : /\ n = TaskAt(stage, i)
                                        /\ \A j \in i..Size(stage) :
                                              TaskAt(stage, j) \notin Touched
        BY <3>1, <3>2 DEF OnceInv, Rest
      <4>2. i \in i..Size(stage)
        BY <3>6, ArrayFacts
      <4> QED
        BY <4>1, <4>2
    <3> QED
      BY <3>5, <3>7
  <2> QED
    BY <1>1, <2>1, <2>2 DEF WorkerPop
<1>2. CASE TaskReturns(w) \/ TaskFails(w) \/ FailureLogged(w)
  BY <1>2 DEF TaskReturns, TaskFails, FailureLogged
<1>3. CASE FailureSignalled(w) \/ WorkerCancelled(w)
  BY <1>3 DEF FailureSignalled, WorkerCancelled
<1> QED
  BY <1>1, <1>2, <1>3 DEF WithinTask

(* It touches no other node than the one in the worker's hands. *)
LEMMA WithinTaskTouched ==
    ASSUME OnceInv, NEW w \in Workers, WithinTask(w)
    PROVE  Touched' = Touched
<1>1. /\ node' = node
      /\ done' \in {done, done \cup {node[w]}} /\ failed' \in {failed, failed \cup {node[w]}}
      /\ wpc[w] # "task" => UNCHANGED <<done, failed>>
  BY WithinTaskFacts
<1>2. wpc[w] = "task" => node[w] \in Nodes
  BY DEF OnceInv, TypeOK, Hands, HandOf, Holds, Pointers
<1>3. done \subseteq done' /\ failed \subseteq failed'
  BY <1>1
<1>4. done' \subseteq Touched /\ failed' \subseteq Touched
  BY <1>1, <1>2 DEF Touched, InHand
<1> QED
  BY <1>1, <1>3, <1>4 DEF Touched, InHand

(* Such a step preserves OnceInv: the node was in the worker's hands before,
   so nothing new is touched, and nobody else holds it. *)
LEMMA WithinTaskOnce ==
    ASSUME OnceInv, NEW w \in Workers, Worker(w), WithinTask(w)
    PROVE  OnceInv'
<1> USE DEF OnceInv
<1>1. UNCHANGED <<listVars, node, stage>>
  BY WithinTaskFacts
<1>2. PICK l \in {"wait", "remove", "log", "signal", "exited"} :
        /\ Goto(w, l)
        /\ l = "wait" => wpc[w] = "pop"
        /\ l \in {"remove", "log"} => wpc[w] = "task"
        /\ l = "signal" => wpc[w] = "log"
        /\ l = "exited" => wpc[w] \in {"signal", "wait", "task", "log"}
        /\ done' = IF l = "remove" THEN done \cup {node[w]} ELSE done
        /\ failed' = IF l = "log" THEN failed \cup {node[w]} ELSE failed
  BY WithinTaskFacts
<1>3. /\ \A v \in Workers : wpc'[v] = IF v = w THEN l ELSE wpc[v]
      /\ node \in [Workers -> Pointers]
  BY <1>2 DEF Goto, TypeOK
<1>4. l \in {"remove", "log"} => node[w] \in Nodes
  BY <1>2, <1>3 DEF Hands, HandOf, Holds, Pointers
<1>5. Touched' = Touched
  BY WithinTaskTouched
<1>6. TypeOK'
  <2>1. ListTypeOK' /\ node' \in [Workers -> Pointers]
    BY <1>1, <1>3 DEF TypeOK, ListTypeOK, listVars
  <2>2. done' \subseteq Nodes /\ failed' \subseteq Nodes
    BY <1>2, <1>4 DEF TypeOK
  <2>3. wpc[w] # "none" /\ l \in WorkerStates \ {"none"}
    BY <1>2 DEF WorkerStates
  <2> QED
    BY <1>2, <2>1, <2>2, <2>3, WorkerType
<1>7. Hands'
  <2>1. ASSUME NEW v \in Workers
        PROVE  HandOf(v)'
    <3>1. HandOf(v) /\ (v # w => node[v] # node[w] \/ node[v] = NULL)
      BY DEF Hands
    <3>2. CASE v = w
      BY <1>1, <1>2, <1>3, <3>1, <3>2 DEF HandOf, Holds
    <3>3. CASE v # w
      <4>1. wpc'[v] = wpc[v] /\ node'[v] = node[v]
        BY <1>1, <1>3, <3>3
      <4> QED
        BY <1>2, <3>1, <3>3, <4>1 DEF HandOf, Holds
    <3> QED
      BY <3>2, <3>3
  <2> QED
    BY <1>1, <2>1 DEF Hands
<1> QED
  BY <1>1, <1>5, <1>6, <1>7 DEF listVars

(* task_queue_pop_push by a worker: the node it takes, the node after it, and
   every pointer that is written. *)
Takes(w, n, m) ==
    /\ wpc[w] = "pop" /\ Goto(w, "task") /\ UNCHANGED <<stage, done, failed>>
    /\ n = head["backlog"] /\ n \in Nodes /\ m = next[n] /\ m \in Pointers
    /\ node' = [node EXCEPT ![w] = n]
    /\ head' = [head EXCEPT !["backlog"] = m,
                            !["active"] = IF last["active"] = NULL THEN n ELSE @]
    /\ last'["active"] = n /\ last'["complete"] = last["complete"]
    /\ prev' = [x \in Nodes |-> IF x = n THEN last["active"]
                                ELSE IF x = m THEN NULL ELSE prev[x]]
    /\ next' = [x \in Nodes |-> IF x = last["active"] THEN n
                                ELSE IF x = n THEN NULL ELSE next[x]]

(* A step of a worker stays within its task, takes a node, or moves its node
   on. *)
LEMMA WorkerCases ==
    ASSUME OnceInv, NEW w \in Workers, Worker(w)
    PROVE  \/ WithinTask(w)
           \/ \E n, m : Takes(w, n, m) /\ ListTypeOK'
           \/ WorkerRemove(w)
           \/ WorkerPush(w)
<1>1. CASE WorkerPop(w) /\ task_queue_pop_push("backlog", "active")
                        /\ node' = [node EXCEPT ![w] = head["backlog"]] /\ Goto(w, "task")
  <2>1. PICK n, m : n = head["backlog"] /\ m = next[n]
    OBVIOUS
  <2>2. n \in Nodes /\ m \in Pointers
    BY <1>1, <2>1, ArrayFacts DEF task_queue_pop_push, OnceInv, TypeOK, ListTypeOK, Pointers
  <2>3. {"backlog", "active", "complete"} \subseteq Lists /\ NULL \in Pointers
        /\ n \in Pointers
    BY <2>2, ArrayFacts DEF Pointers
  <2>4. ListTypeOK'
    BY <1>1, <2>1, <2>2, <2>3 DEF task_queue_pop_push, OnceInv, TypeOK, ListTypeOK
  <2>5. last'["active"] = n /\ last'["complete"] = last["complete"]
    BY <1>1, <2>1, <2>3 DEF task_queue_pop_push, OnceInv, TypeOK, ListTypeOK
  <2>6. Takes(w, n, m)
    BY <1>1, <2>1, <2>2, <2>5 DEF Takes, WorkerPop, task_queue_pop_push, taskVars
  <2> QED
    BY <2>4, <2>6
<1>2. CASE WorkerPop(w) /\ UNCHANGED listVars
  BY <1>2 DEF WithinTask
<1> QED
  BY <1>1, <1>2 DEF Worker, WithinTask, WorkerPop

(* The node a worker takes is an untouched task of the current stage, and the
   rest of the stage stays behind in the backlog. *)
LEMMA TakesFacts ==
    ASSUME OnceInv, NEW w \in Workers, NEW n, NEW m, Takes(w, n, m)
    PROVE  /\ n \notin Touched
           /\ Touched' = Touched \cup {n}
           /\ \E i \in 1..Size(stage) :
                /\ n = TaskAt(stage, i)
                /\ m = IF i = Size(stage) THEN NULL ELSE TaskAt(stage, i + 1)
                /\ \A j \in i..Size(stage) : TaskAt(stage, j) \notin Touched
<1> USE DEF OnceInv
<1>0. stage \in 1..Len(Stages) /\ Size(stage) \in Nat
  BY ArrayFacts DEF TypeOK
<1>1. PICK i \in 1..Size(stage) : /\ n = TaskAt(stage, i)
                                  /\ \A j \in i..Size(stage) :
                                        TaskAt(stage, j) \notin Touched
  BY NullAssumption DEF Rest, Takes
<1>2. n \notin Touched
  BY <1>0, <1>1
<1>3. m = IF i = Size(stage) THEN NULL ELSE TaskAt(stage, i + 1)
  BY <1>0, <1>1, <1>2 DEF Takes, Arrays
<1>4. Touched' = Touched \cup {n}
  <2>1. node[w] = NULL
    BY DEF Hands, HandOf, Takes
  <2>2. \A v \in Workers : node'[v] = IF v = w THEN n ELSE node[v]
    BY DEF Takes, TypeOK
  <2>3. \A x \in Nodes : x \in InHand' <=> x \in InHand \/ x = n
    BY <2>1, <2>2, NullAssumption DEF InHand
  <2>4. \A x : x \in Touched' <=> x \in Touched \/ x = n
    BY <2>3 DEF Touched, Takes, InHand
  <2> QED
    BY <2>4
<1> QED
  BY <1>1, <1>2, <1>3, <1>4

(* Taking a node preserves OnceInv. *)
LEMMA TakesOnce ==
    ASSUME OnceInv, NEW w \in Workers, Worker(w), NEW n, NEW m, Takes(w, n, m),
           ListTypeOK'
    PROVE  OnceInv'
<1> USE DEF OnceInv
<1>0. /\ stage \in 1..Len(Stages) /\ Len(Stages) \in Nat /\ Size(stage) \in Nat
      /\ {"backlog", "active", "complete"} \subseteq Lists
      /\ stage' = stage
  BY ArrayFacts DEF TypeOK, Takes
<1>1. PICK i \in 1..Size(stage) :
                /\ n = TaskAt(stage, i)
                /\ m = IF i = Size(stage) THEN NULL ELSE TaskAt(stage, i + 1)
                /\ \A j \in i..Size(stage) : TaskAt(stage, j) \notin Touched
  BY TakesFacts
<1>2. PICK T, U : T = Touched /\ U = Touched' /\ U = T \cup {n} /\ n \notin T
  BY TakesFacts
<1>3. TypeOK'
  <2>1. node' \in [Workers -> Pointers] /\ done' \subseteq Nodes /\ failed' \subseteq Nodes
    BY DEF Takes, TypeOK, Pointers
  <2> QED
    BY <2>1, WorkerType DEF Takes, WorkerStates
<1>4. \A v \in Workers : /\ node'[v] = IF v = w THEN n ELSE node[v]
                         /\ wpc'[v] = IF v = w THEN "task" ELSE wpc[v]
  BY DEF Takes, TypeOK, Goto
<1>5. \A v \in Workers : node[v] # n
  BY <1>2 DEF Touched, InHand, Takes
<1>6. Hands'
  <2>1. ASSUME NEW v \in Workers
        PROVE  HandOf(v)'
    <3>1. CASE v = w
      <4>1. n # NULL /\ n \notin done \cup failed
        BY <1>2, NullAssumption DEF Touched, Takes
      <4> QED
        BY <1>4, <3>1, <4>1 DEF HandOf, Holds, Takes
    <3>2. CASE v # w
      BY <1>4, <3>2 DEF Hands, HandOf, Holds, Takes
    <3> QED
      BY <3>1, <3>2
  <2> QED
    BY <1>4, <1>5, <2>1 DEF Hands
<1>7. Later(U, stage)
  BY <1>0, <1>1, <1>2, ArrayFacts DEF Later
<1>8. Rest(U, stage, head'["backlog"])
  <2>1. head'["backlog"] = m
    BY <1>0 DEF Takes, TypeOK, ListTypeOK
  <2>2. CASE i = Size(stage)
    BY <1>1, <2>1, <2>2 DEF Rest
  <2>3. CASE i # Size(stage)
    <3>1. i + 1 \in 1..Size(stage) /\ \A j \in i + 1..Size(stage) : j \in i..Size(stage)
                                                                  /\ j # i
      BY <1>0, <2>3
    <3>2. \A j \in i + 1..Size(stage) : TaskAt(stage, j) \notin U
      BY <1>0, <1>1, <1>2, <3>1, ArrayFacts
    <3> QED
      BY <1>1, <2>1, <2>3, <3>1, <3>2 DEF Rest
  <2> QED
    BY <2>2, <2>3
<1>9. last["active"] \in T \cup {NULL} /\ last["complete"] \in T \cup {NULL}
  BY <1>2 DEF Closed
<1>10. Arrays(U, stage, next')
  <2> SUFFICES ASSUME NEW k \in 1..Len(Stages), NEW j \in 1..Size(k), k >= stage,
                      TaskAt(k, j) \notin U
               PROVE  next'[TaskAt(k, j)]
                        = IF j = Size(k) THEN NULL ELSE TaskAt(k, j + 1)
    BY DEF Arrays
  <2>1. PICK x \in Nodes : x = TaskAt(k, j)
    BY ArrayFacts
  <2>2. x \notin T /\ x # n /\ x # last["active"]
    BY <1>2, <1>9, <2>1, NullAssumption
  <2>3. next'[x] = next[x]
    BY <2>2 DEF Takes
  <2> QED
    BY <1>2, <2>1, <2>2, <2>3 DEF Arrays
<1>11. Closed(U, last', next', prev')
  <2>1. last'["active"] \in U \cup {NULL} /\ last'["complete"] \in U \cup {NULL}
    BY <1>2, <1>9 DEF Takes
  <2>2. T \subseteq Nodes /\ n \in Nodes
    BY <1>2 DEF Touched, InHand, TypeOK, Takes
  <2>3. ASSUME NEW x \in U
        PROVE  next'[x] \in U \cup {NULL} /\ prev'[x] \in U \cup {NULL}
    <3>1. x \in Nodes
      BY <1>2, <2>2
    <3>2. x # n => next[x] \in T \cup {NULL} /\ prev[x] \in T \cup {NULL}
      BY <1>2 DEF Closed
    <3>3. next'[x] \in {n, NULL} \/ (x # n /\ next'[x] = next[x])
      BY <3>1 DEF Takes
    <3>4. prev'[x] \in {last["active"], NULL} \/ (x # n /\ prev'[x] = prev[x])
      BY <3>1 DEF Takes
    <3> QED
      BY <1>2, <1>9, <3>2, <3>3, <3>4
  <2> QED
    BY <2>1, <2>3 DEF Closed
<1>12. StoresKept(head')
  BY ArrayFacts DEF StoresKept, Takes, TypeOK, ListTypeOK
<1> QED
  BY <1>0, <1>2, <1>3, <1>6, <1>7, <1>8, <1>10, <1>11, <1>12

(* What task_queue_remove and task_queue_push are given is a task that has
   returned, and they write to touched nodes only. *)
LEMMA MovedOnOnce ==
    ASSUME OnceInv, NEW w \in Workers, Worker(w), WorkerRemove(w) \/ WorkerPush(w)
    PROVE  OnceInv'
<1> USE DEF OnceInv
<1>0. /\ {"backlog", "active", "complete"} \subseteq Lists /\ NULL \in Pointers
      /\ Nodes \subseteq Pointers
  BY ArrayFacts DEF Pointers
<1>1. PICK n \in Nodes : n = node[w] /\ n \in done /\ wpc[w] \in {"remove", "push"}
  <2>1. wpc[w] \in {"remove", "push"}
    BY DEF WorkerRemove, WorkerPush
  <2> QED
    BY <2>1 DEF Hands, HandOf, TypeOK
<1>2. PICK l \in {"push", "pop"} :
        /\ Goto(w, l)
        /\ l = "push" => node' = node
        /\ l = "pop" => node' = [node EXCEPT ![w] = NULL]
        /\ UNCHANGED <<stage, done, failed>>
  BY DEF WorkerRemove, WorkerPush, taskVars, mainVars
<1>3. \A v \in Workers : /\ wpc'[v] = IF v = w THEN l ELSE wpc[v]
                         /\ v # w => node'[v] = node[v]
                         /\ node'[w] = IF l = "pop" THEN NULL ELSE n
  BY <1>1, <1>2 DEF Goto, TypeOK
<1>4. Touched' = Touched
  <2>1. \A x \in Nodes : x # n => (x \in InHand' <=> x \in InHand)
    BY <1>1, <1>3, NullAssumption DEF InHand
  <2>2. n \in Touched /\ n \in Touched'
    BY <1>1, <1>2 DEF Touched
  <2>3. \A x : x \in Touched' <=> x \in Touched
    BY <1>2, <2>1, <2>2 DEF Touched, InHand
  <2> QED
    BY <2>3
<1>5. PICK T : T = Touched /\ T = Touched' /\ n \in T /\ T \subseteq Nodes
  BY <1>1, <1>4 DEF Touched, InHand, TypeOK
<1>6. Hands'
  <2>1. ASSUME NEW v \in Workers
        PROVE  HandOf(v)'
    <3>1. CASE v = w
      BY <1>1, <1>2, <1>3, <3>1, NullAssumption DEF HandOf, Holds
    <3>2. CASE v # w
      BY <1>2, <1>3, <3>2 DEF Hands, HandOf, Holds
    <3> QED
      BY <3>1, <3>2
  <2>2. \A v \in Workers : node'[v] # NULL => node'[v] = node[v]
    BY <1>1, <1>3
  <2> QED
    BY <2>1, <2>2 DEF Hands
<1>7. PICK nn, pp : /\ nn = next[n] /\ pp = prev[n] /\ nn \in T \cup {NULL}
                    /\ pp \in T \cup {NULL} /\ nn \in Pointers /\ pp \in Pointers
  BY <1>1, <1>5 DEF Closed, TypeOK, ListTypeOK
<1>8. /\ last["active"] \in T \cup {NULL} /\ last["complete"] \in T \cup {NULL}
      /\ \A x \in T : next[x] \in T \cup {NULL} /\ prev[x] \in T \cup {NULL}
  BY <1>5 DEF Closed
<1>9. /\ ListTypeOK'
      /\ head'["backlog"] = head["backlog"]
      /\ \A k \in 1..Len(Stages) : head'[Stages[k]] = head[Stages[k]]
      /\ last'["active"] \in T \cup {NULL} /\ last'["complete"] \in T \cup {NULL}
      /\ \A x \in Nodes : /\ next'[x] # next[x] => x \in T /\ next'[x] \in T \cup {NULL}
                          /\ prev'[x] # prev[x] => x \in T /\ prev'[x] \in T \cup {NULL}
  <2>1. CASE WorkerRemove(w)
    <3>1. /\ head' = IF pp = NULL THEN [head EXCEPT !["active"] = nn] ELSE head
          /\ last' = IF nn = NULL THEN [last EXCEPT !["active"] = pp] ELSE last
          /\ next' = [x \in Nodes |-> IF x = pp THEN nn ELSE next[x]]
          /\ prev' = [x \in Nodes |-> IF x = nn THEN pp ELSE prev[x]]
      BY <1>1, <1>7, <2>1 DEF WorkerRemove, task_queue_remove
    <3>2. ListTypeOK'
      BY <1>0, <1>7, <3>1 DEF TypeOK, ListTypeOK
    <3>3. /\ head'["backlog"] = head["backlog"]
          /\ \A k \in 1..Len(Stages) : head'[Stages[k]] = head[Stages[k]]
      BY <3>1, ArrayFacts DEF TypeOK, ListTypeOK
    <3>4. last'["active"] \in T \cup {NULL} /\ last'["complete"] \in T \cup {NULL}
      BY <1>0, <1>7, <1>8, <3>1 DEF TypeOK, ListTypeOK
    <3>5. ASSUME NEW x \in Nodes
          PROVE  /\ next'[x] # next[x] => x \in T /\ next'[x] \in T \cup {NULL}
                 /\ prev'[x] # prev[x] => x \in T /\ prev'[x] \in T \cup {NULL}
      BY <1>7, <3>1, NullAssumption
    <3> QED
      BY <3>2, <3>3, <3>4, <3>5
  <2>2. CASE WorkerPush(w)
    <3>1. PICK t : t = last["complete"] /\ t \in Pointers
      BY <1>0 DEF TypeOK, ListTypeOK
    <3>2. /\ next' = [x \in Nodes |-> IF x = t THEN n
                                      ELSE IF x = n THEN NULL ELSE next[x]]
          /\ prev' = [prev EXCEPT ![n] = t]
          /\ head' = IF t = NULL THEN [head EXCEPT !["complete"] = n] ELSE head
          /\ last' = [last EXCEPT !["complete"] = n]
      BY <1>1, <3>1, <2>2 DEF WorkerPush, task_queue_push
    <3>3. ListTypeOK'
      BY <1>0, <3>1, <3>2 DEF TypeOK, ListTypeOK
    <3>4. /\ head'["backlog"] = head["backlog"]
          /\ \A k \in 1..Len(Stages) : head'[Stages[k]] = head[Stages[k]]
      BY <3>2, ArrayFacts DEF TypeOK, ListTypeOK
    <3>5. last'["active"] \in T \cup {NULL} /\ last'["complete"] \in T \cup {NULL}
      BY <1>0, <1>5, <1>8, <3>2 DEF TypeOK, ListTypeOK
    <3>6. ASSUME NEW x \in Nodes
          PROVE  /\ next'[x] # next[x] => x \in T /\ next'[x] \in T \cup {NULL}
                 /\ prev'[x] # prev[x] => x \in T /\ prev'[x] \in T \cup {NULL}
      <4>1. next'[x] # next[x] => x \in {t, n} /\ next'[x] \in {n, NULL}
        BY <3>2
      <4>2. prev'[x] # prev[x] => x = n /\ prev'[x] = t
        BY <3>2 DEF TypeOK, ListTypeOK
      <4> QED
        BY <1>5, <1>8, <3>1, <4>1, <4>2, NullAssumption
    <3> QED
      BY <3>3, <3>4, <3>5, <3>6
  <2> QED
    BY <2>1, <2>2
<1>10. TypeOK'
  <2>1. node' \in [Workers -> Pointers] /\ done' \subseteq Nodes /\ failed' \subseteq Nodes
    BY <1>0, <1>2 DEF TypeOK
  <2> QED
    BY <1>1, <1>2, <1>9, <2>1, WorkerType DEF WorkerStates
<1>11. Arrays(T, stage, next')
  <2> SUFFICES ASSUME NEW k \in 1..Len(Stages), NEW j \in 1..Size(k), k >= stage,
                      TaskAt(k, j) \notin T
               PROVE  next'[TaskAt(k, j)]
                        = IF j = Size(k) THEN NULL ELSE TaskAt(k, j + 1)
    BY DEF Arrays
  <2>1. next'[TaskAt(k, j)] = next[TaskAt(k, j)]
    BY <1>9, ArrayFacts
  <2> QED
    BY <1>5, <2>1 DEF Arrays
<1>12. Closed(T, last', next', prev')
  BY <1>5, <1>8, <1>9 DEF Closed
<1>13. StoresKept(head')
  BY <1>9 DEF StoresKept
<1> QED
  BY <1>2, <1>5, <1>6, <1>9, <1>10, <1>11, <1>12, <1>13

(* OnceInv is inductive. *)
LEMMA OnceInvStep ==
    ASSUME OnceInv, [Next]_vars
    PROVE  OnceInv'
<1>1. CASE \E w \in Workers : Worker(w)
  <2>1. PICK w \in Workers : Worker(w)
    BY <1>1
  <2>2. CASE WithinTask(w)
    BY <2>1, <2>2, WithinTaskOnce
  <2>3. CASE \E n, m : Takes(w, n, m) /\ ListTypeOK'
    BY <2>1, <2>3, TakesOnce
  <2>4. CASE WorkerRemove(w) \/ WorkerPush(w)
    BY <2>1, <2>4, MovedOnOnce
  <2> QED
    BY <2>1, <2>2, <2>3, <2>4, WorkerCases
<1>2. CASE Others
  BY <1>2, OthersOnce
<1> QED
  BY <1>1, <1>2 DEF Next, Others

(* Each task runs at most once and in one worker only: whatever fails, and
   however supervisor_do_exit_failure clears the queues under running workers,
   task_queue_pop_push hands a node of the backlog to one worker, and no node
   comes back into the backlog. *)
THEOREM TasksRunOnce == Spec => []RunOnce
<1>1. OnceInv => RunOnce
  BY DEF OnceInv, Hands, HandOf, RunOnce, Holds
<1> QED
  BY InitOnceInv, OnceInvStep, <1>1, PTL DEF Spec

-----------------------------------------------------------------------------
(* NoLostWakeup *)

(* Nobody takes a cancellation or a failure back. *)
LEMMA CancelledKept ==
    ASSUME [Next]_vars
    PROVE  cancelled \subseteq cancelled'
<1>1. ASSUME NEW w \in Workers, Worker(w)
      PROVE  cancelled' = cancelled
  BY <1>1 DEF Worker, WorkerPop, TaskReturns, TaskFails, FailureLogged, FailureSignalled,
              WorkerRemove, WorkerPush, WorkerCancelled
<1>2. CASE Supervisor
  BY <1>2 DEF Supervisor, supervisor_spawn, supervisor_listen,
       supervisor_exit_on_failure, supervisor_do_exit_failure,
       supervisor_do_exit_success, supervisor_exit_cleanup, worker_crew_cancel,
       thread_cancel
<1>3. CASE Main
  <2>1. CASE thread_pool_start
    BY <2>1 DEF thread_pool_start, worker_crew_start, supervisor_start,
                worker_crew_cancel, thread_cancel
  <2>2. CASE PoolCallFails
    BY <2>2 DEF PoolCallFails, thread_pool_cancel, worker_crew_cancel, thread_cancel
  <2> QED
    BY <1>3, <2>1, <2>2 DEF Main, thread_pool_await, thread_pool_alive,
         thread_pool_reload, thread_pool_stop, thread_pool_await_exit_success,
         LivePoolFailure, Teardown
<1>4. CASE SpuriousWakeup \/ Exited \/ UNCHANGED vars
  BY <1>4 DEF SpuriousWakeup, Exited, vars, workerVars
<1> QED
  BY <1>1, <1>2, <1>3, <1>4 DEF Next

(* A worker that will look at the backlog again. *)
Looking(v) == wpc[v] \in {"pop", "task", "remove", "push"}

(* Once all workers are created and none was cancelled or has failed, each is
   looking at the backlog, or waits. *)
LEMMA LookingOrWaiting ==
    ASSUME OnceInv, WakeInv, created = WorkerCount, cancelled = {}, failed = {}
    PROVE  \A v \in Workers : Looking(v) \/ wpc[v] = "wait"
<1>1. \A v \in Workers : wpc[v] # "none"
  BY PoolAssumption DEF OnceInv, TypeOK, Workers
<1> QED
  BY <1>1 DEF WakeInv, OnceInv, TypeOK, WorkerStates, Looking

(* A worker's step preserves WakeInv: it waits only when the backlog is empty,
   and otherwise is itself the one that looks again, unless it failed. *)
LEMMA WorkerWake ==
    ASSUME OnceInv, WakeInv, NEW w \in Workers, Worker(w)
    PROVE  WakeInv'
<1>0. /\ created' = created /\ cancelled' = cancelled
  BY WorkerFrame DEF Worker, WorkerPop, TaskReturns, TaskFails, FailureLogged,
       FailureSignalled, WorkerRemove, WorkerPush, WorkerCancelled
<1>1. CASE WithinTask(w)
  <2>0. head' = head /\ \A v \in Workers : v # w => wpc'[v] = wpc[v]
    BY <1>1, WithinTaskFacts DEF Goto, OnceInv, TypeOK, listVars
  <2>1. CASE wpc[w] = "pop" /\ Goto(w, "wait") /\ UNCHANGED <<done, failed>>
             /\ head["backlog"] = NULL
    <3>1. wpc'[w] = "wait"
      BY <2>1 DEF Goto, OnceInv, TypeOK
    <3> QED
      BY <1>0, <2>0, <2>1, <3>1 DEF WakeInv, NoLostWakeup
  <2>2. CASE wpc[w] = "task" /\ Goto(w, "remove") /\ failed' = failed
    <3>1. wpc'[w] = "remove"
      BY <2>2 DEF Goto, OnceInv, TypeOK
    <3> QED
      BY <1>0, <2>0, <2>2, <3>1 DEF WakeInv, NoLostWakeup
  <2>3. CASE failed' # {} /\ failed \subseteq failed'
    <3>1. \A v \in Workers : v # w => wpc'[v] = wpc[v]
      BY <2>0
    <3> QED
      BY <1>0, <2>0, <2>3 DEF WakeInv, NoLostWakeup
  <2>4. CASE Goto(w, "exited") /\ UNCHANGED <<done, failed>> /\ w \in cancelled
    <3>1. wpc'[w] = "exited"
      BY <2>4 DEF Goto, OnceInv, TypeOK
    <3>2. cancelled' # {}
      BY <1>0, <2>4
    <3> QED
      BY <1>0, <2>0, <2>4, <3>1, <3>2 DEF WakeInv, NoLostWakeup
  <2>5. wpc[w] \in {"log", "signal"} => failed # {}
    BY DEF WakeInv
  <2> QED
    BY <1>1, <2>1, <2>2, <2>3, <2>4, <2>5, WithinTaskFacts
<1>2. ASSUME NEW l \in {"task", "push", "pop"}, Goto(w, l), failed' = failed
      PROVE  WakeInv'
  <2>1. \A v \in Workers : wpc'[v] = IF v = w THEN l ELSE wpc[v]
    BY <1>2 DEF Goto, OnceInv, TypeOK
  <2> QED
    BY <1>0, <1>2, <2>1 DEF WakeInv, NoLostWakeup
<1>3. CASE \E n, m : Takes(w, n, m)
  BY <1>2, <1>3 DEF Takes
<1>4. CASE WorkerRemove(w) \/ WorkerPush(w)
  BY <1>2, <1>4 DEF WorkerRemove, WorkerPush, taskVars
<1> QED
  BY <1>1, <1>3, <1>4, WorkerCases

(* So does a step of another thread: loading a stage signals node_ready, which
   wakes a worker if there is one to wake. *)
LEMMA OthersWake ==
    ASSUME OnceInv, WakeInv, Others
    PROVE  WakeInv'
<1>1. UNCHANGED <<node, done, failed>> /\ Woken /\ ListsMoved
  BY OthersFrame DEF OnceInv
<1>2. \A v \in Workers : \/ wpc'[v] = wpc[v]
                         \/ wpc[v] \in {"none", "wait"} /\ wpc'[v] = "pop"
  BY <1>1, WokenFacts DEF OnceInv
<1>3. cancelled \subseteq cancelled'
  <2>1. [Next]_vars
    BY DEF Others, Next
  <2> QED
    BY <2>1, CancelledKept
<1>4. \A v \in Workers : /\ wpc'[v] = "exited" => cancelled' # {} \/ failed' # {}
                         /\ wpc'[v] \in {"log", "signal"} => failed' # {}
  BY <1>1, <1>2, <1>3 DEF WakeInv
<1>5. NoLostWakeup'
  <2> SUFFICES ASSUME head'["backlog"] # NULL, created' = WorkerCount,
                      cancelled' = {}, failed' = {}
               PROVE  \E v \in Workers : Looking(v)'
    BY DEF NoLostWakeup, Looking
  <2>1. CASE \E v \in Workers : wpc'[v] = "pop"
    BY <2>1 DEF Looking
  <2>2. CASE ~\E v \in Workers : wpc'[v] = "pop"
    <3>1. \A v \in Workers : wpc'[v] = wpc[v]
      BY <1>2, <2>2
    <3>2. created = WorkerCount
      <4>1. CASE created' = created
        BY <4>1
      <4>2. CASE /\ created < WorkerCount /\ created' = created + 1
                 /\ wpc' = [wpc EXCEPT ![created + 1] = "pop"]
        <5>1. created + 1 \in Workers
          BY <4>2, PoolAssumption DEF OnceInv, TypeOK, Workers
        <5> QED
          BY <4>2, <5>1, <2>2 DEF OnceInv, TypeOK
      <4> QED
        BY <1>1, <4>1, <4>2 DEF Woken
    <3>3. cancelled = {} /\ failed = {}
      BY <1>1, <1>3
    <3>4. CASE head["backlog"] # NULL
      BY <3>1, <3>2, <3>3, <3>4 DEF WakeInv, NoLostWakeup, Looking
    <3>5. CASE head["backlog"] = NULL
      <4>1. "backlog" \in Lists
        BY ArrayFacts
      <4>2. Reloaded
        BY <1>1, <3>5, <4>1 DEF ListsMoved, Cleared, task_queue_clear, listVars, OnceInv,
                                TypeOK, ListTypeOK
      <4>3. thread_pool_reload
        BY <4>2 DEF Others, Reloaded, Supervisor, supervisor_spawn, supervisor_listen,
             supervisor_exit_on_failure, supervisor_do_exit_failure,
             supervisor_do_exit_success, supervisor_exit_cleanup, SupOnly, SupGoto,
             Main, thread_pool_start, worker_crew_start, supervisor_start,
             thread_pool_await, thread_pool_alive, thread_pool_stop,
             thread_pool_await_exit_success, PoolCallFails, LivePoolFailure, Teardown,
             MainGoto, SpuriousWakeup, Exited, Running, vars, mainVars
      <4>4. \A v \in Workers : wpc[v] # "wait"
        <5> SUFFICES ASSUME NEW v \in Workers, wpc[v] = "wait"
                     PROVE  FALSE
          OBVIOUS
        <5>1. PICK u \in Workers : wpc[u] = "wait" /\ Goto(u, "pop")
          BY <4>3 DEF thread_pool_reload, WakeWorker, thread_cond_signal
        <5> QED
          BY <5>1, <2>2 DEF Goto, OnceInv, TypeOK
      <4>5. 1 \in Workers
        BY PoolAssumption DEF Workers
      <4> QED
        BY <3>1, <3>2, <3>3, <4>4, <4>5, LookingOrWaiting DEF Looking
    <3> QED
      BY <3>4, <3>5
  <2> QED
    BY <2>1, <2>2
<1> QED
  BY <1>4, <1>5 DEF WakeInv

(* No wakeup is lost: although node_ready is signalled once per reload and not
   once per node, a backlog with nodes always has a worker that will look at
   it again, as long as none was cancelled or has failed. *)
THEOREM WakeupsSuffice == Spec => []NoLostWakeup
<1>1. Init => WakeInv
  BY PoolAssumption DEF Init, WakeInv, NoLostWakeup
<1>2. OnceInv /\ WakeInv /\ [Next]_vars => WakeInv'
  BY WorkerWake, OthersWake DEF Next, Others
<1>3. WakeInv => NoLostWakeup
  BY DEF WakeInv
<1> QED
  BY InitOnceInv, OnceInvStep, <1>1, <1>2, <1>3, PTL DEF Spec

-----------------------------------------------------------------------------
(* SuccessIsComplete and FailureNotOverwritten *)

(* A queue that has been cleared is never intact again. *)
LEMMA IntactBefore ==
    ASSUME mpc \in {"start", "create"} => spc = "none", [Next]_vars
    PROVE  /\ mpc' \in {"start", "create"} => spc' = "none"
           /\ Intact' => Intact
<1>1. CASE \E w \in Workers : Worker(w)
  <2>1. PICK w \in Workers : Worker(w)
    BY <1>1
  <2>2. spc' = spc \/ (spc = "wait" /\ spc' = "listen")
    <3>1. CASE FailureSignalled(w)
      BY <3>1 DEF FailureSignalled, WakeSupervisor
    <3>2. CASE ~FailureSignalled(w)
      BY <2>1, <3>2 DEF Worker, WorkerPop, TaskReturns, TaskFails, FailureLogged,
           WorkerRemove, WorkerPush, WorkerCancelled, supVars
    <3> QED
      BY <3>1, <3>2
  <2>3. mpc' \in {mpc, "await_backlog", "await_active"}
    BY <2>1, WorkerFrame
  <2> QED
    BY <2>2, <2>3 DEF Intact
<1>2. CASE Supervisor
  <2>1. spc # "none" /\ mpc' \in {mpc, "await_backlog", "await_active", "await_exit",
                                  "await_failure"}
    BY <1>2 DEF Supervisor, supervisor_spawn, supervisor_listen,
         supervisor_exit_on_failure, supervisor_do_exit_failure,
         supervisor_do_exit_success, supervisor_exit_cleanup, WakeMain, WakeDone
  <2>2. Intact' => Intact
    BY <1>2 DEF Supervisor, supervisor_spawn, supervisor_listen,
         supervisor_exit_on_failure, supervisor_do_exit_failure,
         supervisor_do_exit_success, supervisor_exit_cleanup, Intact, SupGoto,
         thread_key_create, thread_key_set
  <2> QED
    BY <2>1, <2>2
<1>3. CASE Main
  <2>1. CASE thread_pool_start
    BY <2>1 DEF thread_pool_start, worker_crew_start, supervisor_start, MainGoto, Intact
  <2>2. CASE ~thread_pool_start
    BY <1>3, <2>2 DEF Main, thread_pool_await, thread_pool_alive, thread_pool_reload,
         thread_pool_stop, thread_pool_await_exit_success, PoolCallFails,
         LivePoolFailure, Teardown, MainGoto, WakeSupervisor, Intact
  <2> QED
    BY <2>1, <2>2
<1>4. CASE SpuriousWakeup \/ Exited \/ UNCHANGED vars
  BY <1>4 DEF SpuriousWakeup, Exited, vars, supVars, mainVars, Intact
<1> QED
  BY <1>1, <1>2, <1>3, <1>4 DEF Next

(* A finished run stays finished: there is no task left that could fail. *)
LEMMA FinishedKept ==
    ASSUME OnceInv, Finished, [Next]_vars
    PROVE  Finished'
<1>1. \A n \in Nodes : n \in done
  BY NodeInArray, StageTasksFacts DEF Finished
<1>2. \A w \in Workers : wpc[w] # "task"
  BY <1>1 DEF OnceInv, TypeOK, Hands, HandOf, Holds, Pointers
<1>3. failed' = failed /\ done \subseteq done'
  <2>1. ASSUME NEW w \in Workers, Worker(w)
        PROVE  failed' = failed /\ done' = done
    BY <1>2, <2>1 DEF Worker, WorkerPop, TaskReturns, TaskFails, FailureLogged,
         FailureSignalled, WorkerRemove, WorkerPush, WorkerCancelled, taskVars
  <2>2. CASE Others
    BY <2>2, OthersFrame DEF OnceInv
  <2> QED
    BY <2>1, <2>2 DEF Next, Others
<1> QED
  BY <1>3 DEF Finished

(* Once the backlog and the active queue are empty the stage is over: nothing
   has failed, and all its tasks have returned. *)
LEMMA StageOver ==
    ASSUME OnceInv, HandedInv, head["backlog"] = NULL, Active = {}
    PROVE  failed = {} /\ \A k \in 1..stage : StageTasks(k) \subseteq done
<1>1. failed = {}
  <2> SUFFICES ASSUME NEW n \in failed
               PROVE  FALSE
    OBVIOUS
  <2>1. PICK w \in Workers : node[w] = n /\ wpc[w] \in {"log", "signal", "exited"}
    BY DEF HandedInv
  <2> QED
    BY <2>1 DEF Active, OnceInv, TypeOK
<1>2. InHand \subseteq done
  BY DEF InHand, Active, OnceInv, Hands, HandOf
<1>3. stage \in 1..Len(Stages) /\ stage \in Nat
  BY DEF OnceInv, TypeOK
<1>4. \A j \in 1..Size(stage) : TaskAt(stage, j) \in Touched
  <2>1. \A i \in 1..Size(stage) : TaskAt(stage, i) # NULL
    BY <1>3, ArrayFacts, NullAssumption
  <2> QED
    BY <2>1 DEF HandedInv, Given
<1>5. StageTasks(stage) \subseteq done
  BY <1>1, <1>2, <1>3, <1>4, StageTasksFacts DEF Touched
<1>6. \A k \in 1..stage : k \in 1..stage - 1 \/ k = stage
  BY <1>3
<1> QED
  BY <1>1, <1>5, <1>6 DEF HandedInv

(* Active as a chain is empty exactly when the queue says so. *)
LEMMA ActiveEmpty ==
    ASSUME HandedInv
    PROVE  head["active"] = NULL <=> Active = {}
<1>1. PICK s \in Seq(Nodes) : /\ ToSet(s) = Active
                              /\ Spans(s, head["active"], last["active"], next, prev)
  BY DEF HandedInv, SpansActive
<1>2. head["active"] = NULL <=> s = <<>>
  BY <1>1, SpansEnds
<1>3. s = <<>> <=> ToSet(s) = {}
  <2>1. CASE s = <<>>
    BY <2>1 DEF ToSet
  <2>2. CASE s # <<>>
    <3>1. 1 \in DOMAIN s
      BY <2>2
    <3> QED
      BY <2>2, <3>1 DEF ToSet
  <2> QED
    BY <2>1, <2>2
<1> QED
  BY <1>1, <1>2, <1>3

(* HandedInv, for a step of a worker within its task. *)
LEMMA WithinTaskHanded ==
    ASSUME OnceInv, HandedInv, NEW w \in Workers, Worker(w), WithinTask(w)
    PROVE  HandedInv'
<1>1. /\ UNCHANGED <<head, last, next, prev, node, stage>>
      /\ Touched' = Touched
  BY WithinTaskFacts, WithinTaskTouched DEF listVars
<1>2. PICK l \in {"wait", "remove", "log", "signal", "exited"} :
        /\ Goto(w, l)
        /\ l = "signal" => wpc[w] = "log"
        /\ l = "exited" => wpc[w] \in {"signal", "wait", "task", "log"}
        /\ l \in {"remove", "log"} => wpc[w] = "task"
        /\ l = "wait" => wpc[w] = "pop"
        /\ done \subseteq done'
        /\ failed' = IF l = "log" THEN failed \cup {node[w]} ELSE failed
  BY WithinTaskFacts
<1>3. \A v \in Workers : wpc'[v] = IF v = w THEN l ELSE wpc[v]
  BY <1>2 DEF Goto, OnceInv, TypeOK
<1>4. wpc[w] # "push"
  BY <1>2
<1>5. Active' = Active
  BY <1>1, <1>3, <1>4 DEF Active
<1>6. \A n \in failed' : \E v \in Workers :
            node'[v] = n /\ wpc'[v] \in {"log", "signal", "exited"}
  <2> SUFFICES ASSUME NEW n \in failed'
               PROVE  \E v \in Workers :
                        node'[v] = n /\ wpc'[v] \in {"log", "signal", "exited"}
    OBVIOUS
  <2>1. CASE n \in failed
    <3>1. PICK v \in Workers : node[v] = n /\ wpc[v] \in {"log", "signal", "exited"}
      BY <2>1 DEF HandedInv
    <3>2. v = w => l \in {"signal", "exited"}
      BY <1>2, <3>1
    <3> QED
      BY <1>1, <1>3, <3>1, <3>2
  <2>2. CASE n \notin failed
    BY <1>1, <1>2, <1>3, <2>2
  <2> QED
    BY <2>1, <2>2
<1>7. mpc' # mpc => mpc' = "await_backlog" \/ (mpc = "wait_active" /\ mpc' = "await_active")
  BY WorkerFrame
<1> QED
  BY <1>1, <1>2, <1>5, <1>6, <1>7 DEF HandedInv

(* HandedInv, for a worker that takes a node: it is appended to active. *)
LEMMA TakesHanded ==
    ASSUME OnceInv, HandedInv, NEW w \in Workers, Worker(w), NEW n, NEW m,
           Takes(w, n, m)
    PROVE  HandedInv'
<1>0. /\ stage \in 1..Len(Stages) /\ Size(stage) \in Nat
      /\ {"backlog", "active", "complete"} \subseteq Lists
      /\ stage' = stage /\ done' = done /\ failed' = failed /\ n \in Nodes
  BY ArrayFacts DEF OnceInv, TypeOK, Takes
<1>1. PICK i \in 1..Size(stage) :
                /\ n = TaskAt(stage, i)
                /\ m = IF i = Size(stage) THEN NULL ELSE TaskAt(stage, i + 1)
  BY TakesFacts
<1>2. PICK T : T = Touched /\ n \notin T /\ Touched' = T \cup {n}
  BY TakesFacts
<1>3. \A v \in Workers : /\ node'[v] = IF v = w THEN n ELSE node[v]
                         /\ wpc'[v] = IF v = w THEN "task" ELSE wpc[v]
  BY DEF Takes, OnceInv, TypeOK, Goto
<1>4. node[w] = NULL /\ wpc[w] = "pop"
  BY DEF OnceInv, Hands, HandOf, Takes
<1>5. Active' = Active \cup {n} /\ Active \subseteq T
  <2>1. \A x \in Nodes : x \in Active' <=> x \in Active \/ x = n
    BY <1>3, <1>4, NullAssumption DEF Active
  <2> QED
    BY <1>0, <1>2, <2>1 DEF Active, Touched, InHand
<1>6. PICK A : A = Active /\ A \subseteq T /\ Active' = A \cup {n}
  BY <1>5
<1>7. Given(T \cup {n}, stage, head'["backlog"])
  <2>1. head'["backlog"] = m /\ head["backlog"] = n
    BY <1>0 DEF Takes, OnceInv, TypeOK, ListTypeOK
  <2>2. \A j \in 1..i - 1 : TaskAt(stage, j) \in T
    <3>1. PICK h \in 1..Size(stage) : /\ n = TaskAt(stage, h)
                                      /\ \A j \in 1..h - 1 : TaskAt(stage, j) \in T
      BY <1>0, <1>2, <2>1, NullAssumption DEF HandedInv, Given
    <3>2. h = i
      BY <1>0, <1>1, <3>1, ArrayFacts
    <3> QED
      BY <3>1, <3>2
  <2>3. \A j \in 1..i : TaskAt(stage, j) \in T \cup {n}
    <3>1. \A j \in 1..i : j \in 1..i - 1 \/ j = i
      BY <1>0
    <3> QED
      BY <1>1, <2>2, <3>1
  <2>4. CASE i = Size(stage)
    BY <1>1, <2>1, <2>3, <2>4 DEF Given
  <2>5. CASE i # Size(stage)
    <3>1. i + 1 \in 1..Size(stage) /\ (i + 1) - 1 = i
      BY <1>0, <2>5
    <3>2. /\ head'["backlog"] = TaskAt(stage, i + 1)
          /\ \A j \in 1..(i + 1) - 1 : TaskAt(stage, j) \in T \cup {n}
      BY <1>1, <2>1, <2>3, <2>5, <3>1
    <3> QED
      BY <3>1, <3>2 DEF Given
  <2> QED
    BY <2>4, <2>5
<1>8. SpansActive(A \cup {n}, head'["active"], last'["active"], next', prev')
  <2>1. PICK s \in Seq(Nodes) :
                /\ Distinct(s) /\ ToSet(s) = A
                /\ Spans(s, head["active"], last["active"], next, prev)
    BY <1>6 DEF HandedInv, SpansActive
  <2>2. \A x \in 1..Len(s) : s[x] \in A /\ s[x] \in Nodes /\ s[x] # n
    BY <1>2, <1>6, <2>1 DEF ToSet
  <2>3. PICK t, h2 : /\ t = last["active"]
                     /\ h2 = IF t = NULL THEN n ELSE head["active"]
    OBVIOUS
  <2>4. head'["active"] = h2 /\ last'["active"] = n
    BY <1>0, <2>3 DEF Takes, OnceInv, TypeOK, ListTypeOK
  <2>5. \A x \in A : x # m
    <3>1. m = NULL \/ m \notin T
      <4>1. PICK h \in 1..Size(stage) :
                /\ n = TaskAt(stage, h)
                /\ \A j \in h..Size(stage) : TaskAt(stage, j) \notin T
        BY <1>2, TakesFacts
      <4>2. h = i
        BY <1>0, <1>1, <4>1, ArrayFacts
      <4>3. i # Size(stage) => i + 1 \in i..Size(stage)
        BY <1>0
      <4> QED
        BY <1>1, <4>1, <4>2, <4>3
    <3>2. \A x \in A : x # NULL
      BY <1>6, NullAssumption DEF Active
    <3> QED
      BY <1>6, <3>1, <3>2
  <2>6. t # n
    BY <1>2, <2>3, <1>0, NullAssumption DEF OnceInv, Closed
  <2>7. AppendLinks(s, t, n, next, prev, next', prev')
    <3>1. next'[n] = NULL /\ prev'[n] = t
      BY <1>0, <2>3, <2>6 DEF Takes
    <3>2. ASSUME NEW x \in 1..Len(s)
          PROVE  /\ next'[s[x]] = IF s[x] = t THEN n ELSE next[s[x]]
                 /\ prev'[s[x]] = prev[s[x]]
      <4>1. PICK y \in Nodes : y = s[x] /\ y # n /\ y # m
        BY <2>2, <2>5
      <4> QED
        BY <4>1, <2>3 DEF Takes
    <3> QED
      BY <2>2, <3>1, <3>2 DEF AppendLinks
  <2>8. Spans(Append(s, n), h2, n, next', prev')
    BY <1>0, <2>1, <2>3, <2>7, SpansAppend
  <2>9. Append(s, n) \in Seq(Nodes) /\ Distinct(Append(s, n))
    BY <1>0, <2>1, <2>2, AppendDistinct, AppendFacts
  <2>10. ToSet(Append(s, n)) = A \cup {n}
    <3>1. PICK r : r = Append(s, n)
      OBVIOUS
    <3>2. /\ r \in Seq(Nodes) /\ Len(s) \in Nat /\ Len(r) = Len(s) + 1
          /\ \A x \in 1..Len(s) : r[x] = s[x]
          /\ r[Len(s) + 1] = n
      BY <1>0, <3>1, AppendFacts
    <3>3. \A x \in 1..Len(r) : x \in 1..Len(s) \/ x = Len(s) + 1
      BY <3>2
    <3>4. DOMAIN r = 1..Len(r) /\ DOMAIN s = 1..Len(s)
      BY <3>2
    <3>5. ToSet(r) \subseteq A \cup {n}
      BY <2>1, <3>2, <3>3, <3>4 DEF ToSet
    <3>6. A \subseteq ToSet(r)
      <4> SUFFICES ASSUME NEW y \in A
                   PROVE  y \in ToSet(r)
        OBVIOUS
      <4>1. PICK x \in 1..Len(s) : y = s[x]
        BY <2>1, <3>4 DEF ToSet
      <4>2. x \in DOMAIN r /\ r[x] = y
        BY <3>2, <3>4, <4>1
      <4> QED
        BY <4>2 DEF ToSet
    <3>7. n \in ToSet(r)
      <4>1. Len(s) + 1 \in DOMAIN r
        BY <3>2, <3>4
      <4> QED
        BY <3>2, <4>1 DEF ToSet
    <3> QED
      BY <3>1, <3>5, <3>6, <3>7
  <2> QED
    BY <2>4, <2>8, <2>9, <2>10 DEF SpansActive
<1>9. last'["complete"] \notin A \cup {n}
  BY <1>0, <1>2, <1>6, NullAssumption DEF Takes, OnceInv, Closed, HandedInv
<1>10. \A x \in failed' : \E v \in Workers :
            node'[v] = x /\ wpc'[v] \in {"log", "signal", "exited"}
  BY <1>0, <1>3, <1>4 DEF HandedInv
<1>11. mpc' \notin {"await_active", "wait_active", "alive", "reload", "stop"}
  <2>1. head["backlog"] # NULL
    BY <1>0, NullAssumption DEF Takes
  <2>2. mpc \notin {"await_active", "wait_active", "alive", "reload", "stop"}
    BY <2>1 DEF HandedInv
  <2> QED
    BY <2>2, WorkerFrame
<1> QED
  BY <1>0, <1>2, <1>6, <1>7, <1>8, <1>9, <1>10, <1>11 DEF HandedInv

(* Removing the only occurrence of an element removes it from the set. *)
LEMMA RemoveSet ==
    ASSUME NEW s \in Seq(Nodes), NEW k \in 1..Len(s), Distinct(s)
    PROVE  ToSet(RemoveAt(s, k)) = ToSet(s) \ {s[k]}
<1>1. PICK r : r = RemoveAt(s, k)
  OBVIOUS
<1>2. PICK l \in Nat : l = Len(s)
  OBVIOUS
<1>3. /\ r \in Seq(Nodes) /\ Len(r) = l - 1
      /\ \A i \in 1..l - 1 : r[i] = IF i < k THEN s[i] ELSE s[i + 1]
  BY <1>1, <1>2, RemoveAtFacts
<1>4. DOMAIN r = 1..l - 1 /\ DOMAIN s = 1..l /\ k \in 1..l
  BY <1>2, <1>3
<1>5. ASSUME NEW x \in ToSet(r)
      PROVE  x \in ToSet(s) \ {s[k]}
  <2>1. PICK i \in 1..l - 1 : x = r[i]
    BY <1>4, <1>5 DEF ToSet
  <2>2. PICK j \in 1..l : x = s[j] /\ j # k
    <3>1. CASE i < k
      BY <1>2, <1>3, <2>1, <3>1
    <3>2. CASE ~(i < k)
      <4>1. i + 1 \in 1..l /\ i + 1 # k
        BY <1>2, <1>4, <3>2
      <4> QED
        BY <1>3, <2>1, <3>2, <4>1
    <3> QED
      BY <3>1, <3>2
  <2> QED
    BY <1>2, <1>4, <2>2 DEF ToSet, Distinct
<1>6. ASSUME NEW x \in ToSet(s) \ {s[k]}
      PROVE  x \in ToSet(r)
  <2>1. PICK j \in 1..l : x = s[j] /\ j # k
    BY <1>4, <1>6 DEF ToSet
  <2>2. CASE j < k
    <3>1. j \in 1..l - 1
      BY <1>2, <1>4, <2>2
    <3> QED
      BY <1>3, <1>4, <2>1, <2>2, <3>1 DEF ToSet
  <2>3. CASE j > k
    <3>1. j - 1 \in 1..l - 1 /\ ~(j - 1 < k) /\ (j - 1) + 1 = j
      BY <1>2, <1>4, <2>3
    <3>2. r[j - 1] = s[j]
      BY <1>3, <3>1
    <3> QED
      BY <1>4, <2>1, <3>1, <3>2 DEF ToSet
  <2> QED
    BY <1>4, <2>1, <2>2, <2>3
<1> QED
  BY <1>1, <1>5, <1>6

(* HandedInv, for a worker that takes its node out of active. *)
LEMMA RemoveHanded ==
    ASSUME OnceInv, HandedInv, NEW w \in Workers, Worker(w), WorkerRemove(w)
    PROVE  HandedInv'
<1>0. /\ {"backlog", "active", "complete"} \subseteq Lists
      /\ UNCHANGED <<node, stage, done, failed>> /\ wpc[w] = "remove"
  BY ArrayFacts DEF WorkerRemove, taskVars
<1>1. PICK n \in Nodes : n = node[w] /\ n # NULL
  BY <1>0 DEF OnceInv, TypeOK, Hands, HandOf, Holds, Pointers
<1>2. \A v \in Workers : wpc'[v] = IF v = w THEN "push" ELSE wpc[v]
  BY DEF WorkerRemove, Goto, OnceInv, TypeOK
<1>3. Touched' = Touched
  BY <1>0 DEF Touched, InHand
<1>4. \A v \in Workers : node[v] = n => v = w
  BY <1>1 DEF OnceInv, Hands
<1>5. Active' = Active \ {n} /\ n \in Active
  <2>1. \A x \in Nodes : x \in Active' <=> x \in Active /\ x # n
    BY <1>0, <1>1, <1>2, <1>4 DEF Active
  <2> QED
    BY <1>0, <1>1, <2>1 DEF Active
<1>6. PICK A : A = Active /\ Active' = A \ {n} /\ n \in A
  BY <1>5
<1>7. PICK nn, pp : nn = next[n] /\ pp = prev[n]
  OBVIOUS
<1>8. /\ head' = IF pp = NULL THEN [head EXCEPT !["active"] = nn] ELSE head
      /\ last' = IF nn = NULL THEN [last EXCEPT !["active"] = pp] ELSE last
      /\ next' = [x \in Nodes |-> IF x = pp THEN nn ELSE next[x]]
      /\ prev' = [x \in Nodes |-> IF x = nn THEN pp ELSE prev[x]]
  BY <1>1, <1>7 DEF WorkerRemove, task_queue_remove
<1>9. /\ head'["backlog"] = head["backlog"] /\ last'["complete"] = last["complete"]
      /\ head'["active"] = IF pp = NULL THEN nn ELSE head["active"]
      /\ last'["active"] = IF nn = NULL THEN pp ELSE last["active"]
  BY <1>0, <1>8 DEF OnceInv, TypeOK, ListTypeOK
<1>10. SpansActive(A \ {n}, head'["active"], last'["active"], next', prev')
  <2>1. PICK s \in Seq(Nodes) :
                /\ Distinct(s) /\ ToSet(s) = A
                /\ Spans(s, head["active"], last["active"], next, prev)
    BY <1>6 DEF HandedInv, SpansActive
  <2>2. PICK k \in 1..Len(s) : n = s[k]
    BY <1>6, <2>1 DEF ToSet
  <2>3. RemoveLinks(s, n, next, prev, next', prev')
    <3>1. \A i \in 1..Len(s) : s[i] \in Nodes
      OBVIOUS
    <3> QED
      BY <1>7, <1>8, <3>1 DEF RemoveLinks
  <2>4. PICK h, t, h2, t2 :
          /\ h = head["active"] /\ t = last["active"]
          /\ h2 = IF prev[n] = NULL THEN next[n] ELSE h
          /\ t2 = IF next[n] = NULL THEN prev[n] ELSE t
    OBVIOUS
  <2>5. Spans(RemoveAt(s, k), h2, t2, next', prev')
    BY <2>1, <2>2, <2>3, <2>4, SpansRemove
  <2>6. head'["active"] = h2 /\ last'["active"] = t2
    BY <1>7, <1>9, <2>4
  <2>7. /\ RemoveAt(s, k) \in Seq(Nodes) /\ Distinct(RemoveAt(s, k))
        /\ ToSet(RemoveAt(s, k)) = A \ {n}
    BY <2>1, <2>2, RemoveAtFacts, RemoveDistinct, RemoveSet
  <2> QED
    BY <2>5, <2>6, <2>7 DEF SpansActive
<1>11. \A x \in failed' : \E v \in Workers :
            node'[v] = x /\ wpc'[v] \in {"log", "signal", "exited"}
  BY <1>0, <1>2 DEF HandedInv
<1>12. mpc' # mpc => mpc' = "await_backlog" \/ (mpc = "wait_active" /\ mpc' = "await_active")
  BY WorkerFrame
<1>13. mpc \notin {"alive", "reload", "stop"}
  BY <1>6 DEF HandedInv
<1> QED
  BY <1>0, <1>3, <1>6, <1>9, <1>10, <1>11, <1>12, <1>13 DEF HandedInv

(* HandedInv, for a worker that pushes its node on the complete queue: neither
   the node nor the last one pushed is in active any more. *)
LEMMA PushHanded ==
    ASSUME OnceInv, HandedInv, NEW w \in Workers, Worker(w), WorkerPush(w)
    PROVE  HandedInv'
<1>0. /\ {"backlog", "active", "complete"} \subseteq Lists
      /\ UNCHANGED <<stage, done, failed, mpc>> /\ wpc[w] = "push"
  BY ArrayFacts DEF WorkerPush, taskVars, mainVars
<1>1. PICK n \in Nodes : n = node[w] /\ n # NULL /\ n \in done
  BY <1>0, NullAssumption DEF OnceInv, TypeOK, Hands, HandOf, Holds, Pointers
<1>2. \A v \in Workers : /\ wpc'[v] = IF v = w THEN "pop" ELSE wpc[v]
                         /\ node'[v] = IF v = w THEN NULL ELSE node[v]
  BY DEF WorkerPush, Goto, OnceInv, TypeOK
<1>3. \A v \in Workers : node[v] = n => v = w
  BY <1>1 DEF OnceInv, Hands
<1>4. Touched' = Touched
  <2>1. \A x \in Nodes : x # n => (x \in InHand' <=> x \in InHand)
    BY <1>1, <1>2, NullAssumption DEF InHand
  <2>2. n \in Touched /\ n \in Touched'
    BY <1>0, <1>1 DEF Touched
  <2>3. \A x : x \in Touched' <=> x \in Touched
    BY <1>0, <2>1, <2>2 DEF Touched, InHand
  <2> QED
    BY <2>3
<1>5. Active' = Active /\ n \notin Active
  <2>1. \A x \in Nodes : x \in Active' <=> x \in Active
    BY <1>0, <1>1, <1>2, NullAssumption DEF Active
  <2> QED
    BY <1>0, <1>3, <2>1 DEF Active
<1>6. PICK A : A = Active /\ Active' = A /\ n \notin A
  BY <1>5
<1>7. PICK t : t = last["complete"] /\ t \notin A
  BY <1>6 DEF HandedInv
<1>8. /\ next' = [x \in Nodes |-> IF x = t THEN n
                                  ELSE IF x = n THEN NULL ELSE next[x]]
      /\ prev' = [prev EXCEPT ![n] = t]
      /\ head' = IF t = NULL THEN [head EXCEPT !["complete"] = n] ELSE head
      /\ last' = [last EXCEPT !["complete"] = n]
  BY <1>1, <1>7 DEF WorkerPush, task_queue_push
<1>9. /\ head'["backlog"] = head["backlog"] /\ last'["complete"] = n
      /\ head'["active"] = head["active"] /\ last'["active"] = last["active"]
  BY <1>0, <1>8 DEF OnceInv, TypeOK, ListTypeOK
<1>10. SpansActive(A, head'["active"], last'["active"], next', prev')
  <2>1. PICK s \in Seq(Nodes) :
                /\ Distinct(s) /\ ToSet(s) = A
                /\ Spans(s, head["active"], last["active"], next, prev)
    BY <1>6 DEF HandedInv, SpansActive
  <2>2. \A i \in 1..Len(s) : s[i] \in Nodes /\ s[i] # n /\ s[i] # t
    BY <1>6, <1>7, <2>1 DEF ToSet
  <2>3. \A i \in 1..Len(s) : next'[s[i]] = next[s[i]] /\ prev'[s[i]] = prev[s[i]]
    BY <1>8, <2>2 DEF OnceInv, TypeOK, ListTypeOK
  <2>4. Spans(s, head["active"], last["active"], next', prev')
    BY <2>1, <2>3, SpansFrame
  <2> QED
    BY <1>9, <2>1, <2>4 DEF SpansActive
<1>11. \A x \in failed' : \E v \in Workers :
            node'[v] = x /\ wpc'[v] \in {"log", "signal", "exited"}
  BY <1>0, <1>2 DEF HandedInv
<1> QED
  BY <1>0, <1>4, <1>6, <1>9, <1>10, <1>11 DEF HandedInv

(* Main gets past thread_pool_await only by finding the queues empty. *)
LEMMA MainMoves ==
    ASSUME Others
    PROVE  /\ mpc' \in {"await_active", "wait_active", "alive", "reload", "stop"}
                => \/ mpc \in {"await_active", "wait_active", "alive", "reload", "stop"}
                   \/ head["backlog"] = NULL
           /\ mpc' \in {"alive", "reload", "stop"}
                => mpc \in {"alive", "reload", "stop"} \/ head["active"] = NULL
           /\ mpc' = "stop" => mpc = "stop" \/ ~(stage < Len(Stages))
<1>1. CASE Supervisor
  <2>1. /\ mpc' \in {mpc, "await_backlog", "await_active", "await_exit", "await_failure"}
        /\ mpc' = "await_active" => mpc \in {"await_active", "wait_active"}
    BY <1>1 DEF Supervisor, supervisor_spawn, supervisor_listen,
         supervisor_exit_on_failure, supervisor_do_exit_failure,
         supervisor_do_exit_success, supervisor_exit_cleanup, WakeMain, WakeDone
  <2> QED
    BY <2>1
<1>2. CASE Main
  BY <1>2 DEF Main, thread_pool_start, worker_crew_start, supervisor_start,
       thread_pool_await, thread_pool_alive, thread_pool_reload, thread_pool_stop,
       thread_pool_await_exit_success, PoolCallFails, LivePoolFailure, Teardown,
       MainGoto, IsEmpty
<1>3. CASE SpuriousWakeup
  BY <1>3 DEF SpuriousWakeup
<1>4. CASE Exited \/ UNCHANGED vars
  BY <1>4 DEF Exited, vars, mainVars
<1> QED
  BY <1>1, <1>2, <1>3, <1>4 DEF Others

(* HandedInv, for the steps of main and of the supervisor as long as the
   queues are intact.  Loading a stage needs the barrier: the stage before it
   is over. *)
LEMMA OthersHanded ==
    ASSUME OnceInv, Intact, HandedInv, Others
    PROVE  HandedInv'
<1>1. UNCHANGED <<node, done, failed>> /\ Woken /\ ListsMoved
  BY OthersFrame DEF OnceInv
<1>2. \A v \in Workers : \/ wpc'[v] = wpc[v]
                         \/ wpc[v] \in {"none", "wait"} /\ wpc'[v] = "pop"
  BY <1>1, WokenFacts DEF OnceInv
<1>3. Touched' = Touched /\ Active' = Active
  <2>1. \A v \in Workers : wpc'[v] = "push" <=> wpc[v] = "push"
    BY <1>2
  <2> QED
    BY <1>1, <2>1 DEF Touched, InHand, Active
<1>4. \A x \in failed' : \E v \in Workers :
            node'[v] = x /\ wpc'[v] \in {"log", "signal", "exited"}
  BY <1>1, <1>2 DEF HandedInv
<1>5. CASE UNCHANGED listVars /\ stage' = stage
  <2>1. mpc' \in {"await_active", "wait_active", "alive", "reload", "stop"}
            => head["backlog"] = NULL
    BY MainMoves DEF HandedInv
  <2>2. mpc' \in {"alive", "reload", "stop"} => Active = {}
    BY MainMoves, ActiveEmpty DEF HandedInv
  <2>3. mpc' = "stop" => stage = Len(Stages)
    <3>1. stage \in 1..Len(Stages) /\ Len(Stages) \in Nat
      BY ArrayFacts DEF OnceInv, TypeOK
    <3>2. ~(stage < Len(Stages)) => stage = Len(Stages)
      BY <3>1
    <3> QED
      BY <3>2, MainMoves DEF HandedInv
  <2> QED
    BY <1>1, <1>3, <1>4, <1>5, <2>1, <2>2, <2>3 DEF HandedInv, listVars
<1>6. CASE Reloaded
  <2>0. /\ mpc = "reload" /\ mpc' = "await_backlog" /\ stage \in Nat
        /\ stage + 1 \in 1..Len(Stages) /\ stage' = stage + 1
        /\ {"backlog", "active", "complete"} \subseteq Lists
    BY <1>6, ArrayFacts DEF Reloaded, OnceInv, TypeOK
  <2>1. \A k \in 1..stage : StageTasks(k) \subseteq done
    BY <2>0, StageOver DEF HandedInv
  <2>2. \A k \in 1..stage' - 1 : StageTasks(k) \subseteq done'
    <3>1. stage' - 1 = stage
      BY <2>0
    <3> QED
      BY <1>1, <2>1, <3>1
  <2>3. /\ next' = next /\ prev' = prev
        /\ head'["backlog"] = head[Stages[stage + 1]]
        /\ head'["active"] = head["active"] /\ last'["active"] = last["active"]
        /\ last'["complete"] = last["complete"]
    BY <1>6, <2>0, ArrayFacts DEF Reloaded, task_queue_reload, OnceInv, TypeOK, ListTypeOK
  <2>4. Given(Touched, stage + 1, head'["backlog"])
    <3>1. head'["backlog"] = TaskAt(stage + 1, 1)
      BY <2>0, <2>3 DEF OnceInv, StoresKept
    <3>2. 1 \in 1..Size(stage + 1) /\ \A j \in 1..1 - 1 : FALSE
      BY <2>0, ArrayFacts
    <3> QED
      BY <3>1, <3>2 DEF Given
  <2> QED
    BY <1>1, <1>3, <1>4, <2>0, <2>2, <2>3, <2>4 DEF HandedInv
<1>7. ~Cleared("backlog") /\ ~Cleared("active")
  BY DEF Cleared, Intact
<1> QED
  BY <1>1, <1>5, <1>6, <1>7 DEF ListsMoved

(* Where main ends up on its way to reporting a failure. *)
Failing == {"await_failure", "wait_failure", "cleanup", "free", "return", "exit"}

(* How the news of success and of failure travel: from thread_pool_stop or a
   failed task to supervisor->event, to the supervisor, to the pool's status
   and to *exit_status. *)
Travels ==
    /\ event' = "exit_success" => event = "exit_success" \/ mpc = "stop"
    /\ spc' \in {"success_cancel", "success_lock", "success_dump", "success_status"}
        => \/ spc \in {"success_cancel", "success_lock", "success_dump", "success_status"}
           \/ (spc = "event" /\ event = "exit_success")
    /\ exit' = "success" => exit = "success" \/ spc = "success_status"
    /\ result' = "success" => result = "success" \/ exit = "success"
    /\ event' = "exit_failure" => \/ event = "exit_failure"
                                  \/ \E w \in Workers : wpc[w] = "signal"
                                  \/ mpc' \in Failing
    /\ mpc \in Failing => mpc' \in Failing
    /\ event' # event => event' = "exit_failure" \/ mpc = "stop"

(* Every step makes the news travel this way. *)
LEMMA NewsTravels ==
    ASSUME [Next]_vars
    PROVE  Travels
<1> USE DEF Travels, Failing
<1>1. CASE \E w \in Workers : Worker(w)
  <2>1. PICK w \in Workers : Worker(w)
    BY <1>1
  <2>2. /\ exit' = exit /\ result' = result
        /\ mpc' = mpc \/ mpc \in {"wait_backlog", "wait_active"}
    BY <2>1 DEF Worker, WorkerPop, TaskReturns, TaskFails, FailureLogged,
         FailureSignalled, WorkerRemove, WorkerPush, WorkerCancelled, statusVars,
         mainVars, WakeMain
  <2>3. CASE FailureSignalled(w)
    BY <2>2, <2>3 DEF FailureSignalled, WakeSupervisor
  <2>4. CASE ~FailureSignalled(w)
    <3>1. spc' = spc /\ event' = event
      BY <2>1, <2>4 DEF Worker, WorkerPop, TaskReturns, TaskFails, FailureLogged,
           WorkerRemove, WorkerPush, WorkerCancelled, supVars
    <3> QED
      BY <2>2, <3>1
  <2> QED
    BY <2>3, <2>4
<1>2. CASE Supervisor
  <2>1. event' = event /\ result' = result
    BY <1>2 DEF Supervisor, supervisor_spawn, supervisor_listen,
         supervisor_exit_on_failure, supervisor_do_exit_failure,
         supervisor_do_exit_success, supervisor_exit_cleanup, SupOnly
  <2>2. mpc' = mpc \/ /\ mpc \in {"wait_backlog", "wait_active", "wait_exit", "wait_failure"}
                      /\ mpc = "wait_failure" => mpc' = "await_failure"
    BY <1>2 DEF Supervisor, supervisor_spawn, supervisor_listen,
         supervisor_exit_on_failure, supervisor_do_exit_failure,
         supervisor_do_exit_success, supervisor_exit_cleanup, WakeMain, WakeDone
  <2>3. /\ spc' \in {"success_cancel", "success_lock", "success_dump", "success_status"}
            => \/ spc \in {"success_cancel", "success_lock", "success_dump"}
               \/ (spc = "event" /\ event = "exit_success")
        /\ exit' = "success" => exit = "success" \/ spc = "success_status"
    <3>1. CASE supervisor_spawn
      BY <3>1 DEF supervisor_spawn, thread_key_create, thread_key_set, SupGoto, statusVars
    <3>2. CASE supervisor_listen \/ supervisor_exit_on_failure
      BY <3>2 DEF supervisor_listen, supervisor_exit_on_failure, SupGoto, statusVars
    <3>3. CASE supervisor_do_exit_failure
      BY <3>3 DEF supervisor_do_exit_failure, SupGoto, statusVars
    <3>4. CASE supervisor_do_exit_success \/ supervisor_exit_cleanup
      BY <3>4 DEF supervisor_do_exit_success, supervisor_exit_cleanup, SupGoto, statusVars
    <3> QED
      BY <1>2, <3>1, <3>2, <3>3, <3>4 DEF Supervisor
  <2> QED
    BY <2>1, <2>2, <2>3
<1>3. CASE Main
  <2> USE DEF MainGoto, MainOnly, statusVars, WakeSupervisor
  <2>1. CASE thread_pool_start
    BY <2>1 DEF thread_pool_start, worker_crew_start, supervisor_start
  <2>2. CASE thread_pool_await \/ thread_pool_alive \/ thread_pool_reload
    BY <2>2 DEF thread_pool_await, thread_pool_alive, thread_pool_reload
  <2>3. CASE thread_pool_stop \/ thread_pool_await_exit_success
    BY <2>3 DEF thread_pool_stop, thread_pool_await_exit_success
  <2>4. CASE PoolCallFails
    BY <2>4 DEF PoolCallFails
  <2>5. CASE LivePoolFailure \/ Teardown
    BY <2>5 DEF LivePoolFailure, Teardown
  <2> QED
    BY <1>3, <2>1, <2>2, <2>3, <2>4, <2>5 DEF Main
<1>4. CASE SpuriousWakeup
  BY <1>4 DEF SpuriousWakeup, statusVars
<1>5. CASE Exited \/ UNCHANGED vars
  BY <1>5 DEF Exited, vars, supVars, statusVars, mainVars
<1> QED
  BY <1>1, <1>2, <1>3, <1>4, <1>5 DEF Next

(* SuccessInv holds initially. *)
LEMMA InitSuccessInv ==
    ASSUME Init
    PROVE  SuccessInv
<1>1. OnceInv
  BY InitOnceInv
<1>2. stage = 1 /\ Touched = {} /\ Active = {}
  BY NullAssumption DEF Init, Touched, InHand, Active
<1>3. head["active"] = NULL /\ last["active"] = NULL /\ last["complete"] = NULL
  BY ArrayFacts DEF Init
<1>4. Given(Touched, stage, head["backlog"])
  <2>1. 1 \in 1..Len(Stages) /\ 1 \in 1..Size(1) /\ \A j \in 1..1 - 1 : FALSE
    BY ArrayFacts
  <2>2. head["backlog"] = Head(Tasks[Stages[1]])
    BY ArrayFacts DEF Init
  <2>3. Head(Tasks[Stages[1]]) = TaskAt(1, 1)
    BY <2>1, PoolAssumption DEF TaskAt
  <2> QED
    BY <1>2, <2>1, <2>2, <2>3 DEF Given
<1>5. SpansActive(Active, head["active"], last["active"], next, prev)
  <2>1. <<>> \in Seq(Nodes) /\ Distinct(<<>>) /\ ToSet(<<>>) = {}
    BY DEF Distinct, ToSet
  <2>2. Spans(<<>>, head["active"], last["active"], next, prev)
    BY <1>3, SpansEmpty
  <2> QED
    BY <1>2, <2>1, <2>2 DEF SpansActive
<1>6. HandedInv
  BY <1>2, <1>3, <1>4, <1>5 DEF HandedInv, Init
<1> QED
  BY <1>6 DEF SuccessInv, Init

(* HandedInv survives every step that leaves the queues intact. *)
LEMMA HandedStep ==
    ASSUME OnceInv, Intact, HandedInv, [Next]_vars
    PROVE  HandedInv'
<1>1. ASSUME NEW w \in Workers, Worker(w)
      PROVE  HandedInv'
  <2>1. CASE WithinTask(w)
    BY <1>1, <2>1, WithinTaskHanded
  <2>2. CASE \E n, m : Takes(w, n, m)
    BY <1>1, <2>2, TakesHanded
  <2>3. CASE WorkerRemove(w) \/ WorkerPush(w)
    BY <1>1, <2>3, RemoveHanded, PushHanded
  <2> QED
    BY <1>1, <2>1, <2>2, <2>3, WorkerCases
<1>2. CASE Others
  BY <1>2, OthersHanded
<1> QED
  BY <1>1, <1>2 DEF Next, Others

(* Failures are not taken back. *)
LEMMA FailedKept ==
    ASSUME OnceInv, [Next]_vars
    PROVE  failed \subseteq failed'
<1>1. ASSUME NEW w \in Workers, Worker(w)
      PROVE  failed \subseteq failed'
  BY <1>1 DEF Worker, WorkerPop, TaskReturns, TaskFails, FailureLogged, FailureSignalled,
              WorkerRemove, WorkerPush, WorkerCancelled, taskVars
<1>2. CASE Others
  BY <1>2, OthersFrame DEF OnceInv
<1> QED
  BY <1>1, <1>2 DEF Next, Others

(* When main stops the pool with the queues intact, the work is done. *)
LEMMA StopsFinished ==
    ASSUME OnceInv, SuccessInv, Intact, mpc = "stop"
    PROVE  Finished
<1>1. HandedInv /\ stage = Len(Stages) /\ head["backlog"] = NULL /\ Active = {}
  BY DEF SuccessInv, HandedInv
<1> QED
  BY <1>1, StageOver DEF Finished

(* SuccessInv is inductive relative to OnceInv. *)
LEMMA SuccessStep ==
    ASSUME OnceInv, SuccessInv, [Next]_vars
    PROVE  SuccessInv'
<1>1. Travels
  BY NewsTravels
<1>2. /\ mpc' \in {"start", "create"} => spc' = "none"
      /\ Intact' => Intact
  BY IntactBefore DEF SuccessInv
<1>3. Intact' => HandedInv'
  BY <1>2, HandedStep DEF SuccessInv
<1>4. Finished => Finished'
  BY FinishedKept
<1>5. Intact' /\ event' = "exit_success" => Finished'
  BY <1>1, <1>2, <1>4, StopsFinished DEF SuccessInv, Travels
<1>6. spc' \in {"success_cancel", "success_lock", "success_dump", "success_status"}
            => Finished'
  BY <1>1, <1>4 DEF SuccessInv, Travels, Intact
<1>7. (exit' = "success" => Finished') /\ (result' = "success" => Finished')
  BY <1>1, <1>4 DEF SuccessInv, Travels
<1>8. event' = "exit_failure" => failed' # {} \/ mpc' \in Failing
  <2>1. failed \subseteq failed'
    BY FailedKept
  <2>2. (\E w \in Workers : wpc[w] = "signal") => failed # {}
    BY DEF OnceInv, Hands, HandOf
  <2>3. event = "exit_failure" => failed # {} \/ mpc \in Failing
    BY DEF SuccessInv, Failing
  <2> QED
    BY <1>1, <2>1, <2>2, <2>3 DEF Travels
<1> QED
  BY <1>2, <1>3, <1>5, <1>6, <1>7, <1>8 DEF SuccessInv, Failing

(* The invariant of the pool. *)
PoolInv == OnceInv /\ SuccessInv

(* It holds in every reachable state. *)
LEMMA PoolInvariant == Spec => []PoolInv
<1>1. Init => PoolInv
  BY InitOnceInv, InitSuccessInv DEF PoolInv
<1>2. PoolInv /\ [Next]_vars => PoolInv'
  BY OnceInvStep, SuccessStep DEF PoolInv
<1> QED
  BY <1>1, <1>2, PTL DEF Spec

(* Main reports success only if every task of every stage has returned and none
   has failed: thread_pool_await lets main pass only when both queues are empty,
   and the only other way to empty them, supervisor_do_exit_failure, ends in
   the status "failure". *)
THEOREM SuccessMeansAllDone == Spec => []SuccessIsComplete
<1>1. PoolInv => SuccessIsComplete
  BY DEF PoolInv, SuccessInv, SuccessIsComplete, Finished
<1> QED
  BY <1>1, PoolInvariant, PTL

(* thread_pool_stop never overwrites a failure the supervisor has not read: the
   node of the failed task keeps main in thread_pool_await. *)
THEOREM FailureIsRead == Spec => FailureNotOverwritten
<1>1. PoolInv /\ [Next]_vars
        => [event = "exit_failure" /\ event' # event
              => spc \notin {"none", "spawn", "key", "listen", "wait", "event"}]_vars
  <2> SUFFICES ASSUME PoolInv, [Next]_vars, event = "exit_failure", event' # event, Intact
               PROVE  FALSE
    BY DEF Intact
  <2>1. mpc = "stop"
    BY NewsTravels DEF Travels
  <2>2. failed = {}
    BY <2>1, StopsFinished DEF PoolInv, Finished
  <2>3. failed # {}
    BY <2>1 DEF PoolInv, SuccessInv
  <2> QED
    BY <2>2, <2>3
<1> QED
  BY <1>1, PoolInvariant, PTL DEF FailureNotOverwritten, Spec

-----------------------------------------------------------------------------
(* Refinement of StagedRun *)

(* Nothing fails: no task, no thread creation, no other system call. *)
NoFaults ==
    /\ MayFail = {}
    /\ ~CreateMayFail /\ ~KeyMayFail /\ ~DumpMayFail /\ ~ReportMayFail

(* Where main is before and after thread_pool_stop. *)
Feeding == {"start", "create", "await_backlog", "wait_backlog", "await_active",
            "wait_active", "alive", "reload", "stop"}

Stopped == {"await_exit", "wait_exit", "free", "return", "exit"}

(* The course of a run without faults: the supervisor hears nothing before
   main stops the pool, the pool stays busy until it has succeeded, and the
   tasks at work are of the current stage. *)
NormalInv ==
    /\ NoFaults
    /\ mpc \in Feeding \cup Stopped
    /\ mpc \in Feeding => event = "none" /\ Intact
    /\ mpc \in Stopped => event = "exit_success" /\ stage = Len(Stages)
    /\ event = "none" => spc # "event"
    /\ spc \in {"none", "spawn", "key", "listen", "wait", "event", "success_cancel",
                "success_lock", "success_dump", "success_status", "exited"}
    /\ ~supCancel
    /\ Intact /\ mpc # "start" => busy
    /\ mpc # "start" /\ ~busy => exit = "success"
    /\ result = IF mpc \in {"free", "return", "exit"} THEN "success" ELSE "none"
    /\ \A w \in Workers : /\ wpc[w] \notin {"log", "signal"}
                          /\ wpc[w] = "task" => node[w] \in StageTasks(stage)

(* NormalInv holds initially. *)
LEMMA InitNormal ==
    ASSUME Init, NoFaults
    PROVE  NormalInv
  BY DEF Init, NormalInv, Feeding, Stopped, Intact

(* A worker's step preserves NormalInv; the node it takes is of the current
   stage. *)
LEMMA WorkerNormal ==
    ASSUME PoolInv, NormalInv, NEW w \in Workers, Worker(w)
    PROVE  NormalInv'
<1>0. /\ stage' = stage /\ wpc[w] \notin {"log", "signal"}
      /\ stage \in 1..Len(Stages)
  BY WorkerFrame DEF NormalInv, PoolInv, OnceInv, TypeOK
<1>1. UNCHANGED <<spc, supCancel, event, busy, exit, result>>
  BY <1>0 DEF Worker, WorkerPop, TaskReturns, TaskFails, FailureLogged,
       FailureSignalled, WorkerRemove, WorkerPush, WorkerCancelled, supVars, statusVars,
       mainVars
<1>2. \/ mpc' = mpc
      \/ mpc = "wait_backlog" /\ mpc' = "await_backlog"
      \/ mpc = "wait_active" /\ mpc' = "await_active"
  BY DEF Worker, WorkerPop, TaskReturns, TaskFails, FailureLogged,
       FailureSignalled, WorkerRemove, WorkerPush, WorkerCancelled, mainVars, WakeMain
<1>3. /\ mpc' \in Feeding \cup Stopped
      /\ mpc' \in Feeding => mpc \in Feeding
      /\ mpc' \in Stopped => mpc \in Stopped
      /\ mpc' = "start" <=> mpc = "start"
      /\ mpc' \in {"free", "return", "exit"} <=> mpc \in {"free", "return", "exit"}
  BY <1>2 DEF NormalInv, Feeding, Stopped
<1>4. \A v \in Workers : /\ wpc'[v] \notin {"log", "signal"}
                         /\ wpc'[v] = "task" => node'[v] \in StageTasks(stage)
  <2>1. CASE WithinTask(w)
    <3>1. node' = node /\ \A v \in Workers : v # w => wpc'[v] = wpc[v]
      BY <2>1, WithinTaskFacts DEF PoolInv, OnceInv, TypeOK, Goto
    <3>2. wpc'[w] \in {"wait", "remove", "exited"}
      <4>1. ~(wpc[w] = "task" /\ Goto(w, "log"))
        BY <1>0, <2>1 DEF WithinTask, WorkerPop, TaskReturns, TaskFails, FailureLogged,
             FailureSignalled, WorkerCancelled, thread_exit, Goto, NormalInv, NoFaults,
             PoolInv, OnceInv, TypeOK
      <4> QED
        BY <1>0, <2>1, <4>1, WithinTaskFacts DEF PoolInv, OnceInv, TypeOK, Goto
    <3> QED
      BY <3>1, <3>2 DEF NormalInv
  <2>2. CASE \E n, m : Takes(w, n, m)
    <3>1. PICK n, m : Takes(w, n, m)
      BY <2>2
    <3>2. n \in StageTasks(stage)
      BY <1>0, <3>1, TakesFacts, StageTasksFacts DEF PoolInv
    <3>3. \A v \in Workers : /\ node'[v] = IF v = w THEN n ELSE node[v]
                             /\ wpc'[v] = IF v = w THEN "task" ELSE wpc[v]
      BY <3>1 DEF Takes, PoolInv, OnceInv, TypeOK, Goto
    <3> QED
      BY <3>2, <3>3 DEF NormalInv
  <2>3. CASE WorkerRemove(w) \/ WorkerPush(w)
    <3>1. /\ wpc'[w] \in {"push", "pop"}
          /\ \A v \in Workers : v # w => wpc'[v] = wpc[v] /\ node'[v] = node[v]
      BY <2>3 DEF WorkerRemove, WorkerPush, Goto, PoolInv, OnceInv, TypeOK
    <3> QED
      BY <3>1 DEF NormalInv
  <2> QED
    BY <2>1, <2>2, <2>3, WorkerCases DEF PoolInv
<1>5. Intact' <=> Intact
  BY <1>1 DEF Intact
<1> QED
  BY <1>0, <1>1, <1>3, <1>4, <1>5 DEF NormalInv

(* So does a step of the supervisor, which gets past its wait only after main
   has stopped the pool. *)
LEMMA SupervisorNormal ==
    ASSUME PoolInv, NormalInv, Supervisor
    PROVE  NormalInv'
<1> USE DEF NormalInv, NoFaults
<1>0. UNCHANGED <<wpc, node, stage, result, event, supCancel>>
  BY DEF Supervisor, supervisor_spawn, supervisor_listen, supervisor_exit_on_failure,
       supervisor_do_exit_failure, supervisor_do_exit_success, supervisor_exit_cleanup,
       SupOnly
<1>1. CASE supervisor_spawn
  <2>1. spc \in {"spawn", "key"} /\ spc' \in {"key", "listen"}
    BY <1>1 DEF supervisor_spawn, thread_key_create, thread_key_set, SupGoto
  <2> QED
    BY <1>0, <1>1, <2>1 DEF supervisor_spawn, statusVars, Intact
<1>2. CASE supervisor_listen
  <2>1. /\ spc \in {"listen", "event"}
        /\ spc' \in {"wait", "event", "success_cancel"}
        /\ spc' = "event" => event # "none"
        /\ spc' = "success_cancel" => event # "none"
    BY <1>2 DEF supervisor_listen, SupGoto, Feeding, Stopped
  <2>2. spc' = "success_cancel" => mpc \in Stopped /\ mpc \notin Feeding
    BY <2>1 DEF Feeding, Stopped
  <2> QED
    BY <1>0, <1>2, <2>1, <2>2 DEF supervisor_listen, statusVars, Intact
<1>3. CASE supervisor_do_exit_success
  <2>1. /\ ~Intact /\ mpc \in Stopped /\ mpc \notin Feeding
    BY <1>3 DEF supervisor_do_exit_success, Intact, Feeding, Stopped
  <2>2. ~Intact' /\ spc' \in {"success_lock", "success_dump", "success_status", "exited"}
    BY <1>3 DEF supervisor_do_exit_success, SupGoto, Intact
  <2>3. CASE spc = "success_status"
    <3>1. exit' = "success" /\ busy' = FALSE
      BY <1>3, <2>3 DEF supervisor_do_exit_success
    <3>2. mpc' \in {mpc, "await_exit"} /\ (mpc' # mpc => mpc = "wait_exit")
      BY <1>3, <2>1, <2>3 DEF supervisor_do_exit_success, WakeDone, Stopped
    <3> QED
      BY <1>0, <2>1, <2>2, <3>1, <3>2 DEF Feeding, Stopped
  <2>4. CASE spc # "success_status"
    <3>1. UNCHANGED <<busy, exit, mpc>>
      BY <1>3, <2>4 DEF supervisor_do_exit_success, statusVars
    <3> QED
      BY <1>0, <2>1, <2>2, <3>1
  <2> QED
    BY <2>3, <2>4
<1>4. ~supervisor_exit_on_failure /\ ~supervisor_do_exit_failure
      /\ ~supervisor_exit_cleanup
  BY DEF supervisor_exit_on_failure, supervisor_do_exit_failure, supervisor_exit_cleanup
<1> QED
  BY <1>1, <1>2, <1>3, <1>4 DEF Supervisor

(* So does a step of main: it finds the pool busy as long as it feeds it. *)
LEMMA MainNormal ==
    ASSUME PoolInv, NormalInv, Main
    PROVE  NormalInv'
<1> USE DEF NormalInv, NoFaults, MainGoto, MainOnly
<1>0. UNCHANGED <<node, supCancel, exit>> /\ NoFaults
  BY DEF Main, thread_pool_start, thread_pool_await, thread_pool_alive,
       thread_pool_reload, thread_pool_stop, thread_pool_await_exit_success,
       PoolCallFails, LivePoolFailure, Teardown, statusVars
<1>1. \A v \in Workers : \/ wpc'[v] = wpc[v]
                         \/ wpc[v] \in {"none", "wait"} /\ wpc'[v] = "pop"
  BY OthersFrame, WokenFacts DEF PoolInv, OnceInv, Others
<1>2. stage' = stage =>
        \A v \in Workers : /\ wpc'[v] \notin {"log", "signal"}
                           /\ wpc'[v] = "task" => node'[v] \in StageTasks(stage')
  BY <1>0, <1>1
<1>3. CASE thread_pool_start
  <2>1. /\ mpc \in {"start", "create"} /\ mpc' \in {"create", "await_backlog"}
        /\ UNCHANGED <<stage, result, event>> /\ spc = "none"
        /\ mpc = "start" => busy' = TRUE /\ spc' = spc
        /\ mpc = "create" => busy' = busy /\ spc' \in {"none", "spawn"}
    BY <1>3 DEF thread_pool_start, worker_crew_start, supervisor_start, PoolInv, SuccessInv
  <2> QED
    BY <1>0, <1>2, <2>1 DEF Feeding, Stopped, Intact
<1>4. CASE thread_pool_await
  <2>1. /\ mpc \in {"await_backlog", "await_active"}
        /\ mpc' \in {"wait_backlog", "await_active", "wait_active", "alive", "stop"}
        /\ UNCHANGED <<stage, result, event, spc, busy>>
    BY <1>4 DEF thread_pool_await, statusVars
  <2> QED
    BY <1>0, <1>2, <2>1 DEF Feeding, Stopped, Intact
<1>5. CASE thread_pool_alive
  <2>1. busy
    BY <1>5 DEF thread_pool_alive, Feeding
  <2> QED
    BY <1>0, <1>2, <1>5, <2>1 DEF thread_pool_alive, statusVars, Feeding, Stopped, Intact
<1>6. CASE thread_pool_reload
  <2>1. /\ mpc = "reload" /\ mpc' = "await_backlog"
        /\ UNCHANGED <<result, event, spc, busy>>
    BY <1>6 DEF thread_pool_reload, statusVars
  <2>2. Intact /\ Active = {}
    BY <2>1 DEF PoolInv, SuccessInv, HandedInv, Feeding
  <2>3. \A v \in Workers : wpc[v] # "task"
    BY <2>2 DEF Active, PoolInv, OnceInv, TypeOK, Hands, HandOf, Holds, Pointers
  <2> QED
    BY <1>0, <1>1, <2>1, <2>3 DEF Feeding, Stopped, Intact
<1>7. CASE thread_pool_stop
  <2>1. /\ mpc = "stop" /\ mpc' = "await_exit" /\ event' = "exit_success"
        /\ UNCHANGED <<stage, result, busy>>
        /\ spc' \in {spc, "listen"}
    BY <1>7 DEF thread_pool_stop, WakeSupervisor, statusVars
  <2>2. Intact /\ stage = Len(Stages)
    BY <2>1 DEF PoolInv, SuccessInv, HandedInv, Feeding
  <2> QED
    BY <1>0, <1>2, <2>1, <2>2 DEF Feeding, Stopped, Intact
<1>8. CASE thread_pool_await_exit_success
  <2>1. /\ mpc = "await_exit" /\ UNCHANGED <<stage, event, spc, busy>>
        /\ mpc' \in {"wait_exit", "free"}
        /\ result' = IF mpc' = "free" THEN "success" ELSE result
    BY <1>8 DEF thread_pool_await_exit_success, statusVars
  <2> QED
    BY <1>0, <1>2, <2>1 DEF Feeding, Stopped, Intact
<1>9. CASE Teardown
  <2>1. /\ mpc \in {"free", "return"} /\ mpc' \in {"return", "exit"}
        /\ UNCHANGED <<stage, event, spc, busy, result>>
    BY <1>9 DEF Teardown, statusVars, Feeding, Stopped
  <2> QED
    BY <1>0, <1>2, <2>1 DEF Feeding, Stopped, Intact
<1>10. ~PoolCallFails /\ ~LivePoolFailure
  BY DEF PoolCallFails, LivePoolFailure, Feeding, Stopped
<1> QED
  BY <1>3, <1>4, <1>5, <1>6, <1>7, <1>8, <1>9, <1>10 DEF Main

(* NormalInv is inductive relative to PoolInv. *)
LEMMA NormalStep ==
    ASSUME PoolInv, NormalInv, [Next]_vars
    PROVE  NormalInv'
<1>1. CASE SpuriousWakeup
  <2>1. /\ UNCHANGED <<node, stage, result, event, supCancel, busy, exit>>
        /\ spc' \in {spc, "listen"} /\ (spc' # spc => spc = "wait")
        /\ mpc' = mpc \/ /\ mpc \in {"wait_backlog", "wait_active", "wait_exit", "wait_failure"}
                         /\ mpc = "wait_backlog" => mpc' = "await_backlog"
                         /\ mpc = "wait_active" => mpc' = "await_active"
                         /\ mpc = "wait_exit" => mpc' = "await_exit"
    BY <1>1 DEF SpuriousWakeup, statusVars
  <2>2. \A v \in Workers : \/ wpc'[v] = wpc[v]
                           \/ wpc[v] \in {"none", "wait"} /\ wpc'[v] = "pop"
    BY <1>1, OthersFrame, WokenFacts DEF PoolInv, OnceInv, Others
  <2>3. Intact' <=> Intact
    BY <2>1 DEF Intact
  <2> QED
    BY <2>1, <2>2, <2>3 DEF NormalInv, Feeding, Stopped
<1>2. CASE Exited \/ UNCHANGED vars
  BY <1>2 DEF Exited, vars, workerVars, supVars, statusVars, mainVars, NormalInv, Intact
<1> QED
  BY <1>1, <1>2, WorkerNormal, SupervisorNormal, MainNormal DEF Next

(* The tasks of a stage, as StagedRun names them. *)
LEMMA StagedTasks ==
    ASSUME NEW k \in 1..Len(Stages)
    PROVE  Staged!TasksOf(k) = StageTasks(k)
  BY StageTasksFacts DEF Staged!TasksOf, Size, TaskAt

(* Every step of the pool is a step of StagedRun or leaves it unchanged. *)
LEMMA StagedStep ==
    ASSUME PoolInv, NormalInv, [Next]_vars
    PROVE  [Staged!Next]_(Staged!vars)
<1> USE DEF Staged!vars
<1>0. stage \in 1..Len(Stages) /\ Len(Stages) \in Nat
  BY ArrayFacts DEF PoolInv, OnceInv, TypeOK
<1>1. Staged!TasksOf(stage) = StageTasks(stage)
  BY <1>0, StagedTasks
<1>2. ASSUME NEW w \in Workers, Worker(w)
      PROVE  [Staged!Next]_(Staged!vars)
  <2>1. stage' = stage
    BY <1>2, WorkerFrame
  <2>2. result' = result
    BY <1>2 DEF Worker, WorkerPop, TaskReturns, TaskFails, FailureLogged,
         FailureSignalled, WorkerRemove, WorkerPush, WorkerCancelled, mainVars
  <2>3. CASE TaskReturns(w)
    <3>1. PICK t : t = node[w] /\ t \in StageTasks(stage) /\ t \notin done
      BY <2>3 DEF TaskReturns, NormalInv, PoolInv, OnceInv, Hands, HandOf
    <3>2. done' = done \cup {t}
      BY <2>3, <3>1 DEF TaskReturns
    <3>3. Staged!Run(t)
      BY <1>1, <2>1, <2>2, <3>1, <3>2 DEF Staged!Run
    <3> QED
      BY <1>1, <3>1, <3>3 DEF Staged!Next
  <2>4. CASE ~TaskReturns(w)
    <3>1. done' = done
      BY <1>2, <2>4 DEF Worker, WorkerPop, TaskFails, FailureLogged,
           FailureSignalled, WorkerRemove, WorkerPush, WorkerCancelled, taskVars
    <3> QED
      BY <2>1, <2>2, <3>1
  <2> QED
    BY <2>3, <2>4
<1>3. CASE Supervisor \/ SpuriousWakeup \/ Exited \/ UNCHANGED vars
  <2>1. UNCHANGED <<stage, done, result>>
    <3>1. CASE Supervisor
      BY <3>1 DEF Supervisor, supervisor_spawn, supervisor_listen,
           supervisor_exit_on_failure, supervisor_do_exit_failure,
           supervisor_do_exit_success, supervisor_exit_cleanup, SupOnly, taskVars
    <3>2. CASE SpuriousWakeup
      BY <3>2 DEF SpuriousWakeup, taskVars
    <3>3. CASE Exited \/ UNCHANGED vars
      BY <3>3 DEF Exited, vars, mainVars, taskVars
    <3> QED
      BY <1>3, <3>1, <3>2, <3>3
  <2> QED
    BY <2>1
<1>4. CASE Main
  <2>0. done' = done
    BY <1>4, OthersFrame DEF Others, PoolInv, OnceInv
  <2>1. CASE thread_pool_reload
    <3>1. /\ mpc = "reload" /\ stage' = stage + 1 /\ result' = result
      BY <2>1 DEF thread_pool_reload
    <3>2. StageTasks(stage) \subseteq done
      BY <1>0, <3>1, StageOver DEF NormalInv, Feeding, PoolInv, SuccessInv, HandedInv
    <3>3. stage < Len(Stages)
      BY <3>1 DEF PoolInv, OnceInv, TypeOK
    <3>4. Staged!Advance
      BY <1>1, <2>0, <3>1, <3>2, <3>3 DEF Staged!Advance, Staged!StageDone
    <3> QED
      BY <3>4 DEF Staged!Next
  <2>2. CASE thread_pool_await_exit_success /\ result' # result
    <3>1. /\ mpc = "await_exit" /\ exit = "success" /\ result' = "success"
          /\ stage' = stage
      BY <2>2 DEF thread_pool_await_exit_success
    <3>2. stage = Len(Stages) /\ result = "none"
      BY <3>1 DEF NormalInv, Stopped
    <3>3. StageTasks(stage) \subseteq done
      BY <1>0, <3>1 DEF PoolInv, SuccessInv, Finished
    <3>4. Staged!Succeed
      BY <1>1, <2>0, <3>1, <3>2, <3>3 DEF Staged!Succeed, Staged!StageDone
    <3> QED
      BY <3>4 DEF Staged!Next
  <2>3. CASE ~thread_pool_reload /\ result' = result
    <3>1. stage' = stage
      BY <1>4, <2>3 DEF Main, thread_pool_start, thread_pool_await, thread_pool_alive,
           thread_pool_stop, thread_pool_await_exit_success, PoolCallFails,
           LivePoolFailure, Teardown
    <3> QED
      BY <2>0, <2>3, <3>1
  <2>4. ~thread_pool_await_exit_success => result' = result
    <3>1. mpc \notin {"cleanup", "start_failed"}
      BY DEF NormalInv, Feeding, Stopped
    <3> QED
      BY <1>4, <3>1 DEF Main, thread_pool_start, thread_pool_await, thread_pool_alive,
           thread_pool_reload, thread_pool_stop, PoolCallFails, LivePoolFailure, Teardown
  <2> QED
    BY <2>1, <2>2, <2>3, <2>4
<1> QED
  BY <1>2, <1>3, <1>4 DEF Next

(* Without faults the pool and its client implement the safety part of
   StagedRun: stages follow each other with a barrier between them, each task
   runs once and in its stage, and success is reported after the last one. *)
THEOREM PoolImplementsStages == NoFaults /\ Spec => Staged!Spec
<1>1. Init /\ NoFaults => NormalInv
  BY InitNormal
<1>2. PoolInv /\ NormalInv /\ [Next]_vars => NormalInv'
  BY NormalStep
<1>3. Init => Staged!Init
  BY DEF Init, Staged!Init
<1>4. PoolInv /\ NormalInv /\ [Next]_vars => [Staged!Next]_(Staged!vars)
  BY StagedStep
<1> QED
  BY <1>1, <1>2, <1>3, <1>4, PoolInvariant, PTL DEF Spec, Staged!Spec
=============================================================================
