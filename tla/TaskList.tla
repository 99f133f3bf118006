------------------------------ MODULE TaskList ------------------------------
(***************************************************************************)
(* The pointer structure of thread/task_queue.h: TaskNodes linked both     *)
(* ways through next and prev, and lists (a TaskQueue or a TaskStore) that *)
(* keep a head and a last pointer into such a chain.                       *)
(*                                                                         *)
(* Every operator below is the critical section of one function, that is   *)
(* everything it does to head, last, next and prev while it holds the      *)
(* queue's lock.  No field of a list is touched outside its lock (the one  *)
(* exception, task_queue_retreive_cold_quiet, is documented as unlocked),  *)
(* so a critical section is one step.  The _muffle, _report and _handle_cl *)
(* variants of a function differ only in what they do when a pthread call  *)
(* fails and share one operator here.                                      *)
(*                                                                         *)
(* A write through a NULL pointer cannot happen in these formulas: NULL is *)
(* not a node, so [x \in Nodes |-> IF x = p ...] changes nothing when p is *)
(* NULL.  The code guards each such write with the same test.              *)
(***************************************************************************)

EXTENDS Integers, Sequences

CONSTANTS Lists,   \* the queues and stores
          Nodes,   \* the task nodes
          NULL     \* the null pointer

ASSUME NullAssumption == NULL \notin Nodes

VARIABLES head,    \* list -> its first node, or NULL
          last,    \* list -> its last node, or NULL
          next,    \* node -> node->next
          prev     \* node -> node->prev

listVars == <<head, last, next, prev>>

Pointers == Nodes \cup {NULL}

ListTypeOK ==
    /\ head \in [Lists -> Pointers]
    /\ last \in [Lists -> Pointers]
    /\ next \in [Nodes -> Pointers]
    /\ prev \in [Nodes -> Pointers]

(* head h, last t and the links nx and pv spell out the sequence s. *)
Spans(s, h, t, nx, pv) ==
    /\ h = IF s = <<>> THEN NULL ELSE s[1]
    /\ t = IF s = <<>> THEN NULL ELSE s[Len(s)]
    /\ \A i \in 1..Len(s) :
        /\ nx[s[i]] = IF i = Len(s) THEN NULL ELSE s[i + 1]
        /\ pv[s[i]] = IF i = 1 THEN NULL ELSE s[i - 1]

-----------------------------------------------------------------------------
(***************************************************************************)
(* Linking and unlinking                                                   *)
(***************************************************************************)

(* Link an array of nodes, given as the sequence ns, and let l span it.    *)
(* count = 0 would make last point before the array: callers pass at least *)
(* one node.                                                               *)
task_store_init(l, ns) ==
    LET In(x) == \E i \in 1..Len(ns) : ns[i] = x
        At(x) == CHOOSE i \in 1..Len(ns) : ns[i] = x
    IN  /\ head' = [head EXCEPT ![l] = ns[1]]
        /\ last' = [last EXCEPT ![l] = ns[Len(ns)]]
        /\ next' = [x \in Nodes |->
                      IF ~In(x) THEN next[x]
                      ELSE IF At(x) = Len(ns) THEN NULL ELSE ns[At(x) + 1]]
        /\ prev' = [x \in Nodes |->
                      IF ~In(x) THEN prev[x]
                      ELSE IF At(x) = 1 THEN NULL ELSE ns[At(x) - 1]]

(* Append n: task_queue_push and task_queue_push_quiet. *)
task_queue_push(q, n) ==
    /\ next' = [x \in Nodes |-> IF x = last[q] THEN n
                                ELSE IF x = n THEN NULL ELSE next[x]]
    /\ prev' = [prev EXCEPT ![n] = last[q]]
    /\ head' = IF last[q] = NULL THEN [head EXCEPT ![q] = n] ELSE head
    /\ last' = [last EXCEPT ![q] = n]

(* task_queue_push signals node_ready when the queue was empty;            *)
(* task_queue_push_quiet never signals.                                    *)
PushSignals(q) == last[q] = NULL

(* Detach the head, once the wait for node_ready is over. *)
task_queue_pop(q) ==
    LET m == next[head[q]]
    IN  /\ head[q] # NULL
        /\ head' = [head EXCEPT ![q] = m]
        /\ last' = IF m = NULL THEN [last EXCEPT ![q] = NULL] ELSE last
        /\ prev' = [x \in Nodes |-> IF x = m THEN NULL ELSE prev[x]]
        /\ UNCHANGED next

(* pop and pop_push signal empty when they take the only node. *)
PopSignals(q) == next[head[q]] = NULL

(* A slip for comparison: queue->last is not moved when the last node goes. *)
RemoveKeepsLast(q, n) ==
    /\ head' = IF prev[n] = NULL THEN [head EXCEPT ![q] = next[n]] ELSE head
    /\ next' = [x \in Nodes |-> IF x = prev[n] THEN next[n] ELSE next[x]]
    /\ prev' = [x \in Nodes |-> IF x = next[n] THEN prev[n] ELSE prev[x]]
    /\ UNCHANGED last

(* Unlink n, wherever it stands.  The queue is read only through n's own   *)
(* pointers: nothing checks that n is in the queue.                        *)
task_queue_remove(q, n) ==
    /\ head' = IF prev[n] = NULL THEN [head EXCEPT ![q] = next[n]] ELSE head
    /\ last' = IF next[n] = NULL THEN [last EXCEPT ![q] = prev[n]] ELSE last
    /\ next' = [x \in Nodes |-> IF x = prev[n] THEN next[n] ELSE next[x]]
    /\ prev' = [x \in Nodes |-> IF x = next[n] THEN prev[n] ELSE prev[x]]

RemoveSignals(n) == prev[n] = NULL /\ next[n] = NULL

(* A slip for comparison: the node is appended to q2 and stays the head of  *)
(* q1 for the next worker.                                                  *)
PopPushKeepsHead(q1, q2) ==
    LET n == head[q1]
    IN  /\ n # NULL
        /\ head' = [head EXCEPT ![q2] = IF last[q2] = NULL THEN n ELSE @]
        /\ last' = [last EXCEPT ![q2] = n]
        /\ prev' = [prev EXCEPT ![n] = last[q2]]
        /\ next' = [x \in Nodes |-> IF x = last[q2] THEN n ELSE next[x]]

(* Detach the head of q1 and append it to q2, both locks held. *)
task_queue_pop_push(q1, q2) ==
    LET n == head[q1]
        m == next[n]
    IN  /\ n # NULL
        /\ head' = [head EXCEPT ![q1] = m,
                                ![q2] = IF last[q2] = NULL THEN n ELSE @]
        /\ last' = [last EXCEPT ![q1] = IF m = NULL THEN NULL ELSE @,
                                ![q2] = n]
        /\ prev' = [x \in Nodes |-> IF x = n THEN last[q2]
                                    ELSE IF x = m THEN NULL ELSE prev[x]]
        /\ next' = [x \in Nodes |-> IF x = last[q2] THEN n
                                    ELSE IF x = n THEN NULL ELSE next[x]]

-----------------------------------------------------------------------------
(***************************************************************************)
(* Whole lists                                                             *)
(***************************************************************************)

(* The condition task_queue_await_empty waits for. *)
IsEmpty(q) == head[q] = NULL

task_queue_clear(q) ==
    /\ head' = [head EXCEPT ![q] = NULL]
    /\ last' = [last EXCEPT ![q] = IF head[q] = NULL THEN @ ELSE NULL]
    /\ UNCHANGED <<next, prev>>

ClearSignals(q) == head[q] # NULL

task_queue_transfer_all(q1, q2) ==
    IF head[q1] = NULL THEN UNCHANGED listVars
    ELSE IF last[q2] = NULL
    THEN /\ head' = [head EXCEPT ![q2] = head[q1], ![q1] = NULL]
         /\ last' = [last EXCEPT ![q2] = last[q1], ![q1] = NULL]
         /\ UNCHANGED <<next, prev>>
    ELSE \* "concat queues": queue2->last is left alone
         /\ prev' = [prev EXCEPT ![head[q1]] = last[q2]]
         /\ next' = [next EXCEPT ![last[q2]] = head[q1]]
         /\ head' = [head EXCEPT ![q1] = NULL]
         /\ last' = [last EXCEPT ![q1] = NULL]

(* The store's pointers are copied into the queue; the store keeps them. *)
task_queue_reload(q, s) ==
    /\ head' = [head EXCEPT ![q] = head[s]]
    /\ last' = [last EXCEPT ![q] = last[s]]
    /\ UNCHANGED <<next, prev>>

task_queue_retreive(q, s) ==
    /\ head' = [head EXCEPT ![s] = head[q], ![q] = NULL]
    /\ last' = [last EXCEPT ![s] = last[q], ![q] = NULL]
    /\ UNCHANGED <<next, prev>>

task_store_swap(s1, s2) ==
    /\ head' = [head EXCEPT ![s1] = head[s2], ![s2] = head[s1]]
    /\ last' = [last EXCEPT ![s1] = last[s2], ![s2] = last[s1]]
    /\ UNCHANGED <<next, prev>>
=============================================================================
