------------------------------ MODULE TaskQueue ------------------------------
(***************************************************************************)
(* Any client of thread/task_queue.h that keeps the contracts the header   *)
(* leaves to its callers:                                                  *)
(*   - a node is pushed only while it is in no list;                       *)
(*   - task_queue_remove is called with a node of that queue;              *)
(*   - task_queue_reload is called with an empty queue and a store that    *)
(*     holds nodes (its comment: "queue is empty, store is not empty");    *)
(*   - a store whose nodes were handed over by a reload keeps dangling     *)
(*     pointers and is stale: it is not read again until it is overwritten;*)
(*   - task_queue_transfer_all is called with an empty queue2: otherwise   *)
(*     it leaves queue2->last behind, and the next push drops the nodes.   *)
(*                                                                         *)
(* contents is what a caller believes each list holds.  The invariants say *)
(* that the pointers always agree with it.                                 *)
(***************************************************************************)
EXTENDS TaskList, SequencesExt

CONSTANTS Queues, Stores,
          ArrayMax   \* the longest array task_store_init is given

ASSUME ListsAssumption ==
    /\ Lists = Queues \cup Stores
    /\ Queues \cap Stores = {}
    /\ ArrayMax \in Nat

VARIABLES contents,   \* list -> the nodes it holds, in order
          stale       \* the stores whose pointers are dangling

vars == <<listVars, contents, stale>>

Owned(n) == \E l \in Lists : \E i \in 1..Len(contents[l]) : contents[l][i] = n

Free == {n \in Nodes : ~Owned(n)}

(* task_queue_init_empty for the queues; the stores are not yet            *)
(* initialised.  Nothing reads a stale pointer, so NULL stands for what an *)
(* uninitialised one holds.                                                *)
Init ==
    /\ head = [l \in Lists |-> NULL]
    /\ last = [l \in Lists |-> NULL]
    /\ next = [n \in Nodes |-> NULL]
    /\ prev = [n \in Nodes |-> NULL]
    /\ contents = [l \in Lists |-> <<>>]
    /\ stale = Stores

-----------------------------------------------------------------------------
StoreInit(s, ns) ==
    /\ s \in stale
    /\ Len(ns) > 0
    /\ \A i \in 1..Len(ns) : ns[i] \in Free
    /\ \A i, j \in 1..Len(ns) : ns[i] = ns[j] => i = j
    /\ task_store_init(s, ns)
    /\ contents' = [contents EXCEPT ![s] = ns]
    /\ stale' = stale \ {s}

Push(q, n) ==
    /\ n \in Free
    /\ task_queue_push(q, n)
    /\ contents' = [contents EXCEPT ![q] = Append(@, n)]
    /\ UNCHANGED stale

Pop(q) ==
    /\ task_queue_pop(q)
    /\ contents' = [contents EXCEPT ![q] = Tail(@)]
    /\ UNCHANGED stale

RemoveNode(q, i) ==
    /\ i \in 1..Len(contents[q])
    /\ task_queue_remove(q, contents[q][i])
    /\ contents' = [contents EXCEPT ![q] = RemoveAt(@, i)]
    /\ UNCHANGED stale

PopPush(q1, q2) ==
    /\ q1 # q2
    /\ task_queue_pop_push(q1, q2)
    /\ contents' = [contents EXCEPT ![q1] = Tail(@),
                                    ![q2] = Append(@, contents[q1][1])]
    /\ UNCHANGED stale

Clear(q) ==
    /\ task_queue_clear(q)
    /\ contents' = [contents EXCEPT ![q] = <<>>]
    /\ UNCHANGED stale

TransferAll(q1, q2) ==
    /\ q1 # q2
    /\ task_queue_transfer_all(q1, q2)
    /\ contents' = [contents EXCEPT ![q1] = <<>>, ![q2] = @ \o contents[q1]]
    /\ UNCHANGED stale

(* A slip for comparison: queue and store exchanged in the call. *)
ReloadSwapped(q, s) ==
    /\ s \notin stale
    /\ task_queue_reload(s, q)
    /\ contents' = [contents EXCEPT ![s] = contents[q], ![q] = <<>>]
    /\ stale' = stale \cup {q}

Reload(q, s) ==
    /\ contents[q] = <<>>
    /\ s \notin stale /\ contents[s] # <<>>
    /\ task_queue_reload(q, s)
    /\ contents' = [contents EXCEPT ![q] = contents[s], ![s] = <<>>]
    /\ stale' = stale \cup {s}

Retreive(q, s) ==
    /\ s \in stale \/ contents[s] = <<>>
    /\ task_queue_retreive(q, s)
    /\ contents' = [contents EXCEPT ![s] = contents[q], ![q] = <<>>]
    /\ stale' = stale \ {s}

StoreSwap(s1, s2) ==
    /\ s1 # s2
    /\ task_store_swap(s1, s2)
    /\ contents' = [contents EXCEPT ![s1] = contents[s2], ![s2] = contents[s1]]
    /\ stale' = {IF s = s1 THEN s2 ELSE IF s = s2 THEN s1 ELSE s : s \in stale}

Next ==
    \/ \E s \in Stores, ns \in SeqOf(Nodes, ArrayMax) : StoreInit(s, ns)
    \/ \E q \in Queues :
        \/ \E n \in Nodes : Push(q, n)
        \/ Pop(q)
        \/ \E i \in 1..Len(contents[q]) : RemoveNode(q, i)
        \/ Clear(q)
        \/ \E q2 \in Queues : PopPush(q, q2)
        \/ \E q2 \in Queues : contents[q2] = <<>> /\ TransferAll(q, q2)
        \/ \E s \in Stores : Reload(q, s) \/ Retreive(q, s)
    \/ \E s1, s2 \in Stores : StoreSwap(s1, s2)

Spec == Init /\ [][Next]_vars

-----------------------------------------------------------------------------
TypeOK ==
    /\ ListTypeOK
    /\ contents \in [Lists -> Seq(Nodes)]
    /\ stale \in SUBSET Stores

LinkedAt(l) == Spans(contents[l], head[l], last[l], next, prev)

(* head, last and the next and prev of every node inside agree with the    *)
(* sequence the callers built: pop takes the oldest node, await_empty and  *)
(* the signals see an empty queue exactly when it is empty, and remove can *)
(* trust the pointers of a node wherever it stands.                        *)
(* A stale store is excused, and holds no node of its own.                 *)
Linked ==
    /\ \A l \in Lists \ stale : LinkedAt(l)
    /\ \A s \in stale : contents[s] = <<>>
=============================================================================
