-------------------------- MODULE TaskQueue_proofs --------------------------
(***************************************************************************)
(* Proofs about TaskQueue: every pointer invariant of thread/task_queue.h, *)
(* for any number of queues, stores and nodes.                             *)
(*                                                                         *)
(* The argument: TaskList_proofs shows what each way of relinking does to  *)
(* one chain.  Linked is not inductive alone: a node shared by two lists   *)
(* would be relinked in one and break the other.  That there is none is    *)
(* what the callers' contracts are for; OwnedOnce states it.               *)
(***************************************************************************)
EXTENDS TaskQueue, TaskList_proofs

-----------------------------------------------------------------------------
(* Every list of c is distinct, and any two are apart. *)
Separate(c) ==
    /\ \A l \in Lists : Distinct(c[l])
    /\ \A l1, l2 \in Lists : l1 # l2 => Apart(c[l1], c[l2])

(* Replacing the contents of at most two lists keeps all lists separate if
   the new contents are separate from each other and from the other lists. *)
LEMMA SeparateUpdate ==
    ASSUME NEW c, NEW c2, Separate(c), NEW p \in Lists, NEW q \in Lists,
           \A l \in Lists \ {p, q} : c2[l] = c[l],
           Distinct(c2[p]), Distinct(c2[q]),
           p # q => Apart(c2[p], c2[q]),
           \A l \in Lists \ {p, q} : Apart(c2[p], c[l]) /\ Apart(c2[q], c[l])
    PROVE  Separate(c2)
<1>1. \A s, t : Apart(s, t) => Apart(t, s)
  BY DEF Apart
<1>2. \A l \in Lists : Distinct(c2[l])
  BY DEF Separate
<1>3. ASSUME NEW l1 \in Lists, NEW l2 \in Lists, l1 # l2
      PROVE  Apart(c2[l1], c2[l2])
  <2>1. CASE l1 \in {p, q} /\ l2 \in {p, q}
    BY <1>1, <1>3, <2>1
  <2>2. CASE l1 \in {p, q} /\ l2 \notin {p, q}
    BY <2>2
  <2>3. CASE l1 \notin {p, q} /\ l2 \in {p, q}
    BY <1>1, <2>3
  <2>4. CASE l1 \notin {p, q} /\ l2 \notin {p, q}
    BY <1>3, <2>4 DEF Separate
  <2> QED
    BY <2>1, <2>2, <2>3, <2>4
<1> QED
  BY <1>2, <1>3 DEF Separate

(* Separate is the form of OwnedOnce, below, that the proofs use. *)
LEMMA SeparateOwned ==
    ASSUME NEW c, Separate(c)
    PROVE  \A l1, l2 \in Lists :
              \A i \in 1..Len(c[l1]), j \in 1..Len(c[l2]) :
                  c[l1][i] = c[l2][j] => l1 = l2 /\ i = j
  BY DEF Separate, Distinct, Apart

-----------------------------------------------------------------------------
(* No node is in two lists, or twice in one.  This is what the callers'    *)
(* contracts say of contents, and nothing the pointers could break; but a  *)
(* proof about the pointers needs it.                                      *)
OwnedOnce ==
    \A l1, l2 \in Lists :
        \A i \in 1..Len(contents[l1]), j \in 1..Len(contents[l2]) :
            contents[l1][i] = contents[l2][j] => l1 = l2 /\ i = j

(* The inductive invariant. *)
IInv == TypeOK /\ OwnedOnce /\ Linked

(* The invariant in the form every step below starts from. *)
LEMMA StateFacts ==
    ASSUME IInv
    PROVE  /\ \A l \in Lists : contents[l] \in Seq(Nodes) /\ Len(contents[l]) \in Nat
           /\ Separate(contents)
           /\ \A q \in Queues : q \in Lists /\ q \notin stale
           /\ \A l \in Lists \ stale :
                 Spans(contents[l], head[l], last[l], next, prev)
<1>1. \A l \in Lists : contents[l] \in Seq(Nodes) /\ Len(contents[l]) \in Nat
  BY DEF IInv, TypeOK
<1>2. Separate(contents)
  BY DEF IInv, OwnedOnce, Separate, Distinct, Apart
<1>3. \A q \in Queues : q \in Lists /\ q \notin stale
  BY ListsAssumption DEF IInv, TypeOK
<1> QED
  BY <1>1, <1>2, <1>3 DEF IInv, Linked, LinkedAt

(* task_queue_push and task_queue_push_quiet preserve the invariant. *)
LEMMA PushStep ==
    ASSUME IInv, NEW q \in Queues, NEW n \in Nodes, Push(q, n)
    PROVE  IInv'
<1> USE DEF Push, task_queue_push
<1>1. /\ q \in Lists /\ q \notin stale /\ Separate(contents)
      /\ \A l \in Lists : contents[l] \in Seq(Nodes) /\ Len(contents[l]) \in Nat
      /\ \A l \in Lists \ stale : Spans(contents[l], head[l], last[l], next, prev)
  BY StateFacts
<1>2. \A l \in Lists : \A i \in 1..Len(contents[l]) : contents[l][i] # n
  BY DEF Free, Owned
<1>3. /\ contents' \in [Lists -> Seq(Nodes)]
      /\ contents'[q] = Append(contents[q], n)
      /\ \A l \in Lists \ {q} : contents'[l] = contents[l]
  BY <1>1 DEF IInv, TypeOK
<1>4. TypeOK'
  BY <1>1, <1>3 DEF IInv, TypeOK, ListTypeOK, Pointers
<1>5. Separate(contents')
  <2>1. Distinct(contents'[q])
    BY <1>1, <1>2, <1>3, AppendDistinct DEF Separate
  <2>2. \A l \in Lists \ {q} : Apart(contents'[q], contents[l])
    BY <1>1, <1>2, <1>3, AppendApart DEF Separate
  <2> QED
    BY <1>1, <1>3, <2>1, <2>2, SeparateUpdate
<1>6. ASSUME NEW l \in Lists \ stale
      PROVE  LinkedAt(l)'
  <2>1. CASE l = q
    <3>1. /\ prev'[n] = last[q]
          /\ \A i \in 1..Len(contents[q]) : prev'[contents[q][i]] = prev[contents[q][i]]
      BY <1>1, <1>2 DEF IInv, TypeOK, ListTypeOK
    <3>2. /\ head'[q] = IF last[q] = NULL THEN n ELSE head[q]
          /\ last'[q] = n
      BY <1>1 DEF IInv, TypeOK, ListTypeOK
    <3>3. Spans(Append(contents[q], n), head'[q], n, next', prev')
      <4>1. /\ contents[q] \in Seq(Nodes) /\ Distinct(contents[q])
            /\ Spans(contents[q], head[q], last[q], next, prev)
            /\ \A i \in 1..Len(contents[q]) : contents[q][i] # n
        BY <1>1, <1>2 DEF Separate
      <4>2. next'[n] = NULL
        <5>1. last[q] # n
          BY <4>1, SpansEnds, NullAssumption
        <5> QED
          BY <5>1
      <4>3. \A i \in 1..Len(contents[q]) :
               /\ next'[contents[q][i]] = IF contents[q][i] = last[q] THEN n
                                         ELSE next[contents[q][i]]
               /\ prev'[contents[q][i]] = prev[contents[q][i]]
        BY <4>1, <3>1
      <4> QED
        <5>1. AppendLinks(contents[q], last[q], n, next, prev, next', prev')
          BY <4>1, <4>2, <4>3, <3>1 DEF AppendLinks
        <5> QED
          BY ONLY <4>1, <5>1, <3>2, n \in Nodes, SpansAppend
    <3> QED
      BY <2>1, <1>3, <3>2, <3>3 DEF LinkedAt
  <2>2. CASE l # q
    <3>1. ASSUME NEW i \in 1..Len(contents[l])
          PROVE  /\ contents[l][i] \in Nodes
                 /\ contents[l][i] # n /\ contents[l][i] # last[q]
      <4>1. Apart(contents[l], contents[q])
        BY <1>1, <2>2 DEF Separate
      <4> QED
        BY <4>1, <1>1, <1>2, EndsApart
    <3>2. \A i \in 1..Len(contents[l]) :
             /\ next'[contents[l][i]] = next[contents[l][i]]
             /\ prev'[contents[l][i]] = prev[contents[l][i]]
      BY <3>1 DEF IInv, TypeOK, ListTypeOK
    <3>3. head'[l] = head[l] /\ last'[l] = last[l]
      BY <2>2, <1>1 DEF IInv, TypeOK, ListTypeOK
    <3>4. Spans(contents[l], head[l], last[l], next', prev')
      <4>1. /\ contents[l] \in Seq(Nodes)
            /\ Spans(contents[l], head[l], last[l], next, prev)
        BY <1>1
      <4> QED
        BY ONLY <4>1, <3>2, SpansFrame
    <3> QED
      BY <2>2, <1>3, <3>3, <3>4 DEF LinkedAt
  <2> QED
    BY <2>1, <2>2
<1>7. \A s \in stale : contents'[s] = <<>>
  BY <1>1, <1>3 DEF IInv, Linked, TypeOK
<1>8. OwnedOnce'
  BY ONLY <1>5, SeparateOwned DEF OwnedOnce
<1>9. Linked'
  BY <1>6, <1>7 DEF Linked
<1> QED
  BY <1>4, <1>8, <1>9 DEF IInv

(* task_queue_pop preserves the invariant. *)
LEMMA PopStep ==
    ASSUME IInv, NEW q \in Queues, Pop(q)
    PROVE  IInv'
<1> USE DEF Pop, task_queue_pop
<1>1. /\ q \in Lists /\ q \notin stale /\ Separate(contents)
      /\ \A l \in Lists : contents[l] \in Seq(Nodes) /\ Len(contents[l]) \in Nat
      /\ \A l \in Lists \ stale : Spans(contents[l], head[l], last[l], next, prev)
  BY StateFacts
<1>2. /\ contents[q] # <<>> /\ 1 \in 1..Len(contents[q])
      /\ head[q] = contents[q][1] /\ head[q] \in Nodes
  BY <1>1, SpansEnds
<1>3. /\ contents' \in [Lists -> Seq(Nodes)]
      /\ contents'[q] = Tail(contents[q])
      /\ \A l \in Lists \ {q} : contents'[l] = contents[l]
  BY <1>1, <1>2 DEF IInv, TypeOK
<1>4. TypeOK'
  BY <1>1, <1>2, <1>3 DEF IInv, TypeOK, ListTypeOK, Pointers
<1>5. Separate(contents')
  <2>1. Distinct(contents'[q])
    BY <1>1, <1>2, <1>3, TailDistinct DEF Separate
  <2>2. \A l \in Lists \ {q} : Apart(contents'[q], contents[l])
    BY <1>1, <1>2, <1>3, TailApart DEF Separate
  <2> QED
    BY <1>1, <1>3, <2>1, <2>2, SeparateUpdate
<1>6. ASSUME NEW l \in Lists \ stale
      PROVE  LinkedAt(l)'
  <2>1. CASE l = q
    <3>1. /\ head'[q] = next[head[q]]
          /\ last'[q] = IF next[head[q]] = NULL THEN NULL ELSE last[q]
      BY <1>1 DEF IInv, TypeOK, ListTypeOK
    <3>2. TailLinks(contents[q], next[head[q]], next, prev, next', prev')
      <4>1. \A i \in 2..Len(contents[q]) : contents[q][i] \in Nodes
        BY <1>1
      <4> QED
        BY <4>1 DEF TailLinks
    <3>3. Spans(Tail(contents[q]), head'[q], last'[q], next', prev')
      <4>1. /\ contents[q] \in Seq(Nodes) /\ Distinct(contents[q]) /\ head[q] # NULL
            /\ Spans(contents[q], head[q], last[q], next, prev)
        BY <1>1 DEF Separate
      <4> QED
        BY ONLY <4>1, <3>1, <3>2, SpansTail
    <3> QED
      BY <2>1, <1>3, <3>3 DEF LinkedAt
  <2>2. CASE l # q
    <3>1. \A i \in 1..Len(contents[l]) :
             contents[l][i] \in Nodes /\ contents[l][i] # next[head[q]]
      <4>1. Apart(contents[l], contents[q])
        BY <1>1, <2>2 DEF Separate
      <4> QED
        BY <4>1, <1>1, <1>2, NeighboursApart
    <3>2. \A i \in 1..Len(contents[l]) :
             /\ next'[contents[l][i]] = next[contents[l][i]]
             /\ prev'[contents[l][i]] = prev[contents[l][i]]
      BY <3>1
    <3>3. head'[l] = head[l] /\ last'[l] = last[l]
      BY <2>2, <1>1 DEF IInv, TypeOK, ListTypeOK
    <3>4. Spans(contents[l], head[l], last[l], next', prev')
      <4>1. /\ contents[l] \in Seq(Nodes)
            /\ Spans(contents[l], head[l], last[l], next, prev)
        BY <1>1
      <4> QED
        BY ONLY <4>1, <3>2, SpansFrame
    <3> QED
      BY <2>2, <1>3, <3>3, <3>4 DEF LinkedAt
  <2> QED
    BY <2>1, <2>2
<1>7. \A s \in stale : contents'[s] = <<>>
  BY <1>1, <1>3 DEF IInv, Linked, TypeOK
<1>8. OwnedOnce'
  BY ONLY <1>5, SeparateOwned DEF OwnedOnce
<1>9. Linked'
  BY <1>6, <1>7 DEF Linked
<1> QED
  BY <1>4, <1>8, <1>9 DEF IInv

(* task_queue_remove of a node of the queue preserves the invariant. *)
LEMMA RemoveNodeStep ==
    ASSUME IInv, NEW q \in Queues, NEW k \in 1..Len(contents[q]), RemoveNode(q, k)
    PROVE  IInv'
<1> USE DEF RemoveNode, task_queue_remove
<1> DEFINE n == contents[q][k]
<1>1. /\ q \in Lists /\ q \notin stale /\ Separate(contents)
      /\ \A l \in Lists : contents[l] \in Seq(Nodes) /\ Len(contents[l]) \in Nat
      /\ \A l \in Lists \ stale : Spans(contents[l], head[l], last[l], next, prev)
  BY StateFacts
<1>2. n \in Nodes
  BY <1>1
<1>3. /\ contents' \in [Lists -> Seq(Nodes)]
      /\ contents'[q] = RemoveAt(contents[q], k)
      /\ \A l \in Lists \ {q} : contents'[l] = contents[l]
  <2>1. RemoveAt(contents[q], k) \in Seq(Nodes)
    BY <1>1, RemoveAtFacts
  <2> QED
    BY <1>1, <2>1 DEF IInv, TypeOK
<1>4. TypeOK'
  BY <1>1, <1>2, <1>3 DEF IInv, TypeOK, ListTypeOK, Pointers
<1>5. Separate(contents')
  <2>1. Distinct(contents'[q])
    BY <1>1, <1>3, RemoveDistinct DEF Separate
  <2>2. \A l \in Lists \ {q} : Apart(contents'[q], contents[l])
    BY <1>1, <1>3, RemoveApart DEF Separate
  <2> QED
    BY <1>1, <1>3, <2>1, <2>2, SeparateUpdate
<1>6. ASSUME NEW l \in Lists \ stale
      PROVE  LinkedAt(l)'
  <2>1. CASE l = q
    <3>1. /\ head'[q] = IF prev[n] = NULL THEN next[n] ELSE head[q]
          /\ last'[q] = IF next[n] = NULL THEN prev[n] ELSE last[q]
      BY <1>1 DEF IInv, TypeOK, ListTypeOK
    <3>2. RemoveLinks(contents[q], n, next, prev, next', prev')
      <4>1. \A i \in 1..Len(contents[q]) : contents[q][i] \in Nodes
        BY <1>1
      <4> QED
        BY <4>1 DEF RemoveLinks
    <3>3. Spans(RemoveAt(contents[q], k), head'[q], last'[q], next', prev')
      <4>1. /\ contents[q] \in Seq(Nodes) /\ Distinct(contents[q])
            /\ Spans(contents[q], head[q], last[q], next, prev)
        BY <1>1 DEF Separate
      <4> QED
        BY ONLY <4>1, <3>1, <3>2, k \in 1..Len(contents[q]), SpansRemove
    <3> QED
      BY <2>1, <1>3, <3>3 DEF LinkedAt
  <2>2. CASE l # q
    <3>1. \A i \in 1..Len(contents[l]) :
             /\ contents[l][i] \in Nodes
             /\ contents[l][i] # next[n] /\ contents[l][i] # prev[n]
      <4>1. Apart(contents[l], contents[q])
        BY <1>1, <2>2 DEF Separate
      <4> QED
        BY <4>1, <1>1, NeighboursApart
    <3>2. \A i \in 1..Len(contents[l]) :
             /\ next'[contents[l][i]] = next[contents[l][i]]
             /\ prev'[contents[l][i]] = prev[contents[l][i]]
      BY <3>1
    <3>3. head'[l] = head[l] /\ last'[l] = last[l]
      BY <2>2, <1>1 DEF IInv, TypeOK, ListTypeOK
    <3>4. Spans(contents[l], head[l], last[l], next', prev')
      <4>1. /\ contents[l] \in Seq(Nodes)
            /\ Spans(contents[l], head[l], last[l], next, prev)
        BY <1>1
      <4> QED
        BY ONLY <4>1, <3>2, SpansFrame
    <3> QED
      BY <2>2, <1>3, <3>3, <3>4 DEF LinkedAt
  <2> QED
    BY <2>1, <2>2
<1>7. \A s \in stale : contents'[s] = <<>>
  BY <1>1, <1>3 DEF IInv, Linked, TypeOK
<1>8. OwnedOnce'
  BY ONLY <1>5, SeparateOwned DEF OwnedOnce
<1>9. Linked'
  BY <1>6, <1>7 DEF Linked
<1> QED
  BY <1>4, <1>8, <1>9 DEF IInv

(* task_queue_pop_push preserves the invariant. *)
LEMMA PopPushStep ==
    ASSUME IInv, NEW q1 \in Queues, NEW q2 \in Queues, PopPush(q1, q2)
    PROVE  IInv'
<1> USE DEF PopPush, task_queue_pop_push
<1> DEFINE n == head[q1]
<1> DEFINE m == next[n]
<1>1. /\ q1 \in Lists /\ q1 \notin stale /\ q2 \in Lists /\ q2 \notin stale
      /\ Separate(contents)
      /\ \A l \in Lists : contents[l] \in Seq(Nodes) /\ Len(contents[l]) \in Nat
      /\ \A l \in Lists \ stale : Spans(contents[l], head[l], last[l], next, prev)
  BY StateFacts
<1>2. /\ contents[q1] # <<>> /\ 1 \in 1..Len(contents[q1])
      /\ n = contents[q1][1] /\ n \in Nodes
  BY <1>1, SpansEnds
<1>3. /\ contents' \in [Lists -> Seq(Nodes)]
      /\ contents'[q1] = Tail(contents[q1])
      /\ contents'[q2] = Append(contents[q2], n)
      /\ \A l \in Lists \ {q1, q2} : contents'[l] = contents[l]
  <2>1. Tail(contents[q1]) \in Seq(Nodes) /\ Append(contents[q2], n) \in Seq(Nodes)
    BY <1>1, <1>2
  <2> QED
    BY <1>1, <1>2, <2>1 DEF IInv, TypeOK
<1>4. TypeOK'
  BY <1>1, <1>2, <1>3 DEF IInv, TypeOK, ListTypeOK, Pointers
<1>5. Separate(contents')
  <2>1. /\ \A l \in Lists \ {q1} : \A i \in 1..Len(contents[l]) : contents[l][i] # n
        /\ \A i \in 1..Len(contents[q1]) : contents[q1][i] = n => i = 1
    BY <1>1, <1>2 DEF Separate, Apart, Distinct
  <2>2. Distinct(contents'[q1]) /\ Distinct(contents'[q2])
    BY <1>1, <1>2, <1>3, <2>1, TailDistinct, AppendDistinct DEF Separate
  <2>3. ASSUME NEW l \in Lists \ {q1, q2}
        PROVE  Apart(contents'[q1], contents[l]) /\ Apart(contents'[q2], contents[l])
    <3>1. /\ contents[l] \in Seq(Nodes)
          /\ contents[q1] \in Seq(Nodes) /\ contents[q2] \in Seq(Nodes)
          /\ Apart(contents[q1], contents[l]) /\ Apart(contents[q2], contents[l])
      BY <1>1 DEF Separate
    <3>2. Apart(Tail(contents[q1]), contents[l])
      BY <1>2, <3>1, TailApart
    <3>3. \A i \in 1..Len(contents[l]) : contents[l][i] # n
      BY <2>1
    <3>4. Apart(Append(contents[q2], n), contents[l])
      BY ONLY <1>2, <3>1, <3>3, AppendApart
    <3> QED
      BY <1>3, <3>2, <3>4
  <2>4. Apart(contents'[q2], contents'[q1])
    <3>1. \A i \in 1..Len(Tail(contents[q1])) : Tail(contents[q1])[i] # n
      <4>1. /\ Len(contents[q1]) \in Nat
            /\ Len(Tail(contents[q1])) = Len(contents[q1]) - 1
            /\ \A i \in 1..Len(contents[q1]) - 1 :
                  Tail(contents[q1])[i] = contents[q1][i + 1]
        BY <1>1, <1>2, TailFacts
      <4>2. ASSUME NEW i \in 1..Len(Tail(contents[q1]))
            PROVE  /\ i + 1 \in 1..Len(contents[q1]) /\ i + 1 # 1
                   /\ Tail(contents[q1])[i] = contents[q1][i + 1]
        BY <4>1
      <4> QED
        BY <4>2, <2>1
    <3>2. Apart(contents[q2], Tail(contents[q1]))
      <4>1. Apart(Tail(contents[q1]), contents[q2])
        BY <1>1, <1>2, TailApart DEF Separate
      <4> QED
        BY <4>1 DEF Apart
    <3>3. Tail(contents[q1]) \in Seq(Nodes)
      BY <1>1, <1>2
    <3> QED
      BY <1>1, <1>2, <1>3, <3>1, <3>2, <3>3, AppendApart
  <2>5. Apart(contents'[q1], contents'[q2])
    BY <2>4 DEF Apart
  <2>6. /\ \A l \in Lists \ {q1, q2} : contents'[l] = contents[l]
        /\ \A l \in Lists \ {q1, q2} :
              Apart(contents'[q1], contents[l]) /\ Apart(contents'[q2], contents[l])
        /\ q1 \in Lists /\ q2 \in Lists /\ Separate(contents)
    BY <1>1, <1>3, <2>3
  <2> QED
    BY ONLY <2>2, <2>5, <2>6, SeparateUpdate
<1>6. ASSUME NEW l \in Lists \ stale
      PROVE  LinkedAt(l)'
  <2>1. CASE l = q1
    <3>1. /\ head'[q1] = m
          /\ last'[q1] = IF m = NULL THEN NULL ELSE last[q1]
      BY <1>1 DEF IInv, TypeOK, ListTypeOK
    <3>2. TailLinks(contents[q1], m, next, prev, next', prev')
      <4>1. ASSUME NEW i \in 2..Len(contents[q1])
            PROVE  /\ contents[q1][i] \in Nodes /\ contents[q1][i] # n
                   /\ contents[q1][i] # last[q2]
        <5>1. Apart(contents[q1], contents[q2]) /\ Distinct(contents[q1])
          BY <1>1 DEF Separate
        <5>2. i \in 1..Len(contents[q1]) /\ i # 1
          BY <1>1
        <5>3. contents[q1][i] # n
          BY <5>1, <5>2, <1>2 DEF Distinct
        <5> QED
          BY <1>1, <5>1, <5>2, <5>3, EndsApart
      <4> QED
        BY <4>1 DEF TailLinks
    <3>3. Spans(Tail(contents[q1]), head'[q1], last'[q1], next', prev')
      <4>1. /\ contents[q1] \in Seq(Nodes) /\ Distinct(contents[q1]) /\ head[q1] # NULL
            /\ Spans(contents[q1], head[q1], last[q1], next, prev)
        BY <1>1 DEF Separate
      <4> QED
        BY ONLY <4>1, <3>1, <3>2, SpansTail
    <3> QED
      BY <2>1, <1>3, <3>3 DEF LinkedAt
  <2>2. CASE l = q2
    <3>1. /\ head'[q2] = IF last[q2] = NULL THEN n ELSE head[q2]
          /\ last'[q2] = n
      BY <1>1 DEF IInv, TypeOK, ListTypeOK
    <3>2. /\ contents[q2] \in Seq(Nodes) /\ Distinct(contents[q2])
          /\ Spans(contents[q2], head[q2], last[q2], next, prev)
          /\ Apart(contents[q2], contents[q1])
      BY <1>1 DEF Separate
    <3>3. \A i \in 1..Len(contents[q2]) :
             contents[q2][i] \in Nodes /\ contents[q2][i] # n /\ contents[q2][i] # m
      BY <1>1, <1>2, <3>2, NeighboursApart
    <3>4. AppendLinks(contents[q2], last[q2], n, next, prev, next', prev')
      <4>1. last[q2] # n
        BY <3>2, <3>3, <1>2, SpansEnds, NullAssumption
      <4>2. next'[n] = NULL /\ prev'[n] = last[q2]
        BY <4>1, <1>2
      <4> QED
        BY <3>3, <4>2 DEF AppendLinks
    <3>5. Spans(Append(contents[q2], n), head'[q2], n, next', prev')
      BY ONLY <3>1, <3>2, <3>4, <1>2, SpansAppend
    <3> QED
      BY <2>2, <1>3, <3>1, <3>5 DEF LinkedAt
  <2>3. CASE l \notin {q1, q2}
    <3>1. \A i \in 1..Len(contents[l]) :
             /\ contents[l][i] \in Nodes /\ contents[l][i] # n
             /\ contents[l][i] # m /\ contents[l][i] # last[q2]
      <4>1. Apart(contents[l], contents[q1]) /\ Apart(contents[l], contents[q2])
        BY <1>1, <2>3 DEF Separate
      <4> QED
        <5>1. \A i \in 1..Len(contents[l]) :
                 contents[l][i] \in Nodes /\ contents[l][i] # n /\ contents[l][i] # m
          <6>1. /\ contents[q1] \in Seq(Nodes) /\ contents[l] \in Seq(Nodes)
                /\ Spans(contents[q1], head[q1], last[q1], next, prev)
            BY <1>1
          <6> QED
            BY ONLY <6>1, <4>1, <1>2, NeighboursApart
        <5>2. \A i \in 1..Len(contents[l]) : contents[l][i] # last[q2]
          BY <4>1, <1>1, EndsApart
        <5> QED
          BY <5>1, <5>2
    <3>2. \A i \in 1..Len(contents[l]) :
             /\ next'[contents[l][i]] = next[contents[l][i]]
             /\ prev'[contents[l][i]] = prev[contents[l][i]]
      BY <3>1
    <3>3. head'[l] = head[l] /\ last'[l] = last[l]
      BY <2>3, <1>1 DEF IInv, TypeOK, ListTypeOK
    <3>4. Spans(contents[l], head[l], last[l], next', prev')
      <4>1. /\ contents[l] \in Seq(Nodes)
            /\ Spans(contents[l], head[l], last[l], next, prev)
        BY <1>1
      <4> QED
        BY ONLY <4>1, <3>2, SpansFrame
    <3> QED
      BY <2>3, <1>3, <3>3, <3>4 DEF LinkedAt
  <2> QED
    BY <2>1, <2>2, <2>3
<1>7. \A s \in stale : contents'[s] = <<>>
  <2>1. \A s \in stale : s \in Lists \ {q1, q2} /\ contents[s] = <<>>
    BY <1>1, ListsAssumption DEF IInv, Linked, TypeOK
  <2> QED
    BY <1>3, <2>1
<1>8. OwnedOnce'
  BY ONLY <1>5, SeparateOwned DEF OwnedOnce
<1>9. Linked'
  BY <1>6, <1>7 DEF Linked
<1> QED
  BY <1>4, <1>8, <1>9 DEF IInv

-----------------------------------------------------------------------------
(* The empty sequence is distinct and apart from every sequence. *)
LEMMA EmptyFacts ==
    /\ <<>> \in Seq(Nodes) /\ Distinct(<<>>)
    /\ \A s : Apart(<<>>, s) /\ Apart(s, <<>>)
    /\ \A s \in Seq(Nodes) : <<>> \o s = s
  BY DEF Distinct, Apart

(* task_queue_clear preserves the invariant; its nodes become free. *)
LEMMA ClearStep ==
    ASSUME IInv, NEW q \in Queues, Clear(q)
    PROVE  IInv'
<1> USE DEF Clear, task_queue_clear
<1>1. /\ q \in Lists /\ q \notin stale
      /\ Separate(contents)
      /\ \A l \in Lists : contents[l] \in Seq(Nodes) /\ Len(contents[l]) \in Nat
      /\ \A l \in Lists \ stale : Spans(contents[l], head[l], last[l], next, prev)
  BY StateFacts
<1>2. head[q] = NULL => last[q] = NULL
  BY <1>1, SpansEnds
<1>3. /\ contents' \in [Lists -> Seq(Nodes)]
      /\ contents'[q] = <<>>
      /\ \A l \in Lists \ {q} : contents'[l] = contents[l]
  BY <1>1, EmptyFacts DEF IInv, TypeOK
<1>4. TypeOK'
  BY <1>1, <1>3 DEF IInv, TypeOK, ListTypeOK, Pointers
<1>5. Separate(contents')
  <2>1. /\ q \in Lists /\ Separate(contents) /\ Distinct(contents'[q])
        /\ \A l \in Lists \ {q, q} : contents'[l] = contents[l]
        /\ \A l \in Lists \ {q, q} : Apart(contents'[q], contents[l])
    BY <1>1, <1>3, EmptyFacts
  <2> QED
    BY ONLY <2>1, SeparateUpdate
<1>6. ASSUME NEW l \in Lists \ stale
      PROVE  LinkedAt(l)'
  <2>1. CASE l = q
    <3>1. head'[q] = NULL /\ last'[q] = NULL
      BY <1>1, <1>2 DEF IInv, TypeOK, ListTypeOK
    <3> QED
      BY <2>1, <3>1, <1>3, SpansEmpty DEF LinkedAt
  <2>2. CASE l # q
    <3>1. head'[l] = head[l] /\ last'[l] = last[l]
      BY <2>2, <1>1 DEF IInv, TypeOK, ListTypeOK
    <3> QED
      BY <2>2, <3>1, <1>1, <1>3 DEF LinkedAt
  <2> QED
    BY <2>1, <2>2
<1>7. \A s \in stale : contents'[s] = <<>>
  BY <1>1, <1>3 DEF IInv, Linked, TypeOK
<1>8. OwnedOnce'
  BY ONLY <1>5, SeparateOwned DEF OwnedOnce
<1>9. Linked'
  BY <1>6, <1>7 DEF Linked
<1> QED
  BY <1>4, <1>8, <1>9 DEF IInv

(* Moving all nodes of p to q, in place of what q held, keeps lists separate. *)
LEMMA SeparateMoved ==
    ASSUME NEW c \in [Lists -> Seq(Nodes)], NEW c2, Separate(c),
           NEW p \in Lists, NEW q \in Lists, p # q,
           c2[p] = <<>>, c2[q] = c[p],
           \A l \in Lists \ {p, q} : c2[l] = c[l]
    PROVE  Separate(c2)
<1>1. /\ Distinct(c2[p]) /\ Distinct(c2[q]) /\ Apart(c2[p], c2[q])
      /\ \A l \in Lists \ {p, q} : Apart(c2[p], c[l]) /\ Apart(c2[q], c[l])
  BY EmptyFacts DEF Separate
<1> QED
  BY <1>1, SeparateUpdate

(* task_queue_transfer_all onto an empty queue preserves the invariant; onto
   a queue with nodes it does not (run transfer_concat). *)
LEMMA TransferAllStep ==
    ASSUME IInv, NEW q1 \in Queues, NEW q2 \in Queues,
           contents[q2] = <<>>, TransferAll(q1, q2)
    PROVE  IInv'
<1> USE DEF TransferAll
<1>1. /\ q1 \in Lists /\ q1 \notin stale /\ q2 \in Lists /\ q2 \notin stale
      /\ Separate(contents)
      /\ \A l \in Lists : contents[l] \in Seq(Nodes) /\ Len(contents[l]) \in Nat
      /\ \A l \in Lists \ stale : Spans(contents[l], head[l], last[l], next, prev)
  BY StateFacts
<1>2. /\ head[q2] = NULL /\ last[q2] = NULL
      /\ head[q1] = NULL => last[q1] = NULL
  BY <1>1, SpansEnds
<1>3. /\ contents' \in [Lists -> Seq(Nodes)]
      /\ contents'[q1] = <<>> /\ contents'[q2] = contents[q1]
      /\ \A l \in Lists \ {q1, q2} : contents'[l] = contents[l]
  <2>1. contents[q2] \o contents[q1] = contents[q1]
    BY <1>1, EmptyFacts
  <2> QED
    BY <1>1, <2>1, EmptyFacts DEF IInv, TypeOK
<1>10. /\ head' = [head EXCEPT ![q2] = head[q1], ![q1] = NULL]
      /\ last' = [last EXCEPT ![q2] = last[q1], ![q1] = NULL]
      /\ next' = next /\ prev' = prev
  <2>1. CASE head[q1] = NULL
    BY <1>1, <1>2, <2>1 DEF task_queue_transfer_all, listVars, IInv, TypeOK, ListTypeOK
  <2>2. CASE head[q1] # NULL
    BY <1>2, <2>2 DEF task_queue_transfer_all
  <2> QED
    BY <2>1, <2>2
<1>4. TypeOK'
  BY <1>1, <1>3, <1>10 DEF IInv, TypeOK, ListTypeOK, Pointers
<1>5. Separate(contents')
  <2>1. contents \in [Lists -> Seq(Nodes)]
    BY DEF IInv, TypeOK
  <2> QED
    BY <2>1, <1>1, <1>3, SeparateMoved
<1>6. ASSUME NEW l \in Lists \ stale
      PROVE  LinkedAt(l)'
  <2>1. CASE l = q1
    <3>1. head'[q1] = NULL /\ last'[q1] = NULL
      BY <1>1, <1>10 DEF IInv, TypeOK, ListTypeOK
    <3> QED
      BY <2>1, <3>1, <1>3, SpansEmpty DEF LinkedAt
  <2>2. CASE l = q2
    <3>1. head'[q2] = head[q1] /\ last'[q2] = last[q1]
      BY <1>1, <1>10 DEF IInv, TypeOK, ListTypeOK
    <3> QED
      BY <2>2, <3>1, <1>1, <1>3, <1>10 DEF LinkedAt
  <2>3. CASE l \notin {q1, q2}
    <3>1. head'[l] = head[l] /\ last'[l] = last[l]
      BY <2>3, <1>1, <1>10 DEF IInv, TypeOK, ListTypeOK
    <3> QED
      BY <2>3, <3>1, <1>1, <1>3, <1>10 DEF LinkedAt
  <2> QED
    BY <2>1, <2>2, <2>3
<1>7. \A s \in stale : contents'[s] = <<>>
  <2>1. \A s \in stale : s \in Lists \ {q1, q2} /\ contents[s] = <<>>
    BY <1>1, ListsAssumption DEF IInv, Linked, TypeOK
  <2> QED
    BY <1>3, <2>1
<1>8. OwnedOnce'
  BY ONLY <1>5, SeparateOwned DEF OwnedOnce
<1>9. Linked'
  BY <1>6, <1>7 DEF Linked
<1> QED
  BY <1>4, <1>8, <1>9 DEF IInv

(* task_queue_reload preserves the invariant: it leaves two lists with the same
   pointers, but one of them is stale. *)
LEMMA ReloadStep ==
    ASSUME IInv, NEW q \in Queues, NEW s \in Stores, Reload(q, s)
    PROVE  IInv'
<1> USE DEF Reload, task_queue_reload
<1>1. /\ q \in Lists /\ q \notin stale /\ s \in Lists /\ s \notin stale /\ q # s
      /\ Separate(contents)
      /\ \A l \in Lists : contents[l] \in Seq(Nodes) /\ Len(contents[l]) \in Nat
      /\ \A l \in Lists \ stale : Spans(contents[l], head[l], last[l], next, prev)
  BY StateFacts, ListsAssumption
<1>3. /\ contents' \in [Lists -> Seq(Nodes)]
      /\ contents'[s] = <<>> /\ contents'[q] = contents[s]
      /\ \A l \in Lists \ {s, q} : contents'[l] = contents[l]
  BY <1>1, EmptyFacts DEF IInv, TypeOK
<1>4. TypeOK'
  BY <1>1, <1>3 DEF IInv, TypeOK, ListTypeOK, Pointers
<1>5. Separate(contents')
  <2>1. contents \in [Lists -> Seq(Nodes)]
    BY DEF IInv, TypeOK
  <2> QED
    BY <2>1, <1>1, <1>3, SeparateMoved
<1>6. ASSUME NEW l \in Lists \ stale'
      PROVE  LinkedAt(l)'
  <2>1. CASE l = q
    <3>1. head'[q] = head[s] /\ last'[q] = last[s]
      BY <1>1 DEF IInv, TypeOK, ListTypeOK
    <3> QED
      BY <2>1, <3>1, <1>1, <1>3 DEF LinkedAt
  <2>2. CASE l # q
    <3>1. head'[l] = head[l] /\ last'[l] = last[l] /\ l # s /\ l \in Lists \ stale
      BY <2>2, <1>1 DEF IInv, TypeOK, ListTypeOK
    <3> QED
      BY <2>2, <3>1, <1>1, <1>3 DEF LinkedAt
  <2> QED
    BY <2>1, <2>2
<1>7. \A x \in stale' : contents'[x] = <<>>
  <2>1. \A x \in stale' : x = s \/ (x \in Lists \ {s, q} /\ contents[x] = <<>>)
    BY <1>1, ListsAssumption DEF IInv, Linked, TypeOK
  <2> QED
    BY <1>3, <2>1
<1>8. OwnedOnce'
  BY ONLY <1>5, SeparateOwned DEF OwnedOnce
<1>9. Linked'
  BY <1>6, <1>7 DEF Linked
<1> QED
  BY <1>4, <1>8, <1>9 DEF IInv

(* task_queue_retreive preserves the invariant. *)
LEMMA RetreiveStep ==
    ASSUME IInv, NEW q \in Queues, NEW s \in Stores, Retreive(q, s)
    PROVE  IInv'
<1> USE DEF Retreive, task_queue_retreive
<1>1. /\ q \in Lists /\ q \notin stale /\ s \in Lists /\ q # s
      /\ Separate(contents)
      /\ \A l \in Lists : contents[l] \in Seq(Nodes) /\ Len(contents[l]) \in Nat
      /\ \A l \in Lists \ stale : Spans(contents[l], head[l], last[l], next, prev)
  BY StateFacts, ListsAssumption
<1>3. /\ contents' \in [Lists -> Seq(Nodes)]
      /\ contents'[q] = <<>> /\ contents'[s] = contents[q]
      /\ \A l \in Lists \ {q, s} : contents'[l] = contents[l]
  BY <1>1, EmptyFacts DEF IInv, TypeOK
<1>4. TypeOK'
  BY <1>1, <1>3 DEF IInv, TypeOK, ListTypeOK, Pointers
<1>5. Separate(contents')
  <2>1. contents \in [Lists -> Seq(Nodes)]
    BY DEF IInv, TypeOK
  <2> QED
    BY <2>1, <1>1, <1>3, SeparateMoved
<1>6. ASSUME NEW l \in Lists \ stale'
      PROVE  LinkedAt(l)'
  <2>1. CASE l = s
    <3>1. head'[s] = head[q] /\ last'[s] = last[q]
      BY <1>1 DEF IInv, TypeOK, ListTypeOK
    <3> QED
      BY <2>1, <3>1, <1>1, <1>3 DEF LinkedAt
  <2>2. CASE l = q
    <3>1. head'[q] = NULL /\ last'[q] = NULL
      BY <1>1 DEF IInv, TypeOK, ListTypeOK
    <3> QED
      BY <2>2, <3>1, <1>3, SpansEmpty DEF LinkedAt
  <2>3. CASE l \notin {q, s}
    <3>1. head'[l] = head[l] /\ last'[l] = last[l] /\ l \in Lists \ stale
      BY <2>3, <1>1 DEF IInv, TypeOK, ListTypeOK
    <3> QED
      BY <2>3, <3>1, <1>1, <1>3 DEF LinkedAt
  <2> QED
    BY <2>1, <2>2, <2>3
<1>7. \A x \in stale' : contents'[x] = <<>>
  <2>1. \A x \in stale' : x \in Lists \ {q, s} /\ contents[x] = <<>>
    BY <1>1, ListsAssumption DEF IInv, Linked, TypeOK
  <2> QED
    BY <1>3, <2>1
<1>8. OwnedOnce'
  BY ONLY <1>5, SeparateOwned DEF OwnedOnce
<1>9. Linked'
  BY <1>6, <1>7 DEF Linked
<1> QED
  BY <1>4, <1>8, <1>9 DEF IInv

(* task_store_swap preserves the invariant. *)
LEMMA StoreSwapStep ==
    ASSUME IInv, NEW s1 \in Stores, NEW s2 \in Stores, StoreSwap(s1, s2)
    PROVE  IInv'
<1> USE DEF StoreSwap, task_store_swap
<1>1. /\ s1 \in Lists /\ s2 \in Lists /\ s1 # s2
      /\ Separate(contents)
      /\ \A l \in Lists : contents[l] \in Seq(Nodes) /\ Len(contents[l]) \in Nat
      /\ \A l \in Lists \ stale : Spans(contents[l], head[l], last[l], next, prev)
  BY StateFacts, ListsAssumption
<1>2. /\ s1 \in stale' <=> s2 \in stale
      /\ s2 \in stale' <=> s1 \in stale
      /\ \A x : x \notin {s1, s2} => (x \in stale' <=> x \in stale)
  BY <1>1
<1>3. /\ contents' \in [Lists -> Seq(Nodes)]
      /\ contents'[s1] = contents[s2] /\ contents'[s2] = contents[s1]
      /\ \A l \in Lists \ {s1, s2} : contents'[l] = contents[l]
  BY <1>1 DEF IInv, TypeOK
<1>4. TypeOK'
  <2>1. stale' \in SUBSET Stores
    BY DEF IInv, TypeOK
  <2> QED
    BY <1>1, <1>3, <2>1 DEF IInv, TypeOK, ListTypeOK, Pointers
<1>5. Separate(contents')
  <2>1. /\ Distinct(contents'[s1]) /\ Distinct(contents'[s2])
        /\ Apart(contents'[s1], contents'[s2])
        /\ \A l \in Lists \ {s1, s2} :
              Apart(contents'[s1], contents[l]) /\ Apart(contents'[s2], contents[l])
    BY <1>1, <1>3 DEF Separate
  <2> QED
    BY ONLY <2>1, <1>1, <1>3, SeparateUpdate
<1>6. ASSUME NEW l \in Lists \ stale'
      PROVE  LinkedAt(l)'
  <2>1. CASE l = s1
    <3>1. head'[s1] = head[s2] /\ last'[s1] = last[s2]
      BY <1>1 DEF IInv, TypeOK, ListTypeOK
    <3> QED
      BY <2>1, <3>1, <1>1, <1>2, <1>3 DEF LinkedAt
  <2>2. CASE l = s2
    <3>1. head'[s2] = head[s1] /\ last'[s2] = last[s1]
      BY <1>1 DEF IInv, TypeOK, ListTypeOK
    <3> QED
      BY <2>2, <3>1, <1>1, <1>2, <1>3 DEF LinkedAt
  <2>3. CASE l \notin {s1, s2}
    <3>1. head'[l] = head[l] /\ last'[l] = last[l] /\ l \in Lists \ stale
      BY <2>3, <1>1, <1>2 DEF IInv, TypeOK, ListTypeOK
    <3> QED
      BY <2>3, <3>1, <1>1, <1>3 DEF LinkedAt
  <2> QED
    BY <2>1, <2>2, <2>3
<1>7. \A x \in stale' : contents'[x] = <<>>
  <2>1. \A x \in stale : x \in Lists /\ contents[x] = <<>>
    BY ListsAssumption DEF IInv, Linked, TypeOK
  <2> QED
    BY <1>2, <1>3, <2>1
<1>8. OwnedOnce'
  BY ONLY <1>5, SeparateOwned DEF OwnedOnce
<1>9. Linked'
  BY <1>6, <1>7 DEF Linked
<1> QED
  BY <1>4, <1>8, <1>9 DEF IInv

-----------------------------------------------------------------------------
(* task_store_init over free nodes preserves the invariant. *)
LEMMA StoreInitStep ==
    ASSUME IInv, NEW s \in Stores, NEW ns \in SeqOf(Nodes, ArrayMax), StoreInit(s, ns)
    PROVE  IInv'
<1> USE DEF StoreInit
<1>1. /\ s \in Lists /\ s \in stale
      /\ Separate(contents)
      /\ \A l \in Lists : contents[l] \in Seq(Nodes) /\ Len(contents[l]) \in Nat
      /\ \A l \in Lists \ stale : Spans(contents[l], head[l], last[l], next, prev)
  BY StateFacts, ListsAssumption
<1>2. /\ ns \in Seq(Nodes) /\ Len(ns) \in Nat \ {0} /\ Distinct(ns) /\ ns # <<>>
      /\ \A i \in 1..Len(ns) : ns[i] \in Nodes
  <2>1. ns \in Seq(Nodes)
    BY ListsAssumption, SeqOfFacts
  <2> QED
    BY <2>1 DEF Distinct
<1>3. /\ contents' \in [Lists -> Seq(Nodes)]
      /\ contents'[s] = ns
      /\ \A l \in Lists \ {s} : contents'[l] = contents[l]
  BY <1>1, <1>2 DEF IInv, TypeOK
<1>10. \A l \in Lists : Apart(ns, contents[l]) /\ Apart(contents[l], ns)
  BY DEF Free, Owned, Apart
<1>11. ASSUME NEW i \in 1..Len(ns)
       PROVE  /\ next'[ns[i]] = IF i = Len(ns) THEN NULL ELSE ns[i + 1]
              /\ prev'[ns[i]] = IF i = 1 THEN NULL ELSE ns[i - 1]
  <2>1. (CHOOSE k \in 1..Len(ns) : ns[k] = ns[i]) = i
    BY <1>2, IndexOf
  <2> QED
    BY <2>1, <1>2 DEF task_store_init
<1>12. ASSUME NEW x \in Nodes, ~ \E i \in 1..Len(ns) : ns[i] = x
       PROVE  next'[x] = next[x] /\ prev'[x] = prev[x]
  BY <1>12 DEF task_store_init
<1>13. /\ head' = [head EXCEPT ![s] = ns[1]]
       /\ last' = [last EXCEPT ![s] = ns[Len(ns)]]
       /\ DOMAIN next' = Nodes /\ DOMAIN prev' = Nodes
       /\ next' = [x \in Nodes |-> next'[x]] /\ prev' = [x \in Nodes |-> prev'[x]]
  BY DEF task_store_init
<1>4. TypeOK'
  <2>1. ASSUME NEW x \in Nodes
        PROVE  next'[x] \in Pointers /\ prev'[x] \in Pointers
    <3>1. CASE \E i \in 1..Len(ns) : ns[i] = x
      <4>1. PICK i \in 1..Len(ns) : ns[i] = x
        BY <3>1
      <4>2. /\ i # Len(ns) => ns[i + 1] \in Nodes
            /\ i # 1 => ns[i - 1] \in Nodes
        BY <1>2
      <4> QED
        BY <1>11, <4>1, <4>2 DEF Pointers
    <3>2. CASE ~ \E i \in 1..Len(ns) : ns[i] = x
      BY <1>12, <3>2 DEF IInv, TypeOK, ListTypeOK
    <3> QED
      BY <3>1, <3>2
  <2>2. next' \in [Nodes -> Pointers] /\ prev' \in [Nodes -> Pointers]
    BY <1>13, <2>1
  <2>3. ns[1] \in Nodes /\ ns[Len(ns)] \in Nodes
    BY <1>2
  <2>4. head' \in [Lists -> Pointers] /\ last' \in [Lists -> Pointers]
    BY <1>1, <1>13, <2>3 DEF IInv, TypeOK, ListTypeOK, Pointers
  <2> QED
    BY <1>3, <2>2, <2>4 DEF IInv, TypeOK, ListTypeOK
<1>5. Separate(contents')
  <2>1. /\ s \in Lists /\ Separate(contents) /\ Distinct(contents'[s])
        /\ \A l \in Lists \ {s, s} : contents'[l] = contents[l]
        /\ \A l \in Lists \ {s, s} : Apart(contents'[s], contents[l])
    BY <1>1, <1>2, <1>3, <1>10
  <2> QED
    BY ONLY <2>1, SeparateUpdate
<1>6. ASSUME NEW l \in Lists \ stale'
      PROVE  LinkedAt(l)'
  <2>1. CASE l = s
    <3>1. head'[s] = ns[1] /\ last'[s] = ns[Len(ns)]
      BY <1>1, <1>13 DEF IInv, TypeOK, ListTypeOK
    <3>2. Spans(ns, head'[s], last'[s], next', prev')
      BY <1>2, <1>11, <3>1 DEF Spans
    <3> QED
      BY <2>1, <3>2, <1>3 DEF LinkedAt
  <2>2. CASE l # s
    <3>1. l \in Lists \ stale /\ head'[l] = head[l] /\ last'[l] = last[l]
      BY <2>2, <1>13 DEF IInv, TypeOK, ListTypeOK
    <3>2. \A i \in 1..Len(contents[l]) :
             /\ next'[contents[l][i]] = next[contents[l][i]]
             /\ prev'[contents[l][i]] = prev[contents[l][i]]
      <4>1. ASSUME NEW i \in 1..Len(contents[l])
            PROVE  /\ contents[l][i] \in Nodes
                   /\ ~ \E j \in 1..Len(ns) : ns[j] = contents[l][i]
        BY <1>1, <1>10 DEF Apart
      <4> QED
        BY <4>1, <1>12
    <3>3. Spans(contents[l], head[l], last[l], next', prev')
      <4>1. /\ contents[l] \in Seq(Nodes)
            /\ Spans(contents[l], head[l], last[l], next, prev)
        BY <1>1, <3>1
      <4> QED
        BY ONLY <4>1, <3>2, SpansFrame
    <3> QED
      BY <2>2, <1>3, <3>1, <3>3 DEF LinkedAt
  <2> QED
    BY <2>1, <2>2
<1>7. \A x \in stale' : contents'[x] = <<>>
  <2>1. \A x \in stale' : x \in Lists \ {s} /\ contents[x] = <<>>
    BY <1>1, ListsAssumption DEF IInv, Linked, TypeOK
  <2> QED
    BY <1>3, <2>1
<1>8. OwnedOnce'
  BY ONLY <1>5, SeparateOwned DEF OwnedOnce
<1>9. Linked'
  BY <1>6, <1>7 DEF Linked
<1> QED
  BY <1>4, <1>8, <1>9 DEF IInv

-----------------------------------------------------------------------------
(* The initial state satisfies the inductive invariant. *)
LEMMA InitIInv ==
    ASSUME Init
    PROVE  IInv
<1>1. TypeOK
  BY EmptyFacts DEF Init, TypeOK, ListTypeOK, Pointers
<1>2. OwnedOnce
  BY DEF Init, OwnedOnce
<1>3. Linked
  <2>1. \A l \in Lists : contents[l] = <<>> /\ head[l] = NULL /\ last[l] = NULL
    BY DEF Init
  <2>2. \A l \in Lists : LinkedAt(l)
    BY <2>1, SpansEmpty DEF LinkedAt
  <2> QED
    BY <2>1, <2>2, ListsAssumption DEF Linked, Init
<1> QED
  BY <1>1, <1>2, <1>3 DEF IInv

(* Every step of a client preserves the inductive invariant. *)
LEMMA NextIInv ==
    ASSUME IInv, [Next]_vars
    PROVE  IInv'
<1>1. CASE UNCHANGED vars
  BY <1>1 DEF vars, listVars, IInv, TypeOK, ListTypeOK, OwnedOnce, Linked, LinkedAt
<1>2. CASE \E s \in Stores, ns \in SeqOf(Nodes, ArrayMax) : StoreInit(s, ns)
  BY <1>2, StoreInitStep
<1>3. ASSUME NEW q \in Queues, \E n \in Nodes : Push(q, n)
      PROVE  IInv'
  BY <1>3, PushStep
<1>4. ASSUME NEW q \in Queues, Pop(q)
      PROVE  IInv'
  BY <1>4, PopStep
<1>5. ASSUME NEW q \in Queues, \E i \in 1..Len(contents[q]) : RemoveNode(q, i)
      PROVE  IInv'
  BY <1>5, RemoveNodeStep
<1>6. ASSUME NEW q \in Queues, Clear(q)
      PROVE  IInv'
  BY <1>6, ClearStep
<1>7. ASSUME NEW q \in Queues, \E q2 \in Queues : PopPush(q, q2)
      PROVE  IInv'
  BY <1>7, PopPushStep
<1>8. ASSUME NEW q \in Queues,
             \E q2 \in Queues : contents[q2] = <<>> /\ TransferAll(q, q2)
      PROVE  IInv'
  BY <1>8, TransferAllStep
<1>9. ASSUME NEW q \in Queues, \E s \in Stores : Reload(q, s) \/ Retreive(q, s)
      PROVE  IInv'
  BY <1>9, ReloadStep, RetreiveStep
<1>10. CASE \E s1, s2 \in Stores : StoreSwap(s1, s2)
  BY <1>10, StoreSwapStep
<1> QED
  BY <1>1, <1>2, <1>3, <1>4, <1>5, <1>6, <1>7, <1>8, <1>9, <1>10 DEF Next

(* The inductive invariant holds in every reachable state. *)
THEOREM IInvHolds == Spec => []IInv
<1>1. Init => IInv
  BY InitIInv
<1>2. IInv /\ [Next]_vars => IInv'
  BY NextIInv
<1> QED
  BY <1>1, <1>2, PTL DEF Spec

(* Every pointer is a node or NULL, and the ghost contents are sequences of
   nodes, in every reachable state of any number of lists and nodes. *)
THEOREM TypesHold == Spec => []TypeOK
<1>1. IInv => TypeOK
  BY DEF IInv
<1> QED
  BY <1>1, IInvHolds, PTL

(* Whatever interleaving of the critical sections of task_queue.h callers
   produce, head, last, next and prev of every live list spell out exactly the
   sequence of nodes the callers put there. *)
THEOREM PointersAgree == Spec => []Linked
<1>1. IInv => Linked
  BY DEF IInv
<1> QED
  BY <1>1, IInvHolds, PTL
=============================================================================
