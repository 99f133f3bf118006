--------------------------- MODULE TaskList_proofs ---------------------------
(***************************************************************************)
(* Lemmas about the chains of TaskList, used by the proofs about the queue *)
(* (TaskQueue_proofs) and about the thread pool (ThreadPool_proofs).       *)
(*                                                                         *)
(* Spans(s, h, t, nx, pv) says that head h, last t and the links nx and pv *)
(* spell out the sequence s.  The lemmas show what each way of relinking   *)
(* does to one chain, and that the nodes of other lists are not among the  *)
(* nodes written to.                                                       *)
(***************************************************************************)
EXTENDS TaskList, SequencesExt, TLAPS

-----------------------------------------------------------------------------
(* Sequences *)


(* Tail drops the first element and keeps the others in order. *)
LEMMA TailFacts ==
    ASSUME NEW S, NEW s \in Seq(S), s # <<>>
    PROVE  /\ Tail(s) \in Seq(S)
           /\ Len(s) \in Nat \ {0}
           /\ Len(Tail(s)) = Len(s) - 1
           /\ \A i \in 1..Len(s) - 1 : Tail(s)[i] = s[i + 1]
  OBVIOUS

(* Append adds one element at the end and keeps the others. *)
LEMMA AppendFacts ==
    ASSUME NEW S, NEW s \in Seq(S), NEW e \in S
    PROVE  /\ Append(s, e) \in Seq(S)
           /\ Len(Append(s, e)) = Len(s) + 1
           /\ \A i \in 1..Len(s) : Append(s, e)[i] = s[i]
           /\ Append(s, e)[Len(s) + 1] = e
  OBVIOUS

(* Concatenation, element by element. *)
LEMMA ConcatFacts ==
    ASSUME NEW S, NEW s \in Seq(S), NEW t \in Seq(S)
    PROVE  /\ s \o t \in Seq(S)
           /\ Len(s \o t) = Len(s) + Len(t)
           /\ \A i \in 1..Len(s) : (s \o t)[i] = s[i]
           /\ \A i \in Len(s) + 1..Len(s) + Len(t) : (s \o t)[i] = t[i - Len(s)]
  OBVIOUS

(* RemoveAt closes the gap at k and keeps the other elements in order. *)
LEMMA RemoveAtFacts ==
    ASSUME NEW S, NEW s \in Seq(S), NEW k \in 1..Len(s)
    PROVE  /\ RemoveAt(s, k) \in Seq(S)
           /\ Len(RemoveAt(s, k)) = Len(s) - 1
           /\ \A i \in 1..Len(s) - 1 :
                 RemoveAt(s, k)[i] = IF i < k THEN s[i] ELSE s[i + 1]
<1>1. PICK a : a = SubSeq(s, 1, k - 1)
  OBVIOUS
<1>2. PICK b : b = SubSeq(s, k + 1, Len(s))
  OBVIOUS
<1>3. /\ a \in Seq(S) /\ Len(a) = k - 1
      /\ \A i \in 1..k - 1 : a[i] = s[i]
  BY <1>1
<1>4. /\ b \in Seq(S) /\ Len(b) = Len(s) - k
      /\ \A i \in 1..Len(s) - k : b[i] = s[i + k]
  BY <1>2
<1>5. /\ a \o b \in Seq(S)
      /\ Len(a \o b) = Len(a) + Len(b)
      /\ \A i \in 1..Len(a) : (a \o b)[i] = a[i]
      /\ \A i \in Len(a) + 1..Len(a) + Len(b) : (a \o b)[i] = b[i - Len(a)]
  <2>1. a \in Seq(S) /\ b \in Seq(S)
    BY <1>3, <1>4
  <2> QED
    BY ONLY <2>1, ConcatFacts
<1>6. \A i \in k..Len(s) - 1 : b[i - (k - 1)] = s[i + 1]
  BY <1>4
<1>7. RemoveAt(s, k) = a \o b
  BY <1>1, <1>2 DEF RemoveAt
<1>8. Len(a \o b) = Len(s) - 1
  BY <1>3, <1>4, <1>5
<1>9. ASSUME NEW i \in 1..Len(s) - 1
      PROVE  (a \o b)[i] = IF i < k THEN s[i] ELSE s[i + 1]
  <2>1. CASE i < k
    <3>1. i \in 1..k - 1 /\ i \in 1..Len(a)
      BY <2>1, <1>3
    <3> QED
      BY <2>1, <3>1, <1>3, <1>5
  <2>2. CASE ~(i < k)
    <3>1. i \in k..Len(s) - 1 /\ i \in Len(a) + 1..Len(a) + Len(b)
      BY <2>2, <1>3, <1>4
    <3>2. (a \o b)[i] = b[i - Len(a)]
      BY <3>1, <1>5
    <3>3. b[i - (k - 1)] = s[i + 1]
      BY <3>1, <1>6
    <3> QED
      BY <2>2, <3>2, <3>3, <1>3
  <2> QED
    BY <2>1, <2>2
<1> QED
  BY <1>5, <1>7, <1>8, <1>9

(* The arrays task_store_init is given are sequences of nodes. *)
LEMMA SeqOfFacts ==
    ASSUME NEW S, NEW n \in Nat, NEW s \in SeqOf(S, n)
    PROVE  s \in Seq(S)
  BY DEF SeqOf

-----------------------------------------------------------------------------
(* No element occurs twice in s. *)
Distinct(s) == \A i, j \in 1..Len(s) : s[i] = s[j] => i = j

(* A chain stays intact as long as the pointers of its own nodes do. *)
LEMMA SpansFrame ==
    ASSUME NEW s \in Seq(Nodes), NEW h, NEW t, NEW nx, NEW pv, NEW nx2, NEW pv2,
           Spans(s, h, t, nx, pv),
           \A i \in 1..Len(s) : nx2[s[i]] = nx[s[i]] /\ pv2[s[i]] = pv[s[i]]
    PROVE  Spans(s, h, t, nx2, pv2)
  BY DEF Spans

(* An empty list is head = last = NULL, whatever the nodes point to. *)
LEMMA SpansEmpty ==
    ASSUME NEW nx, NEW pv
    PROVE  Spans(<<>>, NULL, NULL, nx, pv)
  BY DEF Spans

(* head and last are NULL together, exactly when the list is empty; otherwise
   they are its first and last node. *)
LEMMA SpansEnds ==
    ASSUME NEW s \in Seq(Nodes), NEW h, NEW t, NEW nx, NEW pv,
           Spans(s, h, t, nx, pv)
    PROVE  /\ h = NULL <=> s = <<>>
           /\ t = NULL <=> s = <<>>
           /\ s # <<>> => /\ Len(s) \in 1..Len(s) /\ 1 \in 1..Len(s)
                         /\ h = s[1] /\ t = s[Len(s)]
                         /\ h \in Nodes /\ t \in Nodes
<1>1. CASE s = <<>>
  BY <1>1 DEF Spans
<1>2. CASE s # <<>>
  <2>1. Len(s) \in Nat /\ Len(s) # 0
    BY <1>2
  <2>2. s[1] \in Nodes /\ s[Len(s)] \in Nodes
    BY <2>1
  <2> QED
    BY <1>2, <2>1, <2>2, NullAssumption DEF Spans
<1> QED
  BY <1>1, <1>2

(* What appending n to the chain s does to next and prev. *)
AppendLinks(s, t, n, nx, pv, nx2, pv2) ==
    /\ \A i \in 1..Len(s) : s[i] # n
    /\ nx2[n] = NULL /\ pv2[n] = t
    /\ \A i \in 1..Len(s) : /\ nx2[s[i]] = IF s[i] = t THEN n ELSE nx[s[i]]
                            /\ pv2[s[i]] = pv[s[i]]

(* Appending a node that is not in the chain, as push and pop_push do,
   gives the chain of the longer sequence. *)
LEMMA SpansAppend ==
    ASSUME NEW s \in Seq(Nodes), NEW h, NEW t, NEW nx, NEW pv, NEW nx2, NEW pv2,
           NEW n \in Nodes, NEW h2, h2 = IF t = NULL THEN n ELSE h,
           Spans(s, h, t, nx, pv), Distinct(s),
           AppendLinks(s, t, n, nx, pv, nx2, pv2)
    PROVE  Spans(Append(s, n), h2, n, nx2, pv2)
<1> USE DEF AppendLinks
<1>1. PICK r : r = Append(s, n)
  OBVIOUS
<1>2. /\ Len(s) \in Nat /\ Len(r) = Len(s) + 1 /\ r[Len(s) + 1] = n
      /\ r # <<>>
      /\ \A i \in 1..Len(s) : r[i] = s[i]
  BY <1>1, AppendFacts
<1>3. t # n /\ nx2[n] = NULL
  BY SpansEnds, NullAssumption
<1>4. h2 = r[1]
  BY <1>2, SpansEnds
<1>5. ASSUME NEW i \in 1..Len(r)
      PROVE  /\ nx2[r[i]] = IF i = Len(r) THEN NULL ELSE r[i + 1]
             /\ pv2[r[i]] = IF i = 1 THEN NULL ELSE r[i - 1]
  <2>1. CASE i = Len(s) + 1
    <3>1. i - 1 = Len(s) /\ i = Len(r) /\ r[i] = n
      BY <2>1, <1>2
    <3>2. CASE s = <<>>
      <4>1. Len(s) = 0 /\ t = NULL
        BY <3>2 DEF Spans
      <4> QED
        BY <3>1, <4>1, <1>2, <1>3, <2>1
    <3>3. CASE s # <<>>
      <4>1. t = s[Len(s)] /\ Len(s) \in 1..Len(s)
        BY <3>3, SpansEnds
      <4> QED
        BY <3>1, <4>1, <1>2, <1>3, <2>1
    <3> QED
      BY <3>2, <3>3
  <2>2. CASE i \in 1..Len(s)
    <3>1. /\ s # <<>> /\ t = s[Len(s)] /\ Len(s) \in 1..Len(s)
          /\ s[i] \in Nodes /\ s[i] # n /\ r[i] = s[i]
      <4>1. s # <<>>
        BY <2>2
      <4> QED
        BY <4>1, <2>2, <1>2, SpansEnds
    <3>2. pv2[r[i]] = IF i = 1 THEN NULL ELSE r[i - 1]
      BY <2>2, <3>1, <1>2 DEF Spans
    <3>3. nx2[r[i]] = r[i + 1]
      <4>1. CASE i = Len(s)
        BY <4>1, <3>1, <1>2
      <4>2. CASE i # Len(s)
        <5>1. i + 1 \in 1..Len(s) /\ s[i] # t
          BY <4>2, <2>2, <3>1 DEF Distinct
        <5>2. nx[s[i]] = s[i + 1]
          BY <4>2, <2>2 DEF Spans
        <5> QED
          BY <5>1, <5>2, <3>1, <1>2
      <4> QED
        BY <4>1, <4>2
    <3> QED
      BY <3>2, <3>3, <1>2
  <2> QED
    BY <2>1, <2>2, <1>2
<1> QED
  <2>1. n = r[Len(r)]
    BY <1>2
  <2>2. Spans(r, r[1], n, nx2, pv2)
    BY <1>2, <1>5, <2>1 DEF Spans
  <2> QED
    BY <1>1, <1>4, <2>2

(* What unlinking the first node of s, whose next is m, does. *)
TailLinks(s, m, nx, pv, nx2, pv2) ==
    \A i \in 2..Len(s) :
        /\ nx2[s[i]] = nx[s[i]]
        /\ pv2[s[i]] = IF s[i] = m THEN NULL ELSE pv[s[i]]

(* Unlinking the first node, as pop and pop_push do, gives the chain of the
   tail; last becomes NULL exactly when the only node went. *)
LEMMA SpansTail ==
    ASSUME NEW s \in Seq(Nodes), NEW h, NEW t, NEW nx, NEW pv, NEW nx2, NEW pv2,
           NEW m, NEW t2, t2 = IF m = NULL THEN NULL ELSE t,
           Spans(s, h, t, nx, pv), Distinct(s), h # NULL, m = nx[h],
           TailLinks(s, m, nx, pv, nx2, pv2)
    PROVE  Spans(Tail(s), m, t2, nx2, pv2)
<1> USE DEF TailLinks
<1>1. PICK r : r = Tail(s)
  OBVIOUS
<1>2. s # <<>> /\ Len(s) \in Nat \ {0} /\ 1 \in 1..Len(s) /\ h = s[1] /\ t = s[Len(s)]
  BY SpansEnds
<1>3. /\ r \in Seq(Nodes) /\ Len(r) = Len(s) - 1
      /\ \A i \in 1..Len(s) - 1 : r[i] = s[i + 1]
  <2>1. /\ Tail(s) \in Seq(Nodes) /\ Len(Tail(s)) = Len(s) - 1
        /\ \A i \in 1..Len(s) - 1 : Tail(s)[i] = s[i + 1]
    <3>1. s # <<>>
      BY <1>2
    <3> QED
      BY ONLY <3>1, s \in Seq(Nodes), TailFacts
  <2> QED
    BY <1>1, <2>1
<1>4. m = IF Len(s) = 1 THEN NULL ELSE s[2]
  <2>1. \A i \in 1..Len(s) : nx[s[i]] = IF i = Len(s) THEN NULL ELSE s[i + 1]
    BY DEF Spans
  <2>2. nx[s[1]] = IF 1 = Len(s) THEN NULL ELSE s[1 + 1]
    BY <1>2, <2>1
  <2> QED
    BY <1>2, <2>2
<1>5. CASE Len(s) = 1
  <2>1. r = <<>>
    BY <1>3, <1>5
  <2> QED
    BY <2>1, <1>1, <1>4, <1>5, SpansEmpty
<1>6. CASE Len(s) # 1
  <2>1. /\ m = s[2] /\ m \in Nodes /\ m # NULL /\ 2 \in 1..Len(s)
        /\ r # <<>> /\ r[1] = m
        /\ r[Len(r)] = t
    BY <1>2, <1>3, <1>4, <1>6, NullAssumption
  <2>2. ASSUME NEW i \in 1..Len(r)
        PROVE  /\ nx2[r[i]] = IF i = Len(r) THEN NULL ELSE r[i + 1]
               /\ pv2[r[i]] = IF i = 1 THEN NULL ELSE r[i - 1]
    <3>1. PICK j : j = i + 1
      OBVIOUS
    <3>2. j \in 2..Len(s) /\ j \in 1..Len(s) /\ r[i] = s[j]
      BY <3>1, <1>2, <1>3
    <3>3. nx[s[j]] = IF j = Len(s) THEN NULL ELSE s[j + 1]
      BY <3>2 DEF Spans
    <3>4. pv[s[j]] = s[j - 1]
      BY <3>2 DEF Spans
    <3>5. s[j] = m <=> i = 1
      BY <3>1, <3>2, <2>1 DEF Distinct
    <3>6. nx2[r[i]] = IF i = Len(r) THEN NULL ELSE r[i + 1]
      BY <3>1, <3>2, <3>3, <1>2, <1>3
    <3>7. pv2[r[i]] = IF i = 1 THEN NULL ELSE r[i - 1]
      BY <3>1, <3>2, <3>4, <3>5, <1>2, <1>3
    <3> QED
      BY <3>6, <3>7
  <2> QED
    BY <1>1, <2>1, <2>2 DEF Spans
<1> QED
  BY <1>5, <1>6

(* What unlinking the node n of s does. *)
RemoveLinks(s, n, nx, pv, nx2, pv2) ==
    \A i \in 1..Len(s) :
        /\ nx2[s[i]] = IF s[i] = pv[n] THEN nx[n] ELSE nx[s[i]]
        /\ pv2[s[i]] = IF s[i] = nx[n] THEN pv[n] ELSE pv[s[i]]

(* task_queue_remove closes the chain around n wherever n stands: first, last,
   only or inner node. *)
LEMMA SpansRemove ==
    ASSUME NEW s \in Seq(Nodes), NEW h, NEW t, NEW nx, NEW pv, NEW nx2, NEW pv2,
           NEW k \in 1..Len(s), NEW n, n = s[k],
           NEW h2, h2 = IF pv[n] = NULL THEN nx[n] ELSE h,
           NEW t2, t2 = IF nx[n] = NULL THEN pv[n] ELSE t,
           Spans(s, h, t, nx, pv), Distinct(s),
           RemoveLinks(s, n, nx, pv, nx2, pv2)
    PROVE  Spans(RemoveAt(s, k), h2, t2, nx2, pv2)
<1> USE DEF RemoveLinks
<1>1. PICK r : r = RemoveAt(s, k)
  OBVIOUS
<1>2. Len(s) \in Nat \ {0} /\ s # <<>>
  OBVIOUS
<1>3. /\ r \in Seq(Nodes) /\ Len(r) = Len(s) - 1
      /\ \A i \in 1..Len(s) - 1 : r[i] = IF i < k THEN s[i] ELSE s[i + 1]
  <2>1. /\ RemoveAt(s, k) \in Seq(Nodes) /\ Len(RemoveAt(s, k)) = Len(s) - 1
        /\ \A i \in 1..Len(s) - 1 :
              RemoveAt(s, k)[i] = IF i < k THEN s[i] ELSE s[i + 1]
    BY ONLY s \in Seq(Nodes), k \in 1..Len(s), RemoveAtFacts
  <2> QED
    BY <1>1, <2>1
<1>4. \A i \in 1..Len(s) :
         /\ nx[s[i]] = IF i = Len(s) THEN NULL ELSE s[i + 1]
         /\ pv[s[i]] = IF i = 1 THEN NULL ELSE s[i - 1]
  BY DEF Spans
<1>5. h = s[1] /\ t = s[Len(s)]
  BY <1>2 DEF Spans
<1>6. \A i \in 1..Len(s) : s[i] \in Nodes /\ s[i] # NULL
  BY NullAssumption
<1>7. /\ nx[n] = IF k = Len(s) THEN NULL ELSE s[k + 1]
      /\ pv[n] = IF k = 1 THEN NULL ELSE s[k - 1]
  BY <1>4
<1>8. /\ pv[n] = NULL <=> k = 1
      /\ nx[n] = NULL <=> k = Len(s)
  BY <1>2, <1>6, <1>7
<1>9. CASE Len(s) = 1
  <2>1. r = <<>> /\ pv[n] = NULL /\ nx[n] = NULL
    BY <1>3, <1>8, <1>9
  <2> QED
    BY <1>1, <2>1, SpansEmpty
<1>10. CASE Len(s) # 1
  <2>1. r # <<>> /\ Len(r) \in Nat \ {0}
    BY <1>2, <1>3, <1>10
  <2>2. h2 = r[1]
    BY <1>2, <1>3, <1>5, <1>7, <1>8, <1>10
  <2>3. t2 = r[Len(r)]
    BY <1>2, <1>3, <1>5, <1>7, <1>8, <1>10
  <2>4. ASSUME NEW i \in 1..Len(r)
        PROVE  /\ nx2[r[i]] = IF i = Len(r) THEN NULL ELSE r[i + 1]
               /\ pv2[r[i]] = IF i = 1 THEN NULL ELSE r[i - 1]
    <3>1. PICK j : j = IF i < k THEN i ELSE i + 1
      OBVIOUS
    <3>2. j \in 1..Len(s) /\ r[i] = s[j] /\ j # k
      BY <3>1, <1>2, <1>3
    <3>3. s[j] = pv[n] <=> (k # 1 /\ j = k - 1)
      BY <3>2, <1>2, <1>6, <1>7 DEF Distinct
    <3>4. s[j] = nx[n] <=> (k # Len(s) /\ j = k + 1)
      BY <3>2, <1>2, <1>6, <1>7 DEF Distinct
    <3>5. nx2[s[j]] = IF s[j] = pv[n] THEN nx[n]
                      ELSE IF j = Len(s) THEN NULL ELSE s[j + 1]
      BY <3>2, <1>4
    <3>6. pv2[s[j]] = IF s[j] = nx[n] THEN pv[n]
                      ELSE IF j = 1 THEN NULL ELSE s[j - 1]
      BY <3>2, <1>4
    <3>7. nx2[r[i]] = IF i = Len(r) THEN NULL ELSE r[i + 1]
      BY <3>1, <3>2, <3>3, <3>5, <1>2, <1>3, <1>7
    <3>8. pv2[r[i]] = IF i = 1 THEN NULL ELSE r[i - 1]
      BY <3>1, <3>2, <3>4, <3>6, <1>2, <1>3, <1>7
    <3> QED
      BY <3>7, <3>8
  <2>5. Spans(r, r[1], r[Len(r)], nx2, pv2)
    BY <2>1, <2>4 DEF Spans
  <2> QED
    BY <1>1, <2>2, <2>3, <2>5
<1> QED
  BY <1>9, <1>10

-----------------------------------------------------------------------------
(* s and t share no element. *)
Apart(s, t) == \A i \in 1..Len(s), j \in 1..Len(t) : s[i] # t[j]

(* Appending a node the list does not hold keeps its nodes distinct. *)
LEMMA AppendDistinct ==
    ASSUME NEW s \in Seq(Nodes), NEW n \in Nodes, Distinct(s),
           \A i \in 1..Len(s) : s[i] # n
    PROVE  Distinct(Append(s, n))
  BY AppendFacts DEF Distinct

(* Appending a node that t does not hold keeps a list apart from t. *)
LEMMA AppendApart ==
    ASSUME NEW s \in Seq(Nodes), NEW n \in Nodes, NEW t \in Seq(Nodes), Apart(s, t),
           \A i \in 1..Len(t) : t[i] # n
    PROVE  Apart(Append(s, n), t)
  BY AppendFacts DEF Apart

(* Dropping the first node keeps the nodes distinct. *)
LEMMA TailDistinct ==
    ASSUME NEW s \in Seq(Nodes), s # <<>>, Distinct(s)
    PROVE  Distinct(Tail(s))
  BY TailFacts DEF Distinct

(* Dropping the first node keeps a list apart from another. *)
LEMMA TailApart ==
    ASSUME NEW s \in Seq(Nodes), s # <<>>, NEW t \in Seq(Nodes), Apart(s, t)
    PROVE  Apart(Tail(s), t)
  BY TailFacts DEF Apart

(* Removing a node keeps the nodes distinct. *)
LEMMA RemoveDistinct ==
    ASSUME NEW s \in Seq(Nodes), NEW k \in 1..Len(s), Distinct(s)
    PROVE  Distinct(RemoveAt(s, k))
<1>1. PICK r : r = RemoveAt(s, k)
  OBVIOUS
<1>2. /\ Len(r) = Len(s) - 1
      /\ \A i \in 1..Len(s) - 1 : r[i] = IF i < k THEN s[i] ELSE s[i + 1]
  BY <1>1, RemoveAtFacts
<1> QED
  BY <1>1, <1>2 DEF Distinct

(* Removing a node keeps a list apart from another. *)
LEMMA RemoveApart ==
    ASSUME NEW s \in Seq(Nodes), NEW k \in 1..Len(s), NEW t \in Seq(Nodes), Apart(s, t)
    PROVE  Apart(RemoveAt(s, k), t)
<1>1. PICK r : r = RemoveAt(s, k)
  OBVIOUS
<1>2. /\ Len(r) = Len(s) - 1
      /\ \A i \in 1..Len(s) - 1 : r[i] = IF i < k THEN s[i] ELSE s[i + 1]
  BY <1>1, RemoveAtFacts
<1> QED
  BY <1>1, <1>2 DEF Apart

(* A node of another list is neither head nor last of this one. *)
LEMMA EndsApart ==
    ASSUME NEW s \in Seq(Nodes), NEW h, NEW t, NEW nx, NEW pv,
           Spans(s, h, t, nx, pv), NEW u \in Seq(Nodes), Apart(u, s)
    PROVE  \A i \in 1..Len(u) : u[i] \in Nodes /\ u[i] # h /\ u[i] # t
<1>1. \A i \in 1..Len(u) : u[i] \in Nodes /\ u[i] # NULL
  BY NullAssumption
<1>2. CASE s = <<>>
  BY <1>1, <1>2 DEF Spans
<1>3. CASE s # <<>>
  <2>1. Len(s) \in 1..Len(s) /\ 1 \in 1..Len(s)
    BY <1>3
  <2> QED
    BY <1>1, <1>3, <2>1 DEF Spans, Apart
<1> QED
  BY <1>2, <1>3

(* A node of another list is neither a node of this one nor the next or prev
   of such a node: writing through those pointers leaves it alone. *)
LEMMA NeighboursApart ==
    ASSUME NEW s \in Seq(Nodes), NEW h, NEW t, NEW nx, NEW pv,
           Spans(s, h, t, nx, pv), NEW k \in 1..Len(s),
           NEW u \in Seq(Nodes), Apart(u, s)
    PROVE  \A i \in 1..Len(u) :
              u[i] \in Nodes /\ u[i] # s[k] /\ u[i] # nx[s[k]] /\ u[i] # pv[s[k]]
<1>1. \A i \in 1..Len(u) : u[i] \in Nodes /\ u[i] # NULL
  BY NullAssumption
<1>2. nx[s[k]] = NULL \/ \E j \in 1..Len(s) : nx[s[k]] = s[j]
  <2>1. nx[s[k]] = IF k = Len(s) THEN NULL ELSE s[k + 1]
    BY DEF Spans
  <2>2. k # Len(s) => k + 1 \in 1..Len(s)
    OBVIOUS
  <2> QED
    BY <2>1, <2>2
<1>3. pv[s[k]] = NULL \/ \E j \in 1..Len(s) : pv[s[k]] = s[j]
  <2>1. pv[s[k]] = IF k = 1 THEN NULL ELSE s[k - 1]
    BY DEF Spans
  <2>2. k # 1 => k - 1 \in 1..Len(s)
    OBVIOUS
  <2> QED
    BY <2>1, <2>2
<1> QED
  BY <1>1, <1>2, <1>3 DEF Apart

(* In an array of distinct nodes a node has one index. *)
LEMMA IndexOf ==
    ASSUME NEW ns, Distinct(ns), NEW i \in 1..Len(ns)
    PROVE  (CHOOSE k \in 1..Len(ns) : ns[k] = ns[i]) = i
<1>1. \E k \in 1..Len(ns) : ns[k] = ns[i]
  OBVIOUS
<1>2. \A k \in 1..Len(ns) : ns[k] = ns[i] => k = i
  BY DEF Distinct
<1> QED
  BY <1>1, <1>2
=============================================================================
