---------------------------- MODULE Sizes_proofs ----------------------------
(***************************************************************************)
(* Induction, and lemmas about sums, counts and the lengths of the strings *)
(* of the counter, for the proofs about sizes, totals and offsets.         *)
(*                                                                         *)
(* The induction theorems of the library take an operator, which the       *)
(* provers do not instantiate.  Its theorem about minimal elements takes a *)
(* set, and what a proof by induction is about is the set of the numbers   *)
(* of which it is true: LeastOf, Induction and SetInduction are stated for *)
(* sets.  With them the fold behind SumFunctionOnSet can be unfolded, in   *)
(* whatever order CHOOSE takes the elements.                               *)
(***************************************************************************)
EXTENDS CounterSizes, Functions, FiniteSetsExt, FiniteSetTheorems, WellFoundedInduction, TLAPS

(* The order of the naturals, as a relation. *)
Below == {p \in Nat \X Nat : p[1] < p[2]}

(* Every set of naturals has a least element. *)
LEMMA LeastOf ==
    ASSUME NEW T \in SUBSET Nat, T # {}
    PROVE  \E x \in T : \A y \in T : x <= y
<1>1. OpToRel(<, Nat) = Below
  BY Zenon DEF OpToRel, Below
<1>2. IsWellFoundedOn(Below, Nat)
  BY <1>1, NatLessThanWellFounded
<1>3. PICK x \in T : \A y \in T : ~(<<y, x>> \in Below)
  BY <1>2, WFMin
<1>4. ASSUME NEW y \in T PROVE x <= y
  <2>1. x \in Nat /\ y \in Nat
    OBVIOUS
  <2>2. ~(y < x)
    BY <1>3, <2>1 DEF Below
  <2> QED
    BY <2>1, <2>2
<1> QED
  BY <1>4

(* Induction: the set of the numbers with a property is a set like others. *)
LEMMA Induction ==
    ASSUME NEW T \in SUBSET Nat, 0 \in T, \A n \in T : n + 1 \in T
    PROVE  \A n \in Nat : n \in T
<1> SUFFICES ASSUME Nat \ T # {} PROVE FALSE
  OBVIOUS
<1>1. PICK x \in Nat \ T : \A y \in Nat \ T : x <= y
  BY LeastOf
<1>2. x - 1 \in Nat /\ x - 1 \in T
  BY <1>1
<1> QED
  BY <1>1, <1>2

(* A set of naturals with an upper bound has a largest element. *)
LEMMA MaxOf ==
    ASSUME NEW S \in SUBSET Nat, S # {}, NEW B \in Nat, \A x \in S : x <= B
    PROVE  Max(S) \in S /\ \A x \in S : x <= Max(S)
<1> DEFINE U == {k \in Nat : \A x \in S : x <= k}
<1>1. PICK k \in U : \A j \in U : k <= j
  <2>1. B \in U /\ U \in SUBSET Nat
    OBVIOUS
  <2> QED
    BY <2>1, LeastOf
<1>2. k \in S
  <2>1. SUFFICES ASSUME k \notin S PROVE FALSE
    OBVIOUS
  <2>2. \A x \in S : x <= k - 1
    BY <2>1
  <2>3. k - 1 \in Nat
    <3>1. PICK x \in S : x \in Nat
      OBVIOUS
    <3> QED
      BY <2>2, <3>1
  <2> QED
    BY <1>1, <2>2, <2>3
<1>3. \E x \in S : \A y \in S : x >= y
  BY <1>1, <1>2
<1> QED
  BY <1>3 DEF Max

-----------------------------------------------------------------------------
(* The element the fold takes first. *)
Pick(s) == CHOOSE x \in s : TRUE

(* Function g adds up f over each set of D. *)
Adds(g, f, D) ==
    g = [s \in D |-> IF s = {} THEN 0 ELSE f[Pick(s)] + g[s \ {Pick(s)}]]

Adder(g, f, S) == Adds(g, f, SUBSET S)

(* SumFunctionOnSet is a function that adds up f, if there is one. *)
LEMMA SumDef ==
    ASSUME NEW f, NEW S
    PROVE  SumFunctionOnSet(f, S) = (CHOOSE g : Adder(g, f, S))[S]
  BY Zenon DEF SumFunctionOnSet, FoldFunctionOnSet, MapThenFoldSet, Pick, Adds, Adder

(* A set without its first element is smaller. *)
LEMMA PickSmaller ==
    ASSUME NEW s, IsFiniteSet(s), s # {}
    PROVE  /\ Pick(s) \in s
           /\ IsFiniteSet(s \ {Pick(s)})
           /\ Cardinality(s) \in Nat \ {0}
           /\ Cardinality(s \ {Pick(s)}) = Cardinality(s) - 1
<1>1. Pick(s) \in s
  BY DEF Pick
<1>2. Cardinality(s) \in Nat /\ Cardinality(s) # 0
  BY FS_CardinalityType, FS_EmptySet
<1> QED
  BY <1>1, <1>2, FS_RemoveElement

(* There is one for a finite set: built up by the size of its arguments. *)
LEMMA AdderExists ==
    ASSUME NEW f, NEW S, IsFiniteSet(S)
    PROVE  \E g : Adder(g, f, S)
<1> DEFINE Small(n) == {s \in SUBSET S : Cardinality(s) <= n}
           N == {n \in Nat : \E g : Adds(g, f, Small(n))}
<1>1. \A s \in SUBSET S : IsFiniteSet(s) /\ Cardinality(s) \in Nat
  BY FS_Subset, FS_CardinalityType
<1>2. 0 \in N
  <2>1. \A s \in Small(0) : s = {}
    BY <1>1, FS_EmptySet
  <2>2. PICK g : g = [s \in Small(0) |-> 0]
    OBVIOUS
  <2>3. Adds(g, f, Small(0))
    BY <2>1, <2>2 DEF Adds
  <2> QED
    BY <2>3
<1>3. ASSUME NEW n \in N PROVE n + 1 \in N
  <2>1. PICK g : Adds(g, f, Small(n))
    OBVIOUS
  <2>2. PICK h : h = [s \in Small(n + 1) |->
                        IF s \in Small(n) THEN g[s] ELSE f[Pick(s)] + g[s \ {Pick(s)}]]
    OBVIOUS
  <2>3. ASSUME NEW s \in Small(n + 1), s # {}
        PROVE  s \ {Pick(s)} \in Small(n) /\ h[s \ {Pick(s)}] = g[s \ {Pick(s)}]
    <3>1. s \ {Pick(s)} \in Small(n)
      BY <1>1, <2>3, PickSmaller
    <3>2. s \ {Pick(s)} \in Small(n + 1)
      BY <1>1, <3>1
    <3> QED
      BY <2>2, <3>1, <3>2
  <2>4. {} \in Small(n)
    BY FS_EmptySet
  <2>5. ASSUME NEW s \in Small(n + 1)
        PROVE  h[s] = IF s = {} THEN 0 ELSE f[Pick(s)] + h[s \ {Pick(s)}]
    <3> HIDE DEF Small
    <3>1. CASE s = {}
      BY <2>1, <2>2, <2>4, <3>1 DEF Adds
    <3>2. CASE s # {} /\ s \in Small(n)
      BY <2>1, <2>2, <2>3, <3>2 DEF Adds
    <3>3. CASE s # {} /\ s \notin Small(n)
      BY <2>1, <2>2, <2>3, <3>3
    <3> QED
      BY <3>1, <3>2, <3>3
  <2>6. Adds(h, f, Small(n + 1))
    BY <2>2, <2>5 DEF Adds
  <2>7. n + 1 \in Nat
    OBVIOUS
  <2> QED
    BY <2>6, <2>7, Zenon
<1>4. \A n \in Nat : n \in N
  <2> HIDE DEF N
  <2>1. N \subseteq Nat
    BY DEF N
  <2> QED
    BY <1>2, <1>3, <2>1, Induction
<1>5. Cardinality(S) \in Nat /\ Small(Cardinality(S)) = SUBSET S
  BY <1>1, FS_CardinalityType, FS_Subset
<1> QED
  BY <1>4, <1>5 DEF Adder

(* Two such functions agree where both are defined. *)
LEMMA AddersAgree ==
    ASSUME NEW f, NEW S, NEW T, NEW g, NEW h, IsFiniteSet(S), T \subseteq S,
           Adder(g, f, S), Adder(h, f, T)
    PROVE  g[T] = h[T]
<1> DEFINE N == {n \in Nat : \A s \in SUBSET T : Cardinality(s) = n => g[s] = h[s]}
<1>1. \A s \in SUBSET T : s \in SUBSET S /\ IsFiniteSet(s) /\ Cardinality(s) \in Nat
  BY FS_Subset, FS_CardinalityType
<1>2. ASSUME NEW s \in SUBSET T
      PROVE  /\ g[s] = IF s = {} THEN 0 ELSE f[Pick(s)] + g[s \ {Pick(s)}]
             /\ h[s] = IF s = {} THEN 0 ELSE f[Pick(s)] + h[s \ {Pick(s)}]
  <2>1. s \in SUBSET S
    OBVIOUS
  <2> QED
    BY <2>1 DEF Adds, Adder
<1>3. 0 \in N
  <2>1. ASSUME NEW s \in SUBSET T, Cardinality(s) = 0 PROVE g[s] = h[s]
    <3>1. s = {}
      BY <1>1, <2>1, FS_EmptySet
    <3> QED
      BY <1>2, <3>1
  <2> QED
    BY <2>1
<1>4. ASSUME NEW n \in N PROVE n + 1 \in N
  <2>1. ASSUME NEW s \in SUBSET T, Cardinality(s) = n + 1 PROVE g[s] = h[s]
    <3>0. Cardinality({}) = 0 /\ n \in Nat
      BY FS_EmptySet
    <3>1. s # {}
      BY <2>1, <3>0
    <3>2. s \ {Pick(s)} \in SUBSET T /\ Cardinality(s \ {Pick(s)}) = n
      BY <1>1, <2>1, <3>1, PickSmaller
    <3>3. g[s \ {Pick(s)}] = h[s \ {Pick(s)}]
      BY <3>2
    <3> QED
      BY <1>2, <3>1, <3>3
  <2> QED
    BY <2>1
<1>5. \A n \in Nat : n \in N
  <2> HIDE DEF N
  <2>1. N \subseteq Nat
    BY DEF N
  <2> QED
    BY <1>3, <1>4, <2>1, Induction
<1> QED
  BY <1>1, <1>5

Sum(f, S) == SumFunctionOnSet(f, S)

(* The sum over a set is one element and the sum over the others. *)
LEMMA SumUnfold ==
    ASSUME NEW f, NEW S, IsFiniteSet(S)
    PROVE  Sum(f, S) = IF S = {} THEN 0 ELSE f[Pick(S)] + Sum(f, S \ {Pick(S)})
<1>1. PICK g : g = CHOOSE e : Adder(e, f, S)
  OBVIOUS
<1>2. Adder(g, f, S)
  BY <1>1, AdderExists, Zenon
<1>3. Sum(f, S) = g[S]
  BY <1>1, SumDef, Zenon DEF Sum
<1>4. CASE S = {}
  BY <1>2, <1>3, <1>4 DEF Adds, Adder
<1>5. CASE S # {}
  <2>1. PICK T : T = S \ {Pick(S)}
    OBVIOUS
  <2>2. T \subseteq S /\ IsFiniteSet(T)
    BY <2>1, FS_Subset
  <2>3. PICK h : h = CHOOSE e : Adder(e, f, T)
    OBVIOUS
  <2>4. Adder(h, f, T)
    BY <2>2, <2>3, AdderExists, Zenon
  <2>5. Sum(f, T) = h[T]
    BY <2>3, SumDef, Zenon DEF Sum
  <2>6. g[T] = h[T]
    BY <1>2, <2>2, <2>4, AddersAgree
  <2>7. g[S] = f[Pick(S)] + g[T]
    BY <1>2, <1>5, <2>1 DEF Adds, Adder
  <2> QED
    BY <1>3, <1>5, <2>1, <2>5, <2>6, <2>7
<1> QED
  BY <1>4, <1>5

(* An empty sum is 0. *)
LEMMA SumEmpty == \A f : Sum(f, {}) = 0
  BY SumUnfold, FS_EmptySet

(* The sum of integers is an integer, that of naturals a natural. *)
LEMMA SumType ==
    ASSUME NEW f, NEW S, IsFiniteSet(S), NEW V \in {Nat, Int}, \A x \in S : f[x] \in V
    PROVE  Sum(f, S) \in V
<1> DEFINE N == {n \in Nat : \A s \in SUBSET S : Cardinality(s) = n => Sum(f, s) \in V}
<1>1. \A s \in SUBSET S : IsFiniteSet(s) /\ Cardinality(s) \in Nat
  BY FS_Subset, FS_CardinalityType
<1>2. 0 \in N
  <2>1. ASSUME NEW s \in SUBSET S, Cardinality(s) = 0 PROVE Sum(f, s) \in V
    <3>1. s = {}
      BY <1>1, <2>1, FS_EmptySet
    <3> QED
      BY <3>1, SumEmpty
  <2> QED
    BY <2>1
<1>3. ASSUME NEW n \in N PROVE n + 1 \in N
  <2>1. ASSUME NEW s \in SUBSET S, Cardinality(s) = n + 1 PROVE Sum(f, s) \in V
    <3>1. Cardinality({}) = 0 /\ n \in Nat
      BY FS_EmptySet
    <3>2. s # {}
      BY <2>1, <3>1
    <3>3. s \ {Pick(s)} \in SUBSET S /\ Cardinality(s \ {Pick(s)}) = n /\ Pick(s) \in S
      BY <1>1, <2>1, <3>2, PickSmaller
    <3>4. PICK x, y : x = f[Pick(s)] /\ y = Sum(f, s \ {Pick(s)})
      OBVIOUS
    <3>5. x \in V /\ y \in V
      BY <3>3, <3>4
    <3>6. Sum(f, s) = x + y
      BY <1>1, <3>2, <3>4, SumUnfold
    <3> QED
      BY <3>5, <3>6
  <2>2. n + 1 \in Nat
    OBVIOUS
  <2> QED
    BY <2>1, <2>2
<1>4. \A n \in Nat : n \in N
  <2> HIDE DEF N
  <2>1. N \subseteq Nat
    BY DEF N
  <2> QED
    BY <1>2, <1>3, <2>1, Induction
<1> QED
  BY <1>1, <1>4

(* Any element may be taken out first. *)
LEMMA SumRemove ==
    ASSUME NEW f, NEW S, IsFiniteSet(S), \A x \in S : f[x] \in Int, NEW e \in S
    PROVE  Sum(f, S) = f[e] + Sum(f, S \ {e})
<1> DEFINE Any(s) == \A x \in s : Sum(f, s) = f[x] + Sum(f, s \ {x})
           N == {n \in Nat : \A s \in SUBSET S : Cardinality(s) = n => Any(s)}
<1>1. \A s \in SUBSET S : IsFiniteSet(s) /\ Cardinality(s) \in Nat /\ Sum(f, s) \in Int
  <2>1. ASSUME NEW s \in SUBSET S PROVE IsFiniteSet(s)
    BY FS_Subset
  <2>2. ASSUME NEW s \in SUBSET S PROVE \A x \in s : f[x] \in Int
    OBVIOUS
  <2> QED
    BY <2>1, <2>2, FS_CardinalityType, SumType
<1>2. 0 \in N
  <2>1. ASSUME NEW s \in SUBSET S, Cardinality(s) = 0 PROVE s = {}
    BY <1>1, <2>1, FS_EmptySet
  <2> QED
    BY <2>1
<1>3. ASSUME NEW n \in N PROVE n + 1 \in N
  <2>1. ASSUME NEW s \in SUBSET S, Cardinality(s) = n + 1, NEW x \in s
        PROVE  Sum(f, s) = f[x] + Sum(f, s \ {x})
    <3>1. PICK p : p = Pick(s)
      OBVIOUS
    <3>2. p \in s /\ Sum(f, s) = f[p] + Sum(f, s \ {p})
      BY <1>1, <3>1, SumUnfold, PickSmaller
    <3>3. CASE x = p
      BY <3>2, <3>3
    <3>4. CASE x # p
      <4>1. /\ s \ {p} \in SUBSET S /\ x \in s \ {p}
            /\ s \ {x} \in SUBSET S /\ p \in s \ {x}
            /\ (s \ {p}) \ {x} = (s \ {x}) \ {p} /\ (s \ {x}) \ {p} \in SUBSET S
        BY <3>2, <3>4
      <4>2. Cardinality(s \ {p}) = n /\ Cardinality(s \ {x}) = n
        BY <1>1, <2>1, <3>2, FS_RemoveElement
      <4>3. Sum(f, s \ {p}) = f[x] + Sum(f, (s \ {x}) \ {p})
        BY <4>1, <4>2
      <4>4. Sum(f, s \ {x}) = f[p] + Sum(f, (s \ {x}) \ {p})
        BY <4>1, <4>2
      <4>5. PICK a, b, c \in Int : a = f[x] /\ b = f[p] /\ c = Sum(f, (s \ {x}) \ {p})
        BY <1>1, <3>2, <4>1
      <4> QED
        BY <3>2, <4>3, <4>4, <4>5
    <3> QED
      BY <3>3, <3>4
  <2>2. n + 1 \in Nat
    OBVIOUS
  <2> QED
    BY <2>1, <2>2
<1>4. \A n \in Nat : n \in N
  <2> HIDE DEF N
  <2>1. N \subseteq Nat
    BY DEF N
  <2> QED
    BY <1>2, <1>3, <2>1, Induction
<1> QED
  BY <1>1, <1>4

-----------------------------------------------------------------------------
(* What holds of the empty set and stays true when an element is added     *)
(* holds of every finite set.                                              *)
LEMMA SetInduction ==
    ASSUME NEW S, IsFiniteSet(S), NEW P,
           {} \in P, \A s \in SUBSET S : \A x \in S \ s : s \in P => s \cup {x} \in P
    PROVE  S \in P
<1> DEFINE N == {n \in Nat : \A s \in SUBSET S : Cardinality(s) = n => s \in P}
<1>1. \A s \in SUBSET S : IsFiniteSet(s) /\ Cardinality(s) \in Nat
  BY FS_Subset, FS_CardinalityType
<1>2. 0 \in N
  <2>1. ASSUME NEW s \in SUBSET S, Cardinality(s) = 0 PROVE s \in P
    BY <1>1, <2>1, FS_EmptySet
  <2> QED
    BY <2>1
<1>3. ASSUME NEW n \in N PROVE n + 1 \in N
  <2>1. ASSUME NEW s \in SUBSET S, Cardinality(s) = n + 1 PROVE s \in P
    <3>1. Cardinality({}) = 0 /\ n \in Nat
      BY FS_EmptySet
    <3>2. s # {}
      BY <2>1, <3>1
    <3>3. PICK x : x = Pick(s)
      OBVIOUS
    <3>4. s \ {x} \in SUBSET S /\ Cardinality(s \ {x}) = n /\ x \in S \ (s \ {x})
      BY <1>1, <2>1, <3>2, <3>3, PickSmaller
    <3>5. s \ {x} \in P
      BY <3>4
    <3>6. (s \ {x}) \cup {x} = s
      BY <1>1, <3>2, <3>3, PickSmaller
    <3> QED
      BY <3>4, <3>5, <3>6
  <2>2. n + 1 \in Nat
    OBVIOUS
  <2> QED
    BY <2>1, <2>2
<1>4. \A n \in Nat : n \in N
  <2> HIDE DEF N
  <2>1. N \subseteq Nat
    BY DEF N
  <2> QED
    BY <1>2, <1>3, <2>1, Induction
<1> QED
  BY <1>1, <1>4

(* Sums grow by one term at a time. *)
LEMMA SumInsert ==
    ASSUME NEW f, NEW S, IsFiniteSet(S), NEW e, e \notin S, \A x \in S \cup {e} : f[x] \in Int
    PROVE  Sum(f, S \cup {e}) = Sum(f, S) + f[e] /\ Sum(f, S) \in Int /\ f[e] \in Int
<1>1. IsFiniteSet(S \cup {e})
  BY FS_AddElement
<1>2. (S \cup {e}) \ {e} = S
  OBVIOUS
<1>3. Sum(f, S \cup {e}) = f[e] + Sum(f, (S \cup {e}) \ {e})
  BY <1>1, SumRemove
<1>4. Sum(f, (S \cup {e}) \ {e}) = Sum(f, S)
  BY <1>2, Zenon
<1>5. Sum(f, S) \in Int /\ f[e] \in Int
  BY SumType
<1> QED
  BY <1>3, <1>4, <1>5

(* Equal terms have equal sums. *)
LEMMA SumSame ==
    ASSUME NEW f, NEW g, NEW S, IsFiniteSet(S), \A x \in S : f[x] = g[x] /\ f[x] \in Int
    PROVE  Sum(f, S) = Sum(g, S)
<1> DEFINE P == {s \in SUBSET S : Sum(f, s) = Sum(g, s)}
<1>1. {} \in P
  BY SumEmpty
<1>2. ASSUME NEW s \in SUBSET S, NEW x \in S \ s, s \in P PROVE s \cup {x} \in P
  <2>1. IsFiniteSet(s)
    BY FS_Subset
  <2>2. Sum(f, s \cup {x}) = Sum(f, s) + f[x]
    BY <2>1, SumInsert
  <2>3. Sum(g, s \cup {x}) = Sum(g, s) + g[x]
    BY <2>1, SumInsert
  <2> QED
    BY <1>2, <2>2, <2>3
<1> HIDE DEF P
<1>3. S \in P
  BY <1>1, <1>2, SetInduction
<1> QED
  BY <1>3 DEF P

(* The sum of two sums. *)
LEMMA SumPlus ==
    ASSUME NEW f, NEW g, NEW h, NEW S, IsFiniteSet(S),
           \A x \in S : f[x] \in Int /\ g[x] \in Int /\ h[x] = f[x] + g[x]
    PROVE  Sum(h, S) = Sum(f, S) + Sum(g, S)
<1> DEFINE P == {s \in SUBSET S : Sum(h, s) = Sum(f, s) + Sum(g, s)}
<1>1. {} \in P
  BY SumEmpty
<1>2. ASSUME NEW s \in SUBSET S, NEW x \in S \ s, s \in P PROVE s \cup {x} \in P
  <2>1. IsFiniteSet(s)
    BY FS_Subset
  <2>2. Sum(f, s \cup {x}) = Sum(f, s) + f[x] /\ Sum(f, s) \in Int /\ f[x] \in Int
    BY <2>1, SumInsert
  <2>3. Sum(g, s \cup {x}) = Sum(g, s) + g[x] /\ Sum(g, s) \in Int /\ g[x] \in Int
    BY <2>1, SumInsert
  <2>4. Sum(h, s \cup {x}) = Sum(h, s) + h[x]
    <3>1. \A y \in s \cup {x} : h[y] \in Int
      OBVIOUS
    <3> QED
      BY <2>1, <3>1, SumInsert
  <2> QED
    BY <1>2, <2>2, <2>3, <2>4
<1> HIDE DEF P
<1>3. S \in P
  BY <1>1, <1>2, SetInduction
<1> QED
  BY <1>3 DEF P

(* Terms that are zero may be left out. *)
LEMMA SumZeroes ==
    ASSUME NEW f, NEW S, IsFiniteSet(S), NEW T \in SUBSET S,
           \A x \in S : f[x] \in Int, \A x \in S \ T : f[x] = 0
    PROVE  Sum(f, S) = Sum(f, T)
<1> DEFINE P == {s \in SUBSET S : Sum(f, s) = Sum(f, s \cap T)}
<1>1. {} \in P
  <2>1. {} \cap T = {}
    OBVIOUS
  <2> QED
    BY <2>1
<1>2. ASSUME NEW s \in SUBSET S, NEW x \in S \ s, s \in P PROVE s \cup {x} \in P
  <2>1. IsFiniteSet(s) /\ IsFiniteSet(s \cap T)
    BY FS_Subset
  <2>2. Sum(f, s \cup {x}) = Sum(f, s) + f[x] /\ Sum(f, s) \in Int /\ f[x] \in Int
    BY <2>1, SumInsert
  <2>3. CASE x \in T
    <3>1. (s \cup {x}) \cap T = (s \cap T) \cup {x} /\ x \notin s \cap T
      BY <2>3
    <3>2. Sum(f, (s \cap T) \cup {x}) = Sum(f, s \cap T) + f[x]
      BY <2>1, <3>1, SumInsert
    <3> QED
      BY <1>2, <2>2, <3>1, <3>2
  <2>4. CASE x \notin T
    <3>1. (s \cup {x}) \cap T = s \cap T /\ f[x] = 0
      BY <2>4
    <3>2. Sum(f, (s \cup {x}) \cap T) = Sum(f, s \cap T)
      BY <3>1, Zenon
    <3> QED
      BY <1>2, <2>2, <3>1, <3>2
  <2> QED
    BY <2>3, <2>4
<1> HIDE DEF P
<1>3. S \in P
  BY <1>1, <1>2, SetInduction
<1>4. S \cap T = T
  OBVIOUS
<1> QED
  BY <1>3, <1>4 DEF P

(* A part of a sum of naturals is not more than the whole. *)
LEMMA SumPart ==
    ASSUME NEW f, NEW S, IsFiniteSet(S), NEW T \in SUBSET S, \A x \in S : f[x] \in Nat
    PROVE  Sum(f, T) <= Sum(f, S) /\ Sum(f, T) \in Nat /\ Sum(f, S) \in Nat
<1> DEFINE P == {s \in SUBSET S : Sum(f, s \cap T) <= Sum(f, s)}
<1>1. {} \in P
  <2>1. {} \cap T = {}
    OBVIOUS
  <2> QED
    BY <2>1, SumEmpty
<1>2. ASSUME NEW s \in SUBSET S, NEW x \in S \ s, s \in P PROVE s \cup {x} \in P
  <2>1. IsFiniteSet(s) /\ IsFiniteSet(s \cap T)
    BY FS_Subset
  <2>2. /\ Sum(f, s \cup {x}) = Sum(f, s) + f[x] /\ Sum(f, s) \in Int
        /\ f[x] \in Int /\ f[x] >= 0
    BY <2>1, SumInsert
  <2>3. Sum(f, s \cap T) \in Int
    BY <2>1, SumType
  <2>4. CASE x \in T
    <3>1. (s \cup {x}) \cap T = (s \cap T) \cup {x} /\ x \notin s \cap T
      BY <2>4
    <3>2. Sum(f, (s \cap T) \cup {x}) = Sum(f, s \cap T) + f[x]
      BY <2>1, <3>1, SumInsert
    <3> QED
      BY <1>2, <2>2, <2>3, <3>1, <3>2
  <2>5. CASE x \notin T
    <3>1. (s \cup {x}) \cap T = s \cap T
      BY <2>5
    <3>2. Sum(f, (s \cup {x}) \cap T) = Sum(f, s \cap T)
      BY <3>1, Zenon
    <3> QED
      BY <1>2, <2>2, <2>3, <3>2
  <2> QED
    BY <2>4, <2>5
<1> HIDE DEF P
<1>3. S \in P
  BY <1>1, <1>2, SetInduction
<1>4. S \cap T = T /\ IsFiniteSet(T)
  BY FS_Subset
<1>5. Sum(f, T) \in Nat /\ Sum(f, S) \in Nat
  BY <1>4, SumType
<1> QED
  BY <1>3, <1>4, <1>5 DEF P

(* Sums over an interval. *)
LEMMA SumInterval ==
    ASSUME NEW f, NEW a \in Int, NEW b \in Int, a <= b, \A x \in a..b : f[x] \in Int
    PROVE  /\ Sum(f, a..b) = Sum(f, a .. b - 1) + f[b]
           /\ Sum(f, a .. b - 1) \in Int /\ Sum(f, a..b) \in Int
<1>1. IsFiniteSet(a .. b - 1)
  BY FS_Interval
<1>2. a..b = (a .. b - 1) \cup {b} /\ b \notin a .. b - 1
  OBVIOUS
<1>3. Sum(f, (a .. b - 1) \cup {b}) = Sum(f, a .. b - 1) + f[b]
      /\ Sum(f, a .. b - 1) \in Int /\ f[b] \in Int
  BY <1>1, <1>2, SumInsert
<1>4. Sum(f, a..b) = Sum(f, (a .. b - 1) \cup {b})
  BY <1>2, Zenon
<1> QED
  BY <1>3, <1>4

(* As many ones as there are elements. *)
LEMMA SumOnes ==
    ASSUME NEW f, NEW S, IsFiniteSet(S), \A x \in S : f[x] = 1
    PROVE  Sum(f, S) = Cardinality(S)
<1> DEFINE P == {s \in SUBSET S : Sum(f, s) = Cardinality(s)}
<1>1. {} \in P
  BY SumEmpty, FS_EmptySet
<1>2. ASSUME NEW s \in SUBSET S, NEW x \in S \ s, s \in P PROVE s \cup {x} \in P
  <2>1. IsFiniteSet(s) /\ Cardinality(s) \in Nat
    BY FS_Subset, FS_CardinalityType
  <2>2. \A y \in s \cup {x} : f[y] \in Int
    OBVIOUS
  <2>3. Sum(f, s \cup {x}) = Sum(f, s) + f[x]
    BY <2>1, <2>2, SumInsert
  <2>4. Cardinality(s \cup {x}) = Cardinality(s) + 1
    BY <2>1, FS_AddElement
  <2> QED
    BY <1>2, <2>3, <2>4
<1> HIDE DEF P
<1>3. S \in P
  BY <1>1, <1>2, SetInduction
<1> QED
  BY <1>3 DEF P

(* The n terms of f from a on are those of g from b on. *)
SameTerms(f, g, a, b, n) ==
    \A i \in 0 .. n - 1 : f[a + i] = g[b + i] /\ f[a + i] \in Int

(* The same terms elsewhere. *)
LEMMA SumShift ==
    ASSUME NEW f, NEW g, NEW a \in Int, NEW b \in Int, NEW n \in Nat, SameTerms(f, g, a, b, n)
    PROVE  Sum(f, a .. a + n - 1) = Sum(g, b .. b + n - 1)
<1>0. \A i \in 0 .. n - 1 : f[a + i] = g[b + i] /\ f[a + i] \in Int
  BY DEF SameTerms
<1> DEFINE T == {k \in Nat : k <= n => Sum(f, a .. a + k - 1) = Sum(g, b .. b + k - 1)}
<1>1. 0 \in T
  <2>1. a .. a + 0 - 1 = {} /\ b .. b + 0 - 1 = {}
    OBVIOUS
  <2>2. Sum(f, a .. a + 0 - 1) = 0 /\ Sum(g, b .. b + 0 - 1) = 0
    BY <2>1, SumEmpty, Zenon
  <2> QED
    BY <2>2
<1>2. ASSUME NEW k \in T PROVE k + 1 \in T
  <2>1. k \in Nat /\ k + 1 \in Nat
    OBVIOUS
  <2>2. ASSUME k + 1 <= n PROVE Sum(f, a .. a + (k + 1) - 1) = Sum(g, b .. b + (k + 1) - 1)
    <3>1. PICK x, y \in Int : x = a + k /\ y = b + k /\ a <= x /\ b <= y
      BY <2>1
    <3>2. /\ a + (k + 1) - 1 = x /\ b + (k + 1) - 1 = y
          /\ a + k - 1 = x - 1 /\ b + k - 1 = y - 1
      BY <2>1, <3>1
    <3>3. \A z \in a..x : f[z] \in Int
      <4>1. ASSUME NEW z \in a..x PROVE f[z] \in Int
        <5>1. z - a \in 0 .. n - 1 /\ a + (z - a) = z
          BY <2>1, <2>2, <3>1
        <5> QED
          BY <1>0, <5>1
      <4> QED
        BY <4>1
    <3>4. \A z \in b..y : g[z] \in Int
      <4>1. ASSUME NEW z \in b..y PROVE g[z] \in Int
        <5>1. z - b \in 0 .. n - 1 /\ b + (z - b) = z
          BY <2>1, <2>2, <3>1
        <5> QED
          BY <1>0, <5>1
      <4> QED
        BY <4>1
    <3>5. Sum(f, a..x) = Sum(f, a .. x - 1) + f[x]
      BY <3>1, <3>3, SumInterval
    <3>6. Sum(g, b..y) = Sum(g, b .. y - 1) + g[y]
      BY <3>1, <3>4, SumInterval
    <3>7. f[x] = g[y]
      <4>1. k \in 0 .. n - 1
        BY <2>1, <2>2
      <4> QED
        BY <1>0, <3>1, <4>1
    <3>8. Sum(f, a .. x - 1) = Sum(g, b .. y - 1)
      BY <1>2, <2>1, <2>2, <3>2
    <3> QED
      BY <3>2, <3>5, <3>6, <3>7, <3>8, Zenon
  <2> QED
    BY <2>1, <2>2
<1>3. T \in SUBSET Nat
  OBVIOUS
<1> HIDE DEF T
<1>4. n \in T
  BY <1>1, <1>2, <1>3, Induction
<1> QED
  BY <1>4 DEF T

(* The terms of f are the steps from each value of d to the next. *)
Telescopes(f, d, g, u) ==
    \A a \in g .. u - 1 : d[a] \in Int /\ d[a + 1] \in Int /\ f[a] = d[a + 1] - d[a]

(* Such a sum telescopes. *)
LEMMA SumSteps ==
    ASSUME NEW f, NEW d, NEW g \in Int, NEW u \in Int, g <= u, d[g] \in Int, Telescopes(f, d, g, u)
    PROVE  Sum(f, g .. u - 1) = d[u] - d[g]
<1>1. ASSUME NEW a \in g .. u - 1
      PROVE  d[a] \in Int /\ d[a + 1] \in Int /\ f[a] = d[a + 1] - d[a] /\ f[a] \in Int
  BY DEF Telescopes
<1> DEFINE T == {k \in Nat : g + k <= u => /\ d[g + k] \in Int
                                           /\ Sum(f, g .. g + k - 1) = d[g + k] - d[g]}
<1>2. 0 \in T
  <2>1. g .. g + 0 - 1 = {} /\ g + 0 = g
    OBVIOUS
  <2>2. Sum(f, g .. g + 0 - 1) = 0
    BY <2>1, SumEmpty
  <2>3. PICK x \in Int : x = d[g]
    OBVIOUS
  <2>4. x - x = 0
    OBVIOUS
  <2> QED
    BY <2>1, <2>2, <2>3, <2>4
<1>3. ASSUME NEW k \in T PROVE k + 1 \in T
  <2>1. k \in Nat /\ k + 1 \in Nat
    OBVIOUS
  <2>2. ASSUME g + (k + 1) <= u
        PROVE  d[g + (k + 1)] \in Int /\ Sum(f, g .. g + (k + 1) - 1) = d[g + (k + 1)] - d[g]
    <3>1. PICK b \in g .. u - 1 : /\ b = g + k /\ b \in Int /\ g <= b /\ g + (k + 1) = b + 1
                                  /\ g + (k + 1) - 1 = b /\ b <= u
      <4>1. g + k \in g .. u - 1 /\ g + k \in Int /\ g <= g + k /\ g + (k + 1) = (g + k) + 1
            /\ g + (k + 1) - 1 = g + k /\ g + k <= u
        BY <2>1, <2>2
      <4> QED
        BY <4>1
    <3>2. Sum(f, g .. b - 1) = d[b] - d[g] /\ d[b] \in Int
      BY <3>1
    <3>3. \A a \in g .. b : a \in g .. u - 1
      OBVIOUS
    <3>4. \A a \in g .. b : f[a] \in Int
      BY <1>1, <3>3
    <3>5. Sum(f, g .. b) = Sum(f, g .. b - 1) + f[b]
      BY <3>1, <3>4, SumInterval
    <3>6. PICK x, y, z \in Int : x = d[g] /\ y = d[b] /\ z = d[b + 1] /\ f[b] = z - y
      BY <1>1
    <3>7. (y - x) + (z - y) = z - x
      OBVIOUS
    <3>8. Sum(f, g .. b) = z - x
      BY <3>2, <3>5, <3>6, <3>7
    <3> QED
      BY <3>1, <3>6, <3>8
  <2> QED
    BY <2>1, <2>2
<1>4. T \in SUBSET Nat
  OBVIOUS
<1> HIDE DEF T
<1>5. PICK k \in Nat : k = u - g /\ g + k = u /\ g + k - 1 = u - 1
  <2>1. u - g \in Nat /\ g + (u - g) = u /\ g + (u - g) - 1 = u - 1
    OBVIOUS
  <2> QED
    BY <2>1
<1>6. k \in T
  BY <1>2, <1>3, <1>4, Induction
<1> QED
  BY <1>5, <1>6 DEF T

-----------------------------------------------------------------------------
(* Quotients and remainders *)

(* What \div and % are. *)
LEMMA Divided ==
    ASSUME NEW x \in Nat, NEW m \in Nat \ {0}
    PROVE  /\ x \div m \in Nat /\ x % m \in Nat /\ x % m < m
           /\ x = m * (x \div m) + (x % m)
  OBVIOUS

(* Multiplying keeps an order. *)
LEMMA Times ==
    ASSUME NEW a \in Nat, NEW x \in Int, NEW y \in Int, x <= y
    PROVE  a * x <= a * y
<1>1. a * (y - x) = a * y - a * x
  OBVIOUS
<1>2. a * (y - x) >= 0
  <2>1. PICK z \in Nat : z = y - x
    OBVIOUS
  <2> QED
    BY <2>1
<1>3. a * x \in Int /\ a * y \in Int
  OBVIOUS
<1> QED
  BY <1>1, <1>2, <1>3

(* Products of naturals are naturals. *)
LEMMA TimesType == \A a, b \in Nat : a * b \in Nat
  OBVIOUS

(* Every quotient and remainder has its number. *)
LEMMA Residue ==
    ASSUME NEW s \in Nat \ {0}, NEW a \in Nat, NEW k \in 0 .. s - 1
    PROVE  (s * a + k) % s = k
<1>1. PICK x \in Nat : x = s * a + k
  OBVIOUS
<1>2. PICK q, m \in Nat : m < s /\ x = s * q + m /\ m = x % s
  BY Divided
<1>8. PICK u, w \in Nat : u = s * a /\ w = s * q /\ x = u + k /\ x = w + m
  BY <1>1, <1>2, Zenon, TimesType
<1>3. s * (a - q) = u - w /\ s * (q - a) = w - u
  <2>1. s * (a - q) = s * a - s * q /\ s * (q - a) = s * q - s * a
    OBVIOUS
  <2> QED
    BY <1>8, <2>1, Zenon
<1>9. u - w = m - k /\ w - u = k - m
  BY <1>8
<1>4. s * (a - q) = m - k /\ s * (q - a) = k - m
  BY <1>3, <1>9, Zenon
<1>5. ~(1 <= a - q)
  <2>1. 1 <= a - q => s * 1 <= s * (a - q)
    BY Times
  <2> QED
    BY <1>2, <1>4, <2>1
<1>6. ~(1 <= q - a)
  <2>1. 1 <= q - a => s * 1 <= s * (q - a)
    BY Times
  <2> QED
    BY <1>2, <1>4, <2>1
<1>7. a = q
  BY <1>5, <1>6
<1>10. u = w
  BY <1>7, <1>8, Zenon
<1>11. m = k
  BY <1>8, <1>10
<1> QED
  BY <1>1, <1>2, <1>11, Zenon

(* Of s numbers in a row one has remainder k. *)
LEMMA OnePerSpan ==
    ASSUME NEW s \in Nat \ {0}, NEW k \in 0 .. s - 1, NEW m \in Nat
    PROVE  \E r \in m .. m + s - 1 : {x \in m .. m + s - 1 : x % s = k} = {r}
<1>1. PICK a, b \in Nat : b < s /\ m = s * a + b
  BY Divided
<1>2. PICK c \in Nat : c = IF k >= b THEN a ELSE a + 1
  OBVIOUS
<1>3. PICK r \in Nat : r = s * c + k
  OBVIOUS
<1>4. r % s = k
  BY <1>3, Residue
<1>5. r \in m .. m + s - 1
  <2>1. s * (a + 1) = s * a + s
    OBVIOUS
  <2>2. s * a \in Nat
    OBVIOUS
  <2>3. CASE k >= b
    <3>1. r = s * a + k
      BY <1>2, <1>3, <2>3
    <3> QED
      BY <1>1, <2>2, <2>3, <3>1
  <2>4. CASE k < b
    <3>1. r = s * a + s + k
      BY <1>2, <1>3, <2>1, <2>4
    <3> QED
      BY <1>1, <2>2, <2>4, <3>1
  <2> QED
    BY <2>3, <2>4
<1>6. ASSUME NEW x \in m .. m + s - 1, x % s = k PROVE x = r
  <2>1. PICK q \in Nat : x = s * q + k
    <3>1. x \in Nat
      OBVIOUS
    <3> QED
      BY <1>6, <3>1, Divided
  <2>2. s * (q - c) = s * q - s * c /\ s * (c - q) = s * c - s * q
    OBVIOUS
  <2>3. s * (q - c) = x - r /\ s * (c - q) = r - x
    BY <1>3, <2>1, <2>2
  <2>4. ~(1 <= q - c)
    <3>1. 1 <= q - c => s * 1 <= s * (q - c)
      BY Times
    <3> QED
      BY <1>5, <2>3, <3>1
  <2>5. ~(1 <= c - q)
    <3>1. 1 <= c - q => s * 1 <= s * (c - q)
      BY Times
    <3> QED
      BY <1>5, <2>3, <3>1
  <2>6. q = c
    BY <2>4, <2>5
  <2> QED
    BY <1>3, <2>1, <2>6
<1> QED
  BY <1>4, <1>5, <1>6

(* Of n * s numbers in a row n have remainder k. *)
LEMMA CountResidue ==
    ASSUME NEW s \in Nat \ {0}, NEW k \in 0 .. s - 1, NEW m \in Nat, NEW n \in Nat
    PROVE  Cardinality({x \in m .. m + n * s - 1 : x % s = k}) = n
<1> DEFINE D(i) == {x \in m .. m + i * s - 1 : x % s = k}
           T == {i \in Nat : IsFiniteSet(D(i)) /\ Cardinality(D(i)) = i}
<1>1. 0 \in T
  <2>1. D(0) = {}
    OBVIOUS
  <2> QED
    BY <2>1, FS_EmptySet
<1>2. ASSUME NEW i \in T PROVE i + 1 \in T
  <2>1. PICK e \in Nat : e = m + i * s /\ m + (i + 1) * s = e + s
    OBVIOUS
  <2>2. PICK r \in e .. e + s - 1 : {x \in e .. e + s - 1 : x % s = k} = {r}
    BY OnePerSpan
  <2>3. m <= e
    <3>1. i * s \in Nat
      OBVIOUS
    <3> QED
      BY <2>1, <3>1
  <2>4. D(i) = {x \in m .. e - 1 : x % s = k} /\ D(i + 1) = {x \in m .. e + s - 1 : x % s = k}
    BY <2>1
  <2>5. D(i + 1) = D(i) \cup {r} /\ r \notin D(i)
    <3>1. \A x : x \in m .. e + s - 1 <=> x \in m .. e - 1 \/ x \in e .. e + s - 1
      BY <2>3
    <3>2. r \notin m .. e - 1
      BY <2>3
    <3> HIDE DEF D
    <3> QED
      BY <2>2, <2>4, <3>1, <3>2, Zenon
  <2> HIDE DEF D
  <2>6. IsFiniteSet(D(i)) /\ Cardinality(D(i)) = i
    OBVIOUS
  <2>7. IsFiniteSet(D(i + 1)) /\ Cardinality(D(i + 1)) = i + 1
    BY <2>5, <2>6, FS_AddElement
  <2> QED
    BY <2>7
<1> HIDE DEF D
<1>3. n \in T
  BY <1>1, <1>2, Induction
<1> QED
  BY <1>3 DEF D

-----------------------------------------------------------------------------
(* As many numbers elsewhere. *)
LEMMA CardShift ==
    ASSUME NEW S \in SUBSET Int, IsFiniteSet(S), NEW T \in SUBSET Int, NEW k \in Int,
           \A x \in S : x + k \in T, \A y \in T : y - k \in S
    PROVE  Cardinality(T) = Cardinality(S)
<1>1. PICK h : h = [x \in S |-> x + k]
  OBVIOUS
<1>2. h \in [S -> T] /\ \A x \in S : h[x] = x + k
  BY <1>1
<1>3. \A x, y \in S : h[x] = h[y] => x = y
  BY <1>2
<1>4. \A y \in T : \E x \in S : h[x] = y
  <2>1. ASSUME NEW y \in T PROVE \E x \in S : h[x] = y
    <3>1. y - k \in S /\ (y - k) + k = y
      OBVIOUS
    <3> QED
      BY <1>2, <3>1
  <2> QED
    BY <2>1
<1>5. h \in Bijection(S, T)
  BY <1>2, <1>3, <1>4 DEF Bijection, Injection, Surjection, IsInjective
<1>6. ExistsBijection(S, T)
  BY <1>5 DEF ExistsBijection
<1> QED
  BY <1>6, FS_Bijection

-----------------------------------------------------------------------------
(***************************************************************************)
(* The strings of the counter                                              *)
(***************************************************************************)

(* The largest value of counter->upto. *)
LEMMA UptoMax == UPTO_MAX \in Nat /\ UPTO_MAX > 99999998 /\ UPTO_MAX < 100000000
  BY SMT DEF UPTO_MAX

(* The tables of counter.h, entry by entry. *)
LEMMA SizeTables ==
    /\ MAG_MIN[1] = 1 /\ MAG_MIN[2] = 10 /\ MAG_MIN[3] = 100 /\ MAG_MIN[4] = 1000
    /\ MAG_MIN[5] = 10000 /\ MAG_MIN[6] = 100000 /\ MAG_MIN[7] = 1000000
    /\ MAG_MIN[8] = 10000000
    /\ SIZE_MAG_STR[1] = 2 /\ SIZE_MAG_STR[2] = 3 /\ SIZE_MAG_STR[3] = 4
    /\ SIZE_MAG_STR[4] = 5 /\ SIZE_MAG_STR[5] = 6 /\ SIZE_MAG_STR[6] = 7
    /\ SIZE_MAG_STR[7] = 8 /\ SIZE_MAG_STR[8] = 9
    /\ SIZE_MAG_0_STR[1] = 0 /\ SIZE_MAG_0_STR[2] = 18 /\ SIZE_MAG_0_STR[3] = 288
    /\ SIZE_MAG_0_STR[4] = 3888 /\ SIZE_MAG_0_STR[5] = 48888
    /\ SIZE_MAG_0_STR[6] = 588888 /\ SIZE_MAG_0_STR[7] = 6888888
    /\ SIZE_MAG_0_STR[8] = 78888888
<1>1. /\ MAG_MIN[1] = 1 /\ MAG_MIN[2] = 10 /\ MAG_MIN[3] = 100 /\ MAG_MIN[4] = 1000
      /\ MAG_MIN[5] = 10000 /\ MAG_MIN[6] = 100000 /\ MAG_MIN[7] = 1000000
      /\ MAG_MIN[8] = 10000000
  BY SMT DEF MAG_MIN
<1>2. /\ SIZE_MAG_STR[1] = 2 /\ SIZE_MAG_STR[2] = 3 /\ SIZE_MAG_STR[3] = 4
      /\ SIZE_MAG_STR[4] = 5 /\ SIZE_MAG_STR[5] = 6 /\ SIZE_MAG_STR[6] = 7
      /\ SIZE_MAG_STR[7] = 8 /\ SIZE_MAG_STR[8] = 9
  BY SMT DEF SIZE_MAG_STR
<1>3. /\ SIZE_MAG_0_STR[1] = 0 /\ SIZE_MAG_0_STR[2] = 18 /\ SIZE_MAG_0_STR[3] = 288
      /\ SIZE_MAG_0_STR[4] = 3888 /\ SIZE_MAG_0_STR[5] = 48888
      /\ SIZE_MAG_0_STR[6] = 588888 /\ SIZE_MAG_0_STR[7] = 6888888
      /\ SIZE_MAG_0_STR[8] = 78888888
  BY SMT DEF SIZE_MAG_0_STR
<1> QED
  BY SMT, <1>1, <1>2, <1>3

(* The numbers of a magnitude are an interval, and every number the        *)
(* program accepts has a magnitude.                                        *)
LEMMA MagOf ==
    ASSUME NEW n \in 1..UPTO_MAX
    PROVE  /\ Mag(n) \in 0..7
           /\ Mag(n) = 0 <=> n < 10
           /\ Mag(n) = 1 <=> n >= 10 /\ n < 100
           /\ Mag(n) = 2 <=> n >= 100 /\ n < 1000
           /\ Mag(n) = 3 <=> n >= 1000 /\ n < 10000
           /\ Mag(n) = 4 <=> n >= 10000 /\ n < 100000
           /\ Mag(n) = 5 <=> n >= 100000 /\ n < 1000000
           /\ Mag(n) = 6 <=> n >= 1000000 /\ n < 10000000
           /\ Mag(n) = 7 <=> n >= 10000000
<1>1. n \in Int
  BY SMT, UptoMax
<1> QED
  BY SMT, <1>1, SizeTables DEF Mag

(* What a number adds to the strings of the numbers before it. *)
LEMMA SizeStep ==
    ASSUME NEW n \in 1..UPTO_MAX
    PROVE  /\ counter_size_upto(n) \in Nat /\ counter_size_mag_upto(n) \in Nat \ {0}
           /\ n = 1 => counter_size_upto(n) = counter_size_mag_upto(n)
           /\ n > 1 => counter_size_upto(n) = counter_size_upto(n - 1) + counter_size_mag_upto(n)
<1>1. ASSUME NEW k \in 1..UPTO_MAX
      PROVE  /\ Mag(k) \in 0..7 /\ counter_size_mag_upto(k) = Mag(k) + 2
             /\ Mag(k) = 0 => counter_size_upto(k) = 2 * k
             /\ Mag(k) = 1 => counter_size_upto(k) = 18 + 3 * (k - 9)
             /\ Mag(k) = 2 => counter_size_upto(k) = 288 + 4 * (k - 99)
             /\ Mag(k) = 3 => counter_size_upto(k) = 3888 + 5 * (k - 999)
             /\ Mag(k) = 4 => counter_size_upto(k) = 48888 + 6 * (k - 9999)
             /\ Mag(k) = 5 => counter_size_upto(k) = 588888 + 7 * (k - 99999)
             /\ Mag(k) = 6 => counter_size_upto(k) = 6888888 + 8 * (k - 999999)
             /\ Mag(k) = 7 => counter_size_upto(k) = 78888888 + 9 * (k - 9999999)
  <2>1. k \in Int
    BY SMT, UptoMax
  <2>2. PICK m \in 0..7 : m = Mag(k)
    BY SMT, MagOf
  <2>3. counter_size_upto(k)
          = SIZE_MAG_0_STR[m + 1] + SIZE_MAG_STR[m + 1] * (k - (MAG_MIN[m + 1] - 1))
    BY SMT, <2>2 DEF counter_size_upto
  <2>4. counter_size_mag_upto(k) = SIZE_MAG_STR[m + 1]
    BY SMT, <2>2 DEF counter_size_mag_upto
  <2> QED
    BY SMT, <2>1, <2>2, <2>3, <2>4, SizeTables
<1>2. n \in Int /\ n >= 1
  BY SMT, UptoMax
<1>3. counter_size_upto(n) \in Nat /\ counter_size_mag_upto(n) \in Nat \ {0}
  BY SMT, <1>1, <1>2, MagOf
<1>4. n = 1 => counter_size_upto(n) = counter_size_mag_upto(n)
  BY SMT, <1>1, <1>2, MagOf
<1>5. ASSUME n > 1
      PROVE  counter_size_upto(n) = counter_size_upto(n - 1) + counter_size_mag_upto(n)
  <2>1. n - 1 \in 1..UPTO_MAX
    BY SMT, <1>2, <1>5, UptoMax
  <2> QED
    BY SMT, <1>1, <1>2, <2>1, MagOf
<1> QED
  BY SMT, <1>3, <1>4, <1>5
=============================================================================
