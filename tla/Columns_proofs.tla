--------------------------- MODULE Columns_proofs ---------------------------
(***************************************************************************)
(* The counter, for any crew, any columns and any value of counter->upto   *)
(* the program accepts: nobody gets past counter_await before the arrays   *)
(* are whole, and whole arrays hold the strings "1" ... "upto" end to end. *)
(* Then the columns, for any number of rows, groups and row blocks: each   *)
(* row gets the value of its group, no column outgrows what was allocated  *)
(* for it, and the lengths added up are the bytes written.                 *)
(*                                                                         *)
(* NoEarlyUse is not inductive: a column passes on the strength of         *)
(* counter->ready, read with or without the lock, so the invariant has to  *)
(* say that ready is only ever set after the arrays are complete.  Nor are *)
(* the properties of the arrays: FillInv says which pointers the loops     *)
(* have set, that each is where the sizes of the strings before it put it, *)
(* and that the buffer holds the digits of the number it is copied for.    *)
(*                                                                         *)
(* The properties of the columns are about finished ones: ColumnInv says   *)
(* where the loops are in the middle, in rows of the current group and of  *)
(* the current row block at once, and which lengths have been added.       *)
(***************************************************************************)
EXTENDS CounterBuild, GroupColumn, Sizes_proofs, SequenceTheorems

Tasks == {"counter"} \cup Columns \cup Others

(* Where the code is when build_counter has filled the arrays. *)
PastBuild == {"ready", "broadcast", "unlock"}

ReadyMeansBuilt ==
    /\ ready => built
    /\ \A w \in Workers : wpc[w] \in PastBuild => built

(* Between Pop and the end of its task a worker has one. *)
HasTask ==
    \A w \in Workers :
        wpc[w] \in {"check", "lock", "test", "wait", "use"} => task[w] \in Tasks

AwaitInv ==
    /\ backlog \in Seq(Tasks)
    /\ HasTask
    /\ TypeOK
    /\ ReadyMeansBuilt
    /\ NoEarlyUse

(* However the tasks after the first are ordered, generate.h links known   *)
(* tasks only.                                                             *)
LEMMA FirstStageIsTasks ==
    ASSUME NEW s \in Orders(Columns \cup Others)
    PROVE  FirstStage(s) \in Seq(Tasks)
<1>1. Cardinality(Columns \cup Others) \in Nat
  BY AwaitAssumption, FS_CardinalityType
<1>2. s \in Seq(Columns \cup Others)
  <2>1. PICK n \in Nat : s \in [1..n -> Columns \cup Others]
    BY <1>1 DEF Orders
  <2> QED
    BY <2>1
<1>3. s \in Seq(Tasks)
  BY <1>2 DEF Tasks
<1>4. <<"counter">> \in Seq(Tasks)
  BY DEF Tasks
<1> QED
  BY <1>3, <1>4 DEF FirstStage

(* The state counter_init leaves, before any worker has a task. *)
LEMMA AwaitInvInit == Init => AwaitInv
<1> SUFFICES ASSUME Init PROVE AwaitInv
  OBVIOUS
<1>1. backlog \in Seq(Tasks)
  BY FirstStageIsTasks DEF Init
<1>2. TypeOK
  <2>1. \A i \in 1..Len(backlog) : backlog[i] \in Tasks
    BY <1>1
  <2>2. /\ wpc \in [Workers -> {"pop", "use", "check", "lock", "test", "wait", "build_lock",
                                "build", "ready", "broadcast", "unlock", "exited"}]
        /\ task \in [Workers -> {"counter", NONE} \cup Columns \cup Others]
    BY DEF Init
  <2> QED
    BY <2>1, <2>2 DEF Init, TypeOK, Tasks
<1>3. ReadyMeansBuilt
  BY DEF Init, ReadyMeansBuilt, PastBuild
<1>4. NoEarlyUse
  BY DEF Init, NoEarlyUse
<1>5. HasTask
  BY DEF Init, HasTask
<1> QED
  BY <1>1, <1>2, <1>3, <1>4, <1>5 DEF AwaitInv

(* Every step of a worker or of the supervisor keeps the invariant. *)
LEMMA AwaitInvStep == AwaitInv /\ [Next]_vars => AwaitInv'
<1> SUFFICES ASSUME AwaitInv, [Next]_vars PROVE AwaitInv'
  OBVIOUS
<1> USE DEF AwaitInv, TypeOK, Tasks, HasTask, ReadyMeansBuilt, PastBuild, NoEarlyUse, Goto
<1>1. ASSUME NEW w \in Workers, Pop(w) PROVE AwaitInv'
  <2>1. Head(backlog) \in Tasks /\ Tail(backlog) \in Seq(Tasks)
    BY <1>1 DEF Pop
  <2>2. TypeOK' /\ backlog' \in Seq(Tasks)
    BY <1>1, <2>1 DEF Pop
  <2>3. HasTask' /\ ReadyMeansBuilt' /\ NoEarlyUse'
    BY <1>1, <2>1 DEF Pop
  <2> QED
    BY <2>2, <2>3
<1>2. ASSUME NEW w \in Workers, Return(w) PROVE AwaitInv'
  BY <1>2, AwaitAssumption DEF Return
<1>3. ASSUME NEW w \in Workers, counter_await(w) PROVE AwaitInv'
  BY <1>3 DEF counter_await
<1>4. ASSUME NEW w \in Workers, build_counter(w) PROVE AwaitInv'
  <2>1. CASE wpc[w] = "build_lock"
    <3>1. /\ processing' = w /\ wpc' = [wpc EXCEPT ![w] = "build"]
          /\ UNCHANGED <<backlog, ready, built, task, done, failed>>
      BY <1>4, <2>1 DEF build_counter
    <3> QED
      BY <2>1, <3>1
  <2>2. CASE wpc[w] = "build"
    BY <1>4, <2>2 DEF build_counter
  <2>3. CASE wpc[w] = "ready"
    BY <1>4, <2>3 DEF build_counter
  <2>4. CASE wpc[w] = "broadcast"
    BY <1>4, <2>4 DEF build_counter
  <2>5. CASE wpc[w] = "unlock"
    BY <1>4, <2>5 DEF build_counter
  <2> QED
    BY <1>4, <2>1, <2>2, <2>3, <2>4, <2>5 DEF build_counter
<1>5. ASSUME NEW w \in Workers, counter_exit_on_failure(w) PROVE AwaitInv'
  BY <1>5 DEF counter_exit_on_failure
<1>6. ASSUME NEW w \in Workers, Cancelled(w) PROVE AwaitInv'
  BY <1>6 DEF Cancelled
<1>7. ASSUME NEW w \in Workers, SpuriousWakeup(w) PROVE AwaitInv'
  BY <1>7 DEF SpuriousWakeup
<1>8. CASE BacklogCleared
  BY <1>8 DEF BacklogCleared
<1>9. CASE UNCHANGED vars
  BY <1>9 DEF vars
<1> QED
  BY <1>1, <1>2, <1>3, <1>4, <1>5, <1>6, <1>7, <1>8, <1>9
  DEF Next, Worker, Finished

(* Whatever the interleaving, a column that waits for the counter goes on  *)
(* only once build_counter has completed the arrays, even though           *)
(* counter_await first reads counter->ready without the lock.              *)
THEOREM NobodyEarly == Spec => []NoEarlyUse
<1>1. AwaitInv => NoEarlyUse
  BY DEF AwaitInv
<1> QED
  BY <1>1, AwaitInvInit, AwaitInvStep, PTL DEF Spec

-----------------------------------------------------------------------------
(* Where the string of k + 1 begins: SET_RANGE_DIGITS_MAG_UPTO's offset. *)
Offset(k) ==
    LET m == Mag(k + 1)
    IN  SIZE_MAG_0_STR[m + 1] + SIZE_MAG_STR[m + 1] * (k - (MAG_MIN[m + 1] - 1))

(* The strings of one magnitude have their room between the strings of the *)
(* lower and of the higher ones.                                           *)
LEMMA OffsetIn ==
    ASSUME NEW k \in 0..UPTO_MAX - 1
    PROVE  /\ Offset(k) \in Nat
           /\ Mag(k + 1) = 0 => Offset(k) = 2 * k
           /\ Mag(k + 1) = 1 => Offset(k) = 18 + 3 * (k - 9)
           /\ Mag(k + 1) = 2 => Offset(k) = 288 + 4 * (k - 99)
           /\ Mag(k + 1) = 3 => Offset(k) = 3888 + 5 * (k - 999)
           /\ Mag(k + 1) = 4 => Offset(k) = 48888 + 6 * (k - 9999)
           /\ Mag(k + 1) = 5 => Offset(k) = 588888 + 7 * (k - 99999)
           /\ Mag(k + 1) = 6 => Offset(k) = 6888888 + 8 * (k - 999999)
           /\ Mag(k + 1) = 7 => Offset(k) = 78888888 + 9 * (k - 9999999)
<1>1. k \in Int /\ k + 1 \in 1..UPTO_MAX
  BY SMT, UptoMax
<1>2. PICK m : m = Mag(k + 1)
  BY SMT
<1>3. Offset(k) = SIZE_MAG_0_STR[m + 1] + SIZE_MAG_STR[m + 1] * (k - (MAG_MIN[m + 1] - 1))
  BY SMT, <1>2 DEF Offset
<1>4. CASE m = 0
  BY SMT, <1>1, <1>2, <1>3, <1>4, MagOf, SizeTables
<1>5. CASE m = 1
  BY SMT, <1>1, <1>2, <1>3, <1>5, MagOf, SizeTables
<1>6. CASE m = 2
  BY SMT, <1>1, <1>2, <1>3, <1>6, MagOf, SizeTables
<1>7. CASE m = 3
  BY SMT, <1>1, <1>2, <1>3, <1>7, MagOf, SizeTables
<1>8. CASE m = 4
  BY SMT, <1>1, <1>2, <1>3, <1>8, MagOf, SizeTables
<1>9. CASE m = 5
  BY SMT, <1>1, <1>2, <1>3, <1>9, MagOf, SizeTables
<1>10. CASE m = 6
  BY SMT, <1>1, <1>2, <1>3, <1>10, MagOf, SizeTables
<1>11. CASE m = 7
  BY SMT, <1>1, <1>2, <1>3, <1>11, MagOf, SizeTables
<1> QED
  BY SMT, <1>1, <1>2, <1>4, <1>5, <1>6, <1>7, <1>8, <1>9, <1>10, <1>11, MagOf

(* No two strings share their place. *)
LEMMA OffsetsDiffer ==
    ASSUME NEW j \in 0..UPTO_MAX - 1, NEW k \in 0..UPTO_MAX - 1, j < k
    PROVE  Offset(j) < Offset(k)
<1>1. j \in Int /\ k \in Int /\ j + 1 \in 1..UPTO_MAX /\ k + 1 \in 1..UPTO_MAX
  BY SMT, UptoMax
<1> QED
  BY SMT, <1>1, MagOf, OffsetIn

(* Every string ends where the next one begins, and the last one where     *)
(* counter_size_upto ends the allocation.                                  *)
LEMMA OffsetsAbut ==
    ASSUME NEW k \in 1..UPTO_MAX
    PROVE  /\ k < UPTO_MAX => Offset(k) = Offset(k - 1) + counter_size_mag_upto(k)
           /\ counter_size_upto(k) = Offset(k - 1) + counter_size_mag_upto(k)
<1>1. k \in Int /\ k - 1 \in 0..UPTO_MAX - 1 /\ k - 1 + 1 = k
  BY SMT, UptoMax
<1>2. PICK m \in 0..7 : m = Mag(k)
  BY SMT, MagOf
<1>3. counter_size_mag_upto(k) = m + 2
  BY SMT, <1>2, SizeTables DEF counter_size_mag_upto
<1>4. counter_size_upto(k)
          = SIZE_MAG_0_STR[m + 1] + SIZE_MAG_STR[m + 1] * (k - (MAG_MIN[m + 1] - 1))
  BY SMT, <1>2 DEF counter_size_upto
<1>5. Offset(k - 1)
          = SIZE_MAG_0_STR[m + 1] + SIZE_MAG_STR[m + 1] * (k - 1 - (MAG_MIN[m + 1] - 1))
  BY SMT, <1>1, <1>2 DEF Offset
<1>6. counter_size_upto(k) = Offset(k - 1) + counter_size_mag_upto(k)
  BY SMT, <1>1, <1>2, <1>3, <1>4, <1>5, SizeTables
<1>7. ASSUME k < UPTO_MAX PROVE Offset(k) = Offset(k - 1) + counter_size_mag_upto(k)
  <2>1. k \in 0..UPTO_MAX - 1 /\ k + 1 \in 1..UPTO_MAX
    BY SMT, <1>7, UptoMax
  <2> QED
    BY SMT, <1>1, <1>2, <1>3, <2>1, MagOf, OffsetIn
<1> QED
  BY SMT, <1>6, <1>7

(* The magnitudes in terms of the table. *)
LEMMA MagInterval ==
    ASSUME NEW n \in 1..UPTO_MAX, NEW m \in 0..7
    PROVE  /\ MAG_MIN[m + 1] \in Nat /\ MAG_MIN[m + 1] >= 1
           /\ m < 7 => MAG_MIN[m + 2] \in Nat /\ MAG_MIN[m + 2] > MAG_MIN[m + 1]
           /\ Mag(n) = m <=> MAG_MIN[m + 1] <= n /\ (m < 7 => n < MAG_MIN[m + 2])
<1>1. n \in Int /\ n >= 1
  BY SMT, UptoMax
<1> QED
  BY SMT, <1>1, MagOf, SizeTables

-----------------------------------------------------------------------------
(* The j-th decimal digit of n from the right. *)
Digit(n, j) == (n \div MAG_MIN[j]) % 10

(* The last k digits are nines exactly when the next number carries over   *)
(* them.                                                                   *)
LEMMA Nines ==
    ASSUME NEW n \in 1..UPTO_MAX, NEW k \in 0..7
    PROVE  (\A j \in 1..k : Digit(n, j) = 9) <=> n % MAG_MIN[k + 1] = MAG_MIN[k + 1] - 1
<1>1. n \in Int /\ n >= 1
  BY SMT, UptoMax
<1> DEFINE N(i) == (\A j \in 1..i : Digit(n, j) = 9) <=> n % MAG_MIN[i + 1] = MAG_MIN[i + 1] - 1
<1>2. N(0)
  BY SMT, <1>1, SizeTables
<1>3. N(1)
  BY SMT, <1>1, <1>2, SizeTables DEF Digit
<1>4. N(2)
  BY SMT, <1>1, <1>3, SizeTables DEF Digit
<1>5. N(3)
  BY SMT, <1>1, <1>4, SizeTables DEF Digit
<1>6. N(4)
  BY SMT, <1>1, <1>5, SizeTables DEF Digit
<1>7. N(5)
  BY SMT, <1>1, <1>6, SizeTables DEF Digit
<1>8. N(6)
  BY SMT, <1>1, <1>7, SizeTables DEF Digit
<1>9. N(7)
  BY SMT, <1>1, <1>8, SizeTables DEF Digit
<1> QED
  BY SMT, <1>2, <1>3, <1>4, <1>5, <1>6, <1>7, <1>8, <1>9

(* A digit changes when all digits behind it are nines. *)
LEMMA NextDigit ==
    ASSUME NEW n \in 1..UPTO_MAX, NEW j \in 1..8
    PROVE  /\ Digit(n, j) \in 0..9
           /\ Digit(n + 1, j) = IF n % MAG_MIN[j] = MAG_MIN[j] - 1
                                THEN (IF Digit(n, j) = 9 THEN 0 ELSE Digit(n, j) + 1)
                                ELSE Digit(n, j)
<1>1. n \in Int /\ n >= 1
  BY SMT, UptoMax
<1>2. CASE j = 1
  BY SMT, <1>1, <1>2, SizeTables DEF Digit
<1>3. CASE j = 2
  BY SMT, <1>1, <1>3, SizeTables DEF Digit
<1>4. CASE j = 3
  BY SMT, <1>1, <1>4, SizeTables DEF Digit
<1>5. CASE j = 4
  BY SMT, <1>1, <1>5, SizeTables DEF Digit
<1>6. CASE j = 5
  BY SMT, <1>1, <1>6, SizeTables DEF Digit
<1>7. CASE j = 6
  BY SMT, <1>1, <1>7, SizeTables DEF Digit
<1>8. CASE j = 7
  BY SMT, <1>1, <1>8, SizeTables DEF Digit
<1>9. CASE j = 8
  BY SMT, <1>1, <1>9, SizeTables DEF Digit
<1> QED
  BY SMT, <1>2, <1>3, <1>4, <1>5, <1>6, <1>7, <1>8, <1>9

(* The digits of n are a sequence of as many as its magnitude says. *)
LEMMA Digits ==
    ASSUME NEW n \in 1..UPTO_MAX, NEW l \in 1..8, Mag(n) = l - 1
    PROVE  /\ Decimal(n) = [i \in 1..l |-> Digit(n, l + 1 - i)]
           /\ Decimal(n) \in Seq(0..9) /\ Len(Decimal(n)) = l
           /\ \A i \in 1..l, j \in 1..8 : i + j = l + 1 => Decimal(n)[i] = Digit(n, j)
<1>1. PICK m \in 0..7 : m = Mag(n)
  BY SMT, MagOf
<1>2. l = m + 1
  BY SMT, <1>1
<1>3. Decimal(n) = [i \in 1..m + 1 |-> (n \div MAG_MIN[m + 2 - i]) % 10]
  BY SMT, <1>1 DEF Decimal
<1>4. \A i \in 1..l : m + 2 - i = l + 1 - i /\ l + 1 - i \in 1..8
  BY SMT, <1>2
<1>5. Decimal(n) = [i \in 1..l |-> Digit(n, l + 1 - i)]
  BY SMT, <1>2, <1>3, <1>4 DEF Digit
<1>6. \A i \in 1..l : Digit(n, l + 1 - i) \in 0..9
  BY SMT, <1>4, NextDigit
<1>7. Decimal(n) \in Seq(0..9) /\ Len(Decimal(n)) = l
  BY SMT, <1>5, <1>6
<1>8. ASSUME NEW i \in 1..l, NEW j \in 1..8, i + j = l + 1 PROVE Decimal(n)[i] = Digit(n, j)
  <2>1. j = l + 1 - i
    BY SMT, <1>8
  <2> QED
    BY SMT, <1>5, <2>1
<1> QED
  BY SMT, <1>5, <1>7, <1>8

(* count_buffer_increment turns the digits of a number into those of the   *)
(* next one, as long as it has as many; the loops never ask for more.      *)
LEMMA Increment ==
    ASSUME NEW n \in 1..UPTO_MAX, n < UPTO_MAX, Mag(n + 1) = Mag(n)
    PROVE  count_buffer_increment(Decimal(n)) = Decimal(n + 1)
<1>1. n \in Int /\ n >= 1 /\ n + 1 \in 1..UPTO_MAX /\ n < 99999999
  BY SMT, UptoMax
<1>2. PICK l \in 1..8 : Mag(n) = l - 1 /\ Mag(n + 1) = l - 1
  <2>1. PICK m \in 0..7 : m = Mag(n)
    BY SMT, MagOf
  <2>2. m + 1 \in 1..8 /\ m = m + 1 - 1
    BY SMT
  <2> QED
    BY SMT, <2>1, <2>2
<1>3. PICK d : d = Decimal(n)
  BY SMT
<1>4. /\ d \in Seq(0..9) /\ Len(d) = l
      /\ \A i \in 1..l, j \in 1..8 : i + j = l + 1 => d[i] = Digit(n, j)
  BY Zenon, <1>2, <1>3, Digits
<1>5. Decimal(n + 1) = [i \in 1..l |-> Digit(n + 1, l + 1 - i)]
  <2>1. n + 1 \in 1..UPTO_MAX
    BY SMT, <1>1
  <2> QED
    BY Zenon, <1>2, <2>1, Digits
<1> DEFINE Behind(i) == \A j \in i + 1..l : d[j] = 9
<1>6. ASSUME NEW i \in 1..l
      PROVE  Behind(i) <=> n % MAG_MIN[l + 1 - i] = MAG_MIN[l + 1 - i] - 1
  <2>1. l - i \in 0..7 /\ l - i + 1 = l + 1 - i
    BY SMT
  <2>2. Behind(i) <=> \A j \in 1..l - i : Digit(n, j) = 9
    <3>1. ASSUME Behind(i), NEW j \in 1..l - i PROVE Digit(n, j) = 9
      <4>1. PICK p \in i + 1..l : p + j = l + 1
        BY SMT
      <4>2. p \in 1..l /\ j \in 1..8
        BY SMT
      <4> QED
        BY SMT, <1>4, <3>1, <4>1, <4>2
    <3>2. ASSUME \A j \in 1..l - i : Digit(n, j) = 9 PROVE Behind(i)
      <4> SUFFICES ASSUME NEW j \in i + 1..l PROVE d[j] = 9
        BY SMT
      <4>1. PICK q \in 1..l - i : j + q = l + 1
        BY SMT
      <4>2. q \in 1..8 /\ j \in 1..l
        BY SMT
      <4> QED
        BY SMT, <1>4, <3>2, <4>1, <4>2
    <3> QED
      BY SMT, <3>1, <3>2
  <2> QED
    BY SMT, <2>1, <2>2, Nines
<1>7. ASSUME NEW i \in 1..l
      PROVE  Digit(n + 1, l + 1 - i) = IF Behind(i) THEN (IF d[i] = 9 THEN 0 ELSE d[i] + 1)
                                       ELSE d[i]
  <2>1. PICK q \in 1..8 : q = l + 1 - i
    BY SMT
  <2>2. d[i] = Digit(n, q) /\ (Behind(i) <=> n % MAG_MIN[q] = MAG_MIN[q] - 1)
    BY SMT, <1>4, <1>6, <2>1
  <2> HIDE DEF Behind
  <2> QED
    BY SMT, <2>1, <2>2, NextDigit
(* The first digit and all behind it are not nines: n + 1 has as many digits. *)
<1>8. ~(d[1] = 9 /\ Behind(1))
  <2> SUFFICES ASSUME d[1] = 9, Behind(1) PROVE FALSE
    BY SMT
  <2>1. Digit(n, l) = 9 /\ n % MAG_MIN[l] = MAG_MIN[l] - 1
    <3>1. l \in 1..8 /\ 1 \in 1..l /\ 1 + l = l + 1 /\ l + 1 - 1 = l
      BY SMT
    <3> QED
      BY SMT, <1>4, <1>6, <3>1
  <2>2. CASE l = 8
    BY SMT, <1>1, <2>1, <2>2, SizeTables DEF Digit
  <2>3. CASE l < 8
    <3>1. \A j \in 1..l : Digit(n, j) = 9
      <4> SUFFICES ASSUME NEW j \in 1..l PROVE Digit(n, j) = 9
        BY SMT
      <4>1. PICK p \in 1..l : p + j = l + 1
        BY SMT
      <4>2. d[p] = 9 /\ j \in 1..8
        BY SMT, <4>1
      <4> QED
        BY SMT, <1>4, <4>1, <4>2
    <3>2. n % MAG_MIN[l + 1] = MAG_MIN[l + 1] - 1
      BY SMT, <2>3, <3>1, Nines
    <3>3. l - 1 \in 0..7 /\ l - 1 < 7 /\ l - 1 + 2 = l + 1 /\ Mag(n) = l - 1 /\ Mag(n + 1) = l - 1
      BY SMT, <1>2, <2>3
    <3>4. MAG_MIN[l + 1] \in Nat /\ n < MAG_MIN[l + 1] /\ n + 1 < MAG_MIN[l + 1]
      BY SMT, <1>1, <3>3, MagInterval
    <3>5. n % MAG_MIN[l + 1] = n
      BY SMT, <1>1, <2>3, <3>4, SizeTables
    <3> QED
      BY SMT, <1>1, <3>2, <3>4, <3>5
  <2> QED
    BY SMT, <2>2, <2>3
<1> DEFINE carry == {i \in 2..l : \A j \in i..l : d[j] = 9}
<1>9. PICK top \in 1..l :
          /\ count_buffer_increment(d)
                = [i \in 1..l |-> IF i > top THEN 0
                                  ELSE IF i = top THEN (IF d[i] = 9 THEN 9 ELSE d[i] + 1)
                                  ELSE d[i]]
          /\ Behind(top) /\ (top > 1 => d[top] # 9)
  <2>1. CASE carry = {}
    <3>1. count_buffer_increment(d)
             = [i \in 1..l |-> IF i > l THEN 0
                               ELSE IF i = l THEN (IF d[i] = 9 THEN 9 ELSE d[i] + 1)
                               ELSE d[i]]
      BY SMT, <1>4, <2>1 DEF count_buffer_increment
    <3>2. l > 1 => d[l] # 9
      BY SMT, <2>1
    <3> QED
      BY SMT, <3>1, <3>2
  <2>2. CASE carry # {}
    <3>1. \E i \in carry : \A j \in carry : i <= j
      <4> DEFINE Nine(i) == i \in 2..l /\ \A j \in i..l : d[j] = 9
      <4>1. \A i : i \in carry <=> Nine(i)
        BY SMT
      <4>2. \E i \in 2..8 : Nine(i)
        BY SMT, <2>2
      <4>3. \E i \in 2..8 : Nine(i) /\ \A j \in 2..8 : Nine(j) => i <= j
        <5> HIDE DEF Nine
        <5>1. 2..8 = {2, 3, 4, 5, 6, 7, 8}
          BY SMT
        <5> QED
          BY SMT, <4>2, <5>1
      <4>4. \A i : Nine(i) => i \in 2..8
        BY SMT
      <4> HIDE DEF Nine, carry
      <4> QED
        BY Zenon, <4>1, <4>3, <4>4
    <3>2. PICK c : c = (CHOOSE i \in carry : \A j \in carry : i <= j)
      BY SMT
    <3>3. c \in carry /\ \A j \in carry : c <= j
      BY SMT, <3>1, <3>2
    <3>4. c \in 2..l /\ c - 1 \in 1..l /\ l - (1 + l - c) = c - 1
      BY SMT, <3>3
    <3>5. count_buffer_increment(d)
             = [i \in 1..l |-> IF i > c - 1 THEN 0
                               ELSE IF i = c - 1 THEN (IF d[i] = 9 THEN 9 ELSE d[i] + 1)
                               ELSE d[i]]
      <4>1. count_buffer_increment(d)
               = LET t == l - IF carry = {} THEN 0 ELSE 1 + l - c
                 IN  [i \in 1..l |-> IF i > t THEN 0
                                     ELSE IF i = t THEN (IF d[i] = 9 THEN 9 ELSE d[i] + 1)
                                     ELSE d[i]]
        BY SMT, <1>4, <3>2 DEF count_buffer_increment
      <4> HIDE DEF carry
      <4> QED
        BY SMT, <2>2, <3>4, <4>1
    <3>6. Behind(c - 1)
      BY SMT, <3>3, <3>4
    <3>7. c - 1 > 1 => d[c - 1] # 9
      BY SMT, <3>3, <3>4
    <3> QED
      BY SMT, <3>4, <3>5, <3>6, <3>7
  <2> QED
    BY SMT, <2>1, <2>2
<1>10. d[top] # 9
  BY SMT, <1>8, <1>9
<1>11. \A i \in 1..l : /\ i > top => Behind(i) /\ d[i] = 9
                       /\ i < top => ~Behind(i)
  BY SMT, <1>9, <1>10
<1>12. ASSUME NEW i \in 1..l
       PROVE  Digit(n + 1, l + 1 - i) = IF i > top THEN 0
                                        ELSE IF i = top THEN (IF d[i] = 9 THEN 9 ELSE d[i] + 1)
                                        ELSE d[i]
  <2> HIDE DEF Behind
  <2> QED
    BY SMT, <1>7, <1>9, <1>10, <1>11
<1> QED
  BY SMT, <1>3, <1>5, <1>9, <1>12

-----------------------------------------------------------------------------
(* The pointers the loops have set: those of the higher magnitudes, and    *)
(* those of the current one below current.                                 *)
FirstCount == IF mag = -1 THEN 0 ELSE MAG_MIN[mag + 1] - 1

LastCount == IF mag = Mag(upto) THEN upto ELSE MAG_MIN[mag + 2] - 1

InPlace(k) ==
    /\ pointers[k] = Offset(k)
    /\ Offset(k) \in DOMAIN text /\ text[Offset(k)] = Decimal(k + 1)

FillInv ==
    /\ upto \in 1..UPTO_MAX
    /\ mag \in -1..7 /\ mag <= Mag(upto)
    /\ until = LastCount
    /\ mag = -1 => current = 0
    /\ mag # -1 => current \in FirstCount..until - 1 /\ buffer = Decimal(current + 1)
    /\ DOMAIN pointers = (FirstCount..current - 1) \union (until..upto)
    /\ pointers[upto] = counter_size_upto(upto)
    /\ \A k \in DOMAIN pointers \ {upto} : InPlace(k)

(* mag_x_min_string spells the first number of its magnitude. *)
LEMMA FirstDigits ==
    ASSUME NEW m \in 0..7
    PROVE  /\ MAG_MIN[m + 1] \in 1..UPTO_MAX /\ Mag(MAG_MIN[m + 1]) = m
           /\ MinString(m) = Decimal(MAG_MIN[m + 1])
<1>1. MAG_MIN[m + 1] \in 1..UPTO_MAX
  BY SMT, UptoMax, SizeTables
<1>2. Mag(MAG_MIN[m + 1]) = m
  BY SMT, <1>1, MagOf, SizeTables
<1>3. PICK l \in 1..8 : l = m + 1 /\ m = l - 1
  BY SMT
<1>4. ASSUME NEW i \in 1..l
      PROVE  Digit(MAG_MIN[l], l + 1 - i) = IF i = 1 THEN 1 ELSE 0
  <2>1. PICK j \in 1..8 : j = l + 1 - i /\ j <= l
    BY SMT
  <2>2. CASE l = 1
    BY SMT, <2>1, <2>2, SizeTables DEF Digit
  <2>3. CASE l = 2
    BY SMT, <2>1, <2>3, SizeTables DEF Digit
  <2>4. CASE l = 3
    BY SMT, <2>1, <2>4, SizeTables DEF Digit
  <2>5. CASE l = 4
    BY SMT, <2>1, <2>5, SizeTables DEF Digit
  <2>6. CASE l = 5
    BY SMT, <2>1, <2>6, SizeTables DEF Digit
  <2>7. CASE l = 6
    BY SMT, <2>1, <2>7, SizeTables DEF Digit
  <2>8. CASE l = 7
    BY SMT, <2>1, <2>8, SizeTables DEF Digit
  <2>9. CASE l = 8
    BY SMT, <2>1, <2>9, SizeTables DEF Digit
  <2> QED
    BY SMT, <2>2, <2>3, <2>4, <2>5, <2>6, <2>7, <2>8, <2>9
<1>5. Decimal(MAG_MIN[l]) = [i \in 1..l |-> Digit(MAG_MIN[l], l + 1 - i)]
  <2>1. PICK n \in 1..UPTO_MAX : n = MAG_MIN[l] /\ Mag(n) = l - 1
    BY SMT, <1>1, <1>2, <1>3
  <2> QED
    BY Zenon, <2>1, Digits
<1>6. MinString(m) = [i \in 1..l |-> IF i = 1 THEN 1 ELSE 0]
  BY Zenon, <1>3 DEF MinString
<1>7. MinString(m) = Decimal(MAG_MIN[l])
  BY SMT, <1>4, <1>5, <1>6
<1> QED
  BY Zenon, <1>1, <1>2, <1>3, <1>7

(* counter_size_internals and the first magnitude. *)
LEMMA FillInvInit == FillInit => FillInv
<1> SUFFICES ASSUME FillInit PROVE FillInv
  BY SMT
<1>1. upto \in 1..UPTO_MAX /\ upto \in Nat /\ UPTO_MAX \in Nat
  BY SMT, UptosAssumption, UptoMax DEF FillInit
<1>2. PICK m \in 0..7 : m = mag /\ m = Mag(upto) /\ m # -1
  BY SMT, <1>1, MagOf DEF FillInit
<1>3. PICK f \in Nat : f = MAG_MIN[m + 1] /\ f >= 1 /\ f <= upto
  BY SMT, <1>1, <1>2, MagInterval
<1>4. current = f - 1 /\ current + 1 = f /\ until = upto /\ FirstCount = f - 1 /\ LastCount = upto
  BY SMT, <1>2, <1>3 DEF FillInit, FirstCount, LastCount
<1>5. buffer = Decimal(current + 1)
  <2>1. buffer = MinString(m)
    BY SMT, <1>2 DEF FillInit
  <2> QED
    BY SMT, <1>3, <1>4, <2>1, FirstDigits
<1>6. /\ DOMAIN pointers = {upto} /\ pointers[upto] = counter_size_upto(upto)
  BY SMT DEF FillInit
<1>7. (FirstCount..current - 1) \union (until..upto) = {upto}
  BY SMT, <1>1, <1>3, <1>4
<1> QED
  BY SMT, <1>1, <1>2, <1>3, <1>4, <1>5, <1>6, <1>7 DEF FillInv

(* One turn of SET_RANGE_DIGITS_MAG_UPTO. *)
LEMMA FillInvFill == FillInv /\ SetDigits => FillInv'
<1> SUFFICES ASSUME FillInv, SetDigits PROVE FillInv'
  BY SMT
<1>1. /\ upto \in 1..UPTO_MAX /\ upto \in Nat /\ UPTO_MAX \in Nat /\ upto' = upto
      /\ Mag(upto) \in 0..7
  BY SMT, UptoMax, MagOf DEF FillInv, SetDigits
<1>2. PICK m \in 0..7 : m = mag /\ m # -1 /\ m <= Mag(upto)
  BY SMT DEF FillInv, SetDigits
<1>3. PICK f \in Nat : f = MAG_MIN[m + 1] /\ f >= 1
  BY SMT, <1>1, MagInterval
<1>4. PICK g \in Nat : /\ g = LastCount /\ g <= upto /\ f <= g
                       /\ \A n \in f..g : n \in 1..UPTO_MAX /\ Mag(n) = m
  <2>1. CASE m = Mag(upto)
    <3>1. LastCount = upto /\ f <= upto
      BY SMT, <1>1, <1>2, <1>3, <2>1, MagInterval DEF LastCount
    <3>2. ASSUME NEW n \in f..upto PROVE n \in 1..UPTO_MAX /\ Mag(n) = m
      <4>1. n \in 1..UPTO_MAX /\ n \in Nat
        BY SMT, <1>1, <1>3
      <4> QED
        BY SMT, <1>1, <1>3, <2>1, <4>1, MagInterval
    <3> QED
      BY SMT, <1>1, <3>1, <3>2
  <2>2. CASE m # Mag(upto)
    <3>1. m < 7 /\ m < Mag(upto)
      BY SMT, <1>1, <1>2, <2>2
    <3>2. PICK h \in Nat : h = MAG_MIN[m + 2] /\ h > f
      BY SMT, <1>1, <1>3, <3>1, MagInterval
    <3>3. h <= upto
      BY SMT, <1>1, <3>1, <3>2, MagOf, SizeTables
    <3>4. LastCount = h - 1
      BY SMT, <1>2, <2>2, <3>2 DEF LastCount
    <3>5. ASSUME NEW n \in f..h - 1 PROVE n \in 1..UPTO_MAX /\ Mag(n) = m
      <4>1. n \in 1..UPTO_MAX /\ n \in Nat
        BY SMT, <1>1, <1>3, <3>3
      <4> QED
        BY SMT, <1>1, <1>3, <3>1, <3>2, <4>1, MagInterval
    <3> QED
      BY SMT, <1>1, <3>2, <3>3, <3>4, <3>5
  <2> QED
    BY SMT, <2>1, <2>2
<1>5. PICK c \in Nat : /\ c = current /\ c >= f - 1 /\ c < g /\ until = g
                       /\ buffer = Decimal(c + 1) /\ FirstCount = f - 1
                       /\ DOMAIN pointers = (f - 1..c - 1) \union (g..upto)
  BY SMT, <1>2, <1>3, <1>4 DEF FillInv, FirstCount
<1>6. c + 1 \in 1..UPTO_MAX /\ Mag(c + 1) = m /\ c \in 0..UPTO_MAX - 1
  BY SMT, <1>1, <1>3, <1>4, <1>5
<1>7. /\ pointers' = [i \in DOMAIN pointers \cup {c} |-> IF i = c THEN Offset(c) ELSE pointers[i]]
      /\ text' = [o \in DOMAIN text \cup {Offset(c)} |-> IF o = Offset(c) THEN buffer ELSE text[o]]
      /\ IF c + 1 # g
         THEN /\ current' = c + 1 /\ buffer' = count_buffer_increment(buffer)
              /\ mag' = m /\ until' = g
         ELSE /\ mag' = m - 1 /\ until' = f - 1
              /\ current' = IF m = 0 THEN 0 ELSE MAG_MIN[m] - 1
              /\ buffer' = IF m = 0 THEN <<>> ELSE MinString(m - 1)
  <2>1. Offset(c) = SIZE_MAG_0_STR[m + 1] + SIZE_MAG_STR[m + 1] * (c - (MAG_MIN[m + 1] - 1))
    BY SMT, <1>6 DEF Offset
  <2> QED
    BY SMT, <1>2, <1>3, <1>5, <2>1 DEF SetDigits
<1>8. ASSUME NEW k \in DOMAIN pointers' \ {upto} PROVE InPlace(k)'
  <2>1. k \in 0..UPTO_MAX - 1 /\ (k = c \/ k \in DOMAIN pointers \ {upto})
    BY SMT, <1>1, <1>3, <1>4, <1>5, <1>7
  <2>2. CASE k = c
    BY SMT, <1>5, <1>7, <2>2 DEF InPlace
  <2>3. CASE k # c
    <3>1. k \in Int /\ c \in Int /\ (k < c \/ c < k)
      BY SMT, <1>1, <2>1, <2>3
    <3>2. Offset(k) \in Nat /\ Offset(c) \in Nat /\ Offset(k) # Offset(c)
      BY SMT, <1>6, <2>1, <3>1, OffsetsDiffer, OffsetIn
    <3>3. InPlace(k)
      BY SMT, <2>1, <2>3 DEF FillInv
    <3> QED
      BY SMT, <1>7, <2>1, <2>3, <3>2, <3>3 DEF InPlace
  <2> QED
    BY SMT, <2>2, <2>3
<1>9. pointers'[upto] = counter_size_upto(upto)
  BY SMT, <1>1, <1>4, <1>5, <1>7 DEF FillInv
<1>10. CASE c + 1 # g
  <2>1. c + 1 \in Nat /\ c + 2 \in f..g /\ c + 1 + 1 = c + 2 /\ c + 1 < UPTO_MAX
    BY SMT, <1>1, <1>3, <1>4, <1>5, <1>10
  <2>2. buffer' = Decimal(c + 2)
    BY SMT, <1>4, <1>5, <1>6, <1>7, <1>10, <2>1, Increment
  <2>3. /\ current' = c + 1 /\ mag' = mag /\ until' = until /\ FirstCount' = f - 1 /\ LastCount' = g
    BY SMT, <1>1, <1>2, <1>4, <1>5, <1>7, <1>10 DEF FirstCount, LastCount
  <2>4. DOMAIN pointers' = (f - 1..c) \union (g..upto)
    BY SMT, <1>3, <1>5, <1>7
  <2>5. DOMAIN pointers' = (FirstCount'..current' - 1) \union (until'..upto')
    BY SMT, <1>1, <1>5, <2>3, <2>4
  <2>6. current' \in FirstCount'..until' - 1 /\ buffer' = Decimal(current' + 1)
    BY SMT, <1>3, <1>4, <1>5, <2>1, <2>2, <2>3, <1>10
  <2> QED
    BY SMT, <1>1, <1>2, <1>4, <1>5, <1>8, <1>9, <2>3, <2>5, <2>6 DEF FillInv
<1>11. CASE c + 1 = g
  <2>1. DOMAIN pointers' = f - 1..upto
    BY SMT, <1>1, <1>3, <1>4, <1>5, <1>7, <1>11
  <2>2. CASE m = 0
    <3>1. f = 1
      BY SMT, <1>3, <2>2, SizeTables
    <3>2. mag' = -1 /\ until' = 0 /\ current' = 0
      BY SMT, <1>7, <1>11, <2>2, <3>1
    <3>3. FirstCount' = 0 /\ LastCount' = 0
      BY SMT, <1>1, <3>2, SizeTables DEF FirstCount, LastCount
    <3>4. DOMAIN pointers' = (FirstCount'..current' - 1) \union (until'..upto')
      BY SMT, <1>1, <2>1, <3>1, <3>2, <3>3
    <3> QED
      BY SMT, <1>1, <1>8, <1>9, <3>2, <3>3, <3>4 DEF FillInv
  <2>3. CASE m # 0
    <3>1. PICK p \in 0..7 : p = m - 1 /\ p + 1 = m /\ p # -1 /\ p < 7 /\ p + 2 = m + 1
      BY SMT, <2>3
    <3>2. PICK e \in Nat : e = MAG_MIN[m] /\ e >= 1 /\ e < f
      BY SMT, <1>1, <1>3, <3>1, MagInterval
    <3>3. /\ mag' = p /\ until' = f - 1 /\ current' = e - 1 /\ buffer' = MinString(p)
      BY SMT, <1>7, <1>11, <2>3, <3>1, <3>2
    <3>4. FirstCount' = e - 1 /\ LastCount' = f - 1
      BY SMT, <1>1, <1>2, <1>3, <3>1, <3>2, <3>3 DEF FirstCount, LastCount
    <3>5. buffer' = Decimal(current' + 1)
      BY SMT, <3>1, <3>2, <3>3, FirstDigits
    <3>6. DOMAIN pointers' = (FirstCount'..current' - 1) \union (until'..upto')
      BY SMT, <1>1, <1>3, <2>1, <3>2, <3>3, <3>4
    <3>7. current' \in FirstCount'..until' - 1
      BY SMT, <1>3, <3>2, <3>3, <3>4
    <3> QED
      BY SMT, <1>1, <1>2, <1>8, <1>9, <3>1, <3>3, <3>4, <3>5, <3>6, <3>7 DEF FillInv
  <2> QED
    BY SMT, <2>2, <2>3
<1> QED
  BY SMT, <1>10, <1>11

(* The arrays when the last loop is over. *)
LEMMA FilledIsWhole ==
    ASSUME FillInv, mag = -1
    PROVE  DOMAIN pointers = 0..upto /\ PointersAbut /\ StringsInPlace
<1>1. upto \in 1..UPTO_MAX /\ upto \in Nat /\ UPTO_MAX \in Nat
  BY SMT, UptoMax DEF FillInv
<1>2. mag # Mag(upto)
  BY SMT, <1>1, MagOf
<1>3. FirstCount = 0 /\ until = 0 /\ current = 0
  BY SMT, <1>2, SizeTables DEF FillInv, FirstCount, LastCount
<1>4. DOMAIN pointers = 0..upto
  BY SMT, <1>1, <1>3 DEF FillInv
<1>5. \A k \in 0..upto - 1 : k \in 0..UPTO_MAX - 1 /\ InPlace(k)
  BY SMT, <1>1, <1>4 DEF FillInv
<1>6. pointers[0] = 0
  <2>1. 0 \in 0..UPTO_MAX - 1 /\ 0 + 1 \in 1..UPTO_MAX /\ 0 \in 0..upto - 1
    BY SMT, <1>1
  <2>2. Mag(0 + 1) = 0
    BY SMT, <2>1, MagOf
  <2> QED
    BY SMT, <1>5, <2>1, <2>2, OffsetIn DEF InPlace
<1>7. ASSUME NEW k \in 1..upto PROVE pointers[k] = pointers[k - 1] + counter_size_mag_upto(k)
  <2>1. k \in 1..UPTO_MAX /\ k - 1 \in 0..upto - 1 /\ pointers[k - 1] = Offset(k - 1)
    BY SMT, <1>1, <1>5 DEF InPlace
  <2>2. CASE k = upto
    BY SMT, <2>1, <2>2, OffsetsAbut DEF FillInv
  <2>3. CASE k # upto
    <3>1. k \in 0..upto - 1 /\ k < UPTO_MAX /\ pointers[k] = Offset(k)
      BY SMT, <1>1, <1>5, <2>3 DEF InPlace
    <3> QED
      BY SMT, <2>1, <3>1, OffsetsAbut
  <2> QED
    BY SMT, <2>2, <2>3
<1>8. ASSUME NEW k \in 1..upto
      PROVE  /\ text[pointers[k - 1]] = Decimal(k)
             /\ Len(Decimal(k)) + 1 = counter_size_mag_upto(k)
  <2>1. k \in 1..UPTO_MAX /\ k - 1 \in 0..upto - 1 /\ k - 1 + 1 = k
    BY SMT, <1>1
  <2>2. text[pointers[k - 1]] = Decimal(k)
    BY SMT, <1>5, <2>1 DEF InPlace
  <2>3. PICK l \in 1..8 : Mag(k) = l - 1 /\ Mag(k) + 1 = l
    <3>1. PICK m \in 0..7 : m = Mag(k)
      BY SMT, <2>1, MagOf
    <3>2. m + 1 \in 1..8 /\ m = m + 1 - 1
      BY SMT
    <3> QED
      BY SMT, <3>1, <3>2
  <2>4. Len(Decimal(k)) = l
    BY Zenon, <2>1, <2>3, Digits
  <2>5. counter_size_mag_upto(k) = l + 1
    BY SMT, <2>3, SizeTables DEF counter_size_mag_upto
  <2> QED
    BY SMT, <2>2, <2>4, <2>5
<1> QED
  BY SMT, <1>4, <1>6, <1>7, <1>8 DEF PointersAbut, StringsInPlace

(* While the loops run, the two properties are about a later state. *)
LEMMA FillInvImplies == FillInv => PointersAbut /\ StringsInPlace
  BY SMT, FilledIsWhole DEF PointersAbut, StringsInPlace

-----------------------------------------------------------------------------
(* The arrays are filled by the worker of the counter, and only then is    *)
(* built set, which stands for "the loops are over" in CounterAwait.       *)
BuildInv ==
    /\ AwaitInv
    /\ FillInv
    /\ built => mag = -1

(* Nothing is filled and nobody waits when the stage begins. *)
LEMMA BuildInvInit == BuildInit => BuildInv
  BY SMT, AwaitInvInit, FillInvInit DEF BuildInit, BuildInv, Init

(* A step of the stage leaves the arrays alone, or is a turn of the loops  *)
(* of build_counter, or is both.                                           *)
LEMMA BuildInvStep == BuildInv /\ [BuildNext]_buildVars => BuildInv'
<1> SUFFICES ASSUME BuildInv, [BuildNext]_buildVars PROVE BuildInv'
  BY SMT
<1>1. ASSUME UNCHANGED fillVars PROVE FillInv' /\ mag' = mag
  BY SMT, <1>1 DEF BuildInv, FillInv, FirstCount, LastCount, InPlace, fillVars
<1>2. ASSUME NEW w \in Workers, Fill(w) PROVE BuildInv'
  <2>1. FillInv' /\ UNCHANGED vars
    BY SMT, <1>2, FillInvFill DEF Fill, BuildInv
  <2>2. AwaitInv'
    BY SMT, <2>1, AwaitInvStep DEF BuildInv
  <2>3. mag # -1 /\ built' = built
    BY SMT, <1>2, <2>1 DEF Fill, SetDigits, vars
  <2> QED
    BY SMT, <2>1, <2>2, <2>3 DEF BuildInv
<1>3. ASSUME NEW w \in Workers, Step(w) PROVE BuildInv'
  <2>1. UNCHANGED fillVars /\ Worker(w)
    BY SMT, <1>3 DEF Step
  <2>2. AwaitInv'
    BY SMT, <2>1, AwaitInvStep DEF BuildInv, Next
  <2>3. built' = built \/ wpc[w] = "build"
    BY SMT, <2>1 DEF Worker, Pop, Return, counter_await, build_counter,
                     counter_exit_on_failure, Cancelled
  <2> QED
    BY SMT, <1>1, <1>3, <2>1, <2>2, <2>3 DEF BuildInv, Step
<1>4. CASE Environment
  <2>1. UNCHANGED fillVars /\ Next /\ built' = built
    BY SMT, <1>4 DEF Environment, Next, SpuriousWakeup, BacklogCleared, Finished, vars
  <2>2. AwaitInv'
    BY SMT, <2>1, AwaitInvStep DEF BuildInv
  <2> QED
    BY SMT, <1>1, <2>1, <2>2 DEF BuildInv
<1>5. CASE UNCHANGED buildVars
  <2>1. UNCHANGED fillVars /\ UNCHANGED vars /\ built' = built
    BY SMT, <1>5 DEF buildVars, vars
  <2>2. AwaitInv'
    BY SMT, <2>1, AwaitInvStep DEF BuildInv
  <2> QED
    BY SMT, <1>1, <2>1, <2>2 DEF BuildInv
<1> QED
  BY Zenon, <1>2, <1>3, <1>4, <1>5 DEF BuildNext

(* Whatever the interleaving, a column that goes on from counter_await     *)
(* finds every pointer of the counter set: ready, which it may read        *)
(* without the lock, stands for all of the arrays.                         *)
THEOREM ReadyMeansWhole == BuildSpec => []WholeWhenUsed
<1>1. BuildInv => WholeWhenUsed
  BY SMT, FilledIsWhole DEF BuildInv, AwaitInv, NoEarlyUse, WholeWhenUsed
<1> QED
  BY <1>1, BuildInvInit, BuildInvStep, PTL DEF BuildSpec

(* For every value of counter->upto up to 99999999 the pointers that       *)
(* build_counter leaves are all set and each is the end of the string      *)
(* before it, the last one the end of the allocation, so the difference of *)
(* two is the length of the text between them (column_integer.c).          *)
THEOREM CounterIsContiguous == BuildSpec => []PointersAbut
<1>1. BuildInv => PointersAbut
  BY FillInvImplies DEF BuildInv
<1> QED
  BY <1>1, BuildInvInit, BuildInvStep, PTL DEF BuildSpec

(* For every such value the string that pointers[k - 1] leads to spells k: *)
(* count_buffer_increment carries as decimal addition does, and no string  *)
(* is written over another.                                                *)
THEOREM CounterSpellsNumbers == BuildSpec => []StringsInPlace
<1>1. BuildInv => StringsInPlace
  BY FillInvImplies DEF BuildInv
<1> QED
  BY <1>1, BuildInvInit, BuildInvStep, PTL DEF BuildSpec

-----------------------------------------------------------------------------
(***************************************************************************)
(* GroupColumn: the loops that fill a column                               *)
(***************************************************************************)

(* The rows of the first g groups, and those before row block b. *)
RowsTo(g) == Sum(sizes, 1..g)
Start(b) == IF b = 1 THEN 0 ELSE RowsOf(1) + (b - 2) * max

(* The partition is a sequence of sizes that add up to the rows. *)
PartitionInv ==
    IF col.style = "each" THEN sizes = <<>>
    ELSE /\ sizes \in Seq(Nat \ {0}) /\ sizes # <<>>
         /\ Sum(sizes, 1..Len(sizes)) = rows
         /\ kind = "even" => \A i, j \in 1..Len(sizes) : sizes[i] - sizes[j] \in -1..1

ColumnTypes ==
    /\ col \in Builders /\ pc \in {"loop", "done"}
    /\ rows \in Nat \ {0} /\ rows <= UPTO_MAX /\ max \in Nat \ {0}
    /\ value \in Nat \ {0} /\ block \in 1..Blocks
    /\ remGroup \in Nat /\ remCells \in Nat
    /\ widths \in Seq(Nat) /\ Len(widths) = value
    /\ cells \in Seq(Nat \ {0}) /\ starts \in Seq(Nat \ {0})
    /\ total = [b \in 1..Blocks |-> total[b]]
    /\ \A v \in 1..value : widths[v] \in Widths(v)
    /\ \A i \in 1..Len(cells) : cells[i] <= value

(* Where the loop is: the cells written and those left in the row block. *)
PlaceInv ==
    /\ Len(starts) = block
    /\ \A b \in 1..block : starts[b] = Start(b) + 1
    /\ Start(block) <= Len(cells)
    /\ IF pc = "loop" THEN Len(cells) + remCells = Start(block) + RowsOf(block)
       ELSE Len(cells) = rows /\ block = Blocks

(* With groups: those written and the one at hand. *)
GroupsInv ==
    col.style # "each" =>
        /\ value \in 1..Len(sizes)
        /\ RowsTo(value - 1) <= Len(cells) /\ Len(cells) + remGroup = RowsTo(value)
        /\ \A i \in 1..Len(cells) : RowsTo(cells[i] - 1) < i /\ i <= RowsTo(cells[i])

(* Without: the value each row got. *)
EachInv ==
    col.style = "each" =>
        /\ remGroup = 0 /\ (pc = "done" => remCells = 0)
        /\ col.next = "never" => value = 1 /\ \A i \in 1..Len(cells) : cells[i] = 1
        /\ col.next = "always" => value = Len(cells) + 1 /\ \A i \in 1..Len(cells) : cells[i] = i
        /\ col.next = "within" =>
              /\ value = Len(cells) - (block - 1) + IF remCells > 0 THEN 1 ELSE 0
              /\ \A b \in 1..block : \A i \in 1..Len(cells) :
                    i > Start(b) /\ i <= Start(b) + RowsOf(b) => cells[i] = i - (b - 1)

(* The bytes of the cells written. *)
Cost == [k \in 1..Len(cells) |-> widths[cells[k]]]

BytesWritten(b) == Sum(Cost, Start(b) + 1 .. Start(b) + RowsOf(b))

(* The lengths added so far. *)
TotalsInv ==
    /\ \A b \in 1..Blocks : total[b] = IF b < block \/ pc = "done" THEN BytesWritten(b) ELSE 0
    /\ tableTotal = IF col.early THEN Allocated
                    ELSE IF pc = "done" THEN Sum(Cost, 1..Len(cells)) ELSE 0

PlacesInv == ColumnTypes /\ PartitionInv /\ PlaceInv /\ GroupsInv /\ EachInv
ColumnInv == PlacesInv /\ TotalsInv
-----------------------------------------------------------------------------
(***************************************************************************)
(* Sums and quotients                                                      *)
(***************************************************************************)

(* Smaller terms have smaller sums. *)
LEMMA SumLess ==
    ASSUME NEW f, NEW g, NEW S, IsFiniteSet(S),
           \A x \in S : f[x] \in Int /\ g[x] \in Int /\ f[x] <= g[x]
    PROVE  Sum(f, S) <= Sum(g, S) /\ Sum(f, S) \in Int /\ Sum(g, S) \in Int
<1> DEFINE P == {s \in SUBSET S : Sum(f, s) <= Sum(g, s)}
<1>1. {} \in P
  BY SumEmpty
<1>2. ASSUME NEW s \in SUBSET S, NEW x \in S \ s, s \in P PROVE s \cup {x} \in P
  <2>1. IsFiniteSet(s) /\ \A y \in s \cup {x} : f[y] \in Int /\ g[y] \in Int
    BY FS_Subset
  <2>2. Sum(f, s \cup {x}) = Sum(f, s) + f[x] /\ Sum(f, s) \in Int /\ f[x] \in Int
    BY <2>1, SumInsert
  <2>3. Sum(g, s \cup {x}) = Sum(g, s) + g[x] /\ Sum(g, s) \in Int /\ g[x] \in Int
    BY <2>1, SumInsert
  <2> QED
    BY <1>2, <2>2, <2>3
<1> HIDE DEF P
<1>3. S \in P
  BY <1>1, <1>2, SetInduction
<1> QED
  BY <1>3, SumType DEF P

(* The terms of f from a to e are all c. *)
AllSame(f, a, e, c) == \A i \in a..e : f[i] = c

(* As many times the same. *)
LEMMA SumConst ==
    ASSUME NEW f, NEW a \in Int, NEW e \in Int, a <= e + 1, NEW c \in Int, AllSame(f, a, e, c)
    PROVE  Sum(f, a..e) = c * (e - a + 1)
<1>0. PICK n \in Nat : e = a + n - 1 /\ n = e - a + 1 /\ \A i \in a..e : f[i] = c
  BY DEF AllSame
<1> DEFINE T == {k \in Nat : k <= n => Sum(f, a .. a + k - 1) = c * k}
<1>1. 0 \in T
  <2>1. a .. a + 0 - 1 = {}
    OBVIOUS
  <2>2. Sum(f, a .. a + 0 - 1) = 0
    BY <2>1, SumEmpty, Zenon
  <2> QED
    BY <2>2
<1>2. ASSUME NEW k \in T PROVE k + 1 \in T
  <2>1. k \in Nat /\ k + 1 \in Nat
    OBVIOUS
  <2>2. ASSUME k + 1 <= n PROVE Sum(f, a .. a + (k + 1) - 1) = c * (k + 1)
    <3>1. PICK b \in Int : b = a + k
      BY <2>1
    <3>2. a <= b /\ a + (k + 1) - 1 = b /\ a + k - 1 = b - 1 /\ b \in a .. a + n - 1
      BY <2>1, <2>2, <3>1
    <3>3. \A x \in a..b : f[x] = c /\ f[x] \in Int
      BY <1>0, <2>1, <2>2, <3>1
    <3>4. Sum(f, a..b) = Sum(f, a .. b - 1) + f[b]
      BY <3>2, <3>3, SumInterval
    <3>5. Sum(f, a .. b - 1) = c * k
      BY <2>1, <2>2, <3>2
    <3>6. c * (k + 1) = c * k + c
      BY <2>1
    <3> QED
      BY <3>2, <3>3, <3>4, <3>5, <3>6
  <2> QED
    BY <2>1, <2>2
<1>3. T \in SUBSET Nat
  OBVIOUS
<1> HIDE DEF T
<1>4. n \in T
  BY <1>1, <1>2, <1>3, Induction
<1>5. Sum(f, a .. a + n - 1) = c * n
  BY <1>4 DEF T
<1> QED
  BY <1>0, <1>5, Zenon

(* A quotient for each of count groups and one more for the first r. *)
Spread(f, count, q, r) == \A i \in 1..count : f[i] = q + IF i <= r THEN 1 ELSE 0

(* Sizes that are q, and one more for the first r of them, add up. *)
LEMMA SpreadSum ==
    ASSUME NEW f, NEW count \in Nat, NEW q \in Int, NEW r \in Nat, r <= count,
           Spread(f, count, q, r)
    PROVE  Sum(f, 1..count) = q * count + r
<1>1. PICK g : g = [i \in 1..count |-> q]
  OBVIOUS
<1>2. PICK h : h = [i \in 1..count |-> IF i <= r THEN 1 ELSE 0]
  OBVIOUS
<1>3. IsFiniteSet(1..count) /\ 1..r \in SUBSET (1..count) /\ IsFiniteSet(1..r)
  BY FS_Interval
<1>4. Sum(f, 1..count) = Sum(g, 1..count) + Sum(h, 1..count)
  <2>1. \A i \in 1..count : g[i] \in Int /\ h[i] \in Int /\ f[i] = g[i] + h[i]
    BY <1>1, <1>2 DEF Spread
  <2> QED
    BY <1>3, <2>1, SumPlus
<1>5. Sum(g, 1..count) = q * count
  <2>1. AllSame(g, 1, count, q)
    BY <1>1 DEF AllSame
  <2>2. Sum(g, 1..count) = q * (count - 1 + 1)
    BY <2>1, SumConst
  <2> QED
    BY <2>2
<1>6. Sum(h, 1..count) = Sum(h, 1..r)
  <2>1. \A i \in 1..count : h[i] \in Int
    BY <1>2
  <2>2. \A i \in (1..count) \ (1..r) : h[i] = 0
    BY <1>2
  <2> QED
    BY <1>3, <2>1, <2>2, SumZeroes
<1>7. Sum(h, 1..r) = r
  <2>1. AllSame(h, 1, r, 1)
    BY <1>2 DEF AllSame
  <2>2. Sum(h, 1..r) = 1 * (r - 1 + 1)
    BY <2>1, SumConst
  <2> QED
    BY <2>2
<1> QED
  BY <1>4, <1>5, <1>6, <1>7
-----------------------------------------------------------------------------
(***************************************************************************)
(* The partitions                                                          *)
(***************************************************************************)

(* What GroupColumn needs of a partition of n rows. *)
IsPartition(f, n) ==
    /\ f \in Seq(Nat \ {0}) /\ f # <<>>
    /\ Sum(f, 1..Len(f)) = n

(* A function on 1..count with positive values is a sequence. *)
LEMMA IsSequence ==
    ASSUME NEW f, NEW count \in Nat \ {0}, NEW n,
           f = [i \in 1..count |-> f[i]], \A i \in 1..count : f[i] \in Nat \ {0},
           Sum(f, 1..count) = n
    PROVE  IsPartition(f, n) /\ Len(f) = count
<1>1. f \in [1..count -> Nat \ {0}]
  OBVIOUS
<1>2. f \in Seq(Nat \ {0}) /\ Len(f) = count
  BY <1>1
<1>3. f # <<>>
  BY <1>2
<1> QED
  BY <1>2, <1>3 DEF IsPartition

(* An even partition: a row for each, and the remainder upfront. *)
LEMMA EvenPartition ==
    ASSUME NEW count \in Nat \ {0}, NEW n \in Nat \ {0}, count <= n
    PROVE  LET f == partition_groups_even(count, n)
           IN  /\ IsPartition(f, n)
               /\ \A i, j \in 1..Len(f) : f[i] - f[j] \in -1..1
<1> DEFINE f == partition_groups_even(count, n)
<1>1. PICK q, r \in Nat : q = n \div count /\ r = n % count /\ r < count /\ n = count * q + r
  BY Divided
<1>2. f = [i \in 1..count |-> q + IF i <= r THEN 1 ELSE 0]
  BY <1>1 DEF partition_groups_even
<1> HIDE DEF f
<1>3. f = [i \in 1..count |-> f[i]] /\ \A i \in 1..count : f[i] = q + IF i <= r THEN 1 ELSE 0
  BY <1>2
<1>4. q >= 1
  <2>1. SUFFICES ASSUME q = 0 PROVE FALSE
    OBVIOUS
  <2>2. count * q = 0
    BY <2>1
  <2> QED
    BY <1>1, <2>2
<1>5. \A i \in 1..count : f[i] \in Nat \ {0}
  BY <1>3, <1>4
<1>6. Sum(f, 1..count) = n
  <2>1. Spread(f, count, q, r)
    BY <1>3 DEF Spread
  <2>2. Sum(f, 1..count) = q * count + r
    BY <1>1, <2>1, SpreadSum
  <2> QED
    BY <1>1, <2>2
<1>7. IsPartition(f, n) /\ Len(f) = count
  BY <1>3, <1>5, <1>6, IsSequence
<1>8. \A i, j \in 1..Len(f) : f[i] - f[j] \in -1..1
  BY <1>3, <1>7
<1> QED
  BY <1>7, <1>8 DEF f

(* The truncated line stays below the line: count^2 times what it adds to  *)
(* the ones of the first k groups is at most k (k - 1) (rows - count).     *)
LEMMA LineBelow ==
    ASSUME NEW d \in Nat, NEW cc \in Nat \ {0}, NEW count \in Nat, NEW f,
           \A i \in 1..count : f[i] = (2 * (i - 1) * d) \div cc
    PROVE  \A k \in 0..count : /\ Sum(f, 1..k) \in Int
                               /\ cc * Sum(f, 1..k) <= (k * (k - 1)) * d
<1> DEFINE T == {k \in Nat : k <= count => /\ Sum(f, 1..k) \in Int
                                           /\ cc * Sum(f, 1..k) <= (k * (k - 1)) * d}
<1>1. 0 \in T
  <2>1. 1..0 = {}
    OBVIOUS
  <2>2. Sum(f, 1..0) = 0
    BY <2>1, SumEmpty, Zenon
  <2> QED
    BY <2>2
<1>2. ASSUME NEW k \in T PROVE k + 1 \in T
  <2>1. k \in Nat /\ k + 1 \in Nat
    OBVIOUS
  <2>2. ASSUME k + 1 <= count
        PROVE  /\ Sum(f, 1 .. k + 1) \in Int
               /\ cc * Sum(f, 1 .. k + 1) <= ((k + 1) * ((k + 1) - 1)) * d
    <3>1. PICK x \in Nat : x = 2 * k * d
      BY <2>1
    <3>2. PICK q \in Nat : q = x \div cc /\ cc * q <= x
      BY Divided
    <3>3. ASSUME NEW i \in 1 .. k + 1 PROVE f[i] \in Int
      <4>1. i \in 1..count /\ 2 * (i - 1) * d \in Nat
        BY <2>1, <2>2
      <4>2. PICK y \in Nat : y = 2 * (i - 1) * d
        BY <4>1
      <4>3. f[i] = y \div cc
        BY <4>1, <4>2
      <4> QED
        BY <4>3, Divided
    <3>4. f[k + 1] = q
      <4>1. k + 1 \in 1..count /\ (k + 1) - 1 = k
        BY <2>1, <2>2
      <4> QED
        BY <3>1, <3>2, <4>1
    <3>5. PICK b \in Int : b = k + 1 /\ b - 1 = k /\ 1 <= b
      BY <2>1
    <3>6. Sum(f, 1..b) = Sum(f, 1 .. b - 1) + f[b] /\ Sum(f, 1 .. b - 1) \in Int
          /\ Sum(f, 1..b) \in Int
      BY <3>3, <3>5, SumInterval
    <3>7. PICK s \in Int : s = Sum(f, 1..k)
      BY <3>5, <3>6
    <3>8. cc * s <= (k * (k - 1)) * d
      BY <2>1, <2>2, <3>7
    <3>9. Sum(f, 1 .. k + 1) = s + q
      BY <3>4, <3>5, <3>6, <3>7
    <3>10. cc * (s + q) = cc * s + cc * q
      OBVIOUS
    <3>11. ((k + 1) * ((k + 1) - 1)) * d = (k * (k - 1)) * d + 2 * k * d
      BY <2>1
    <3>12. PICK u, v, w \in Int : u = cc * s /\ v = cc * q /\ w = (k * (k - 1)) * d
      BY <2>1
    <3>13. u + v <= w + x
      BY <3>2, <3>8, <3>12
    <3> QED
      BY <3>1, <3>9, <3>10, <3>11, <3>12, <3>13
  <2> QED
    BY <2>1, <2>2
<1>3. T \in SUBSET Nat
  OBVIOUS
<1> HIDE DEF T
<1>4. \A k \in Nat : k \in T
  BY <1>1, <1>2, <1>3, Induction
<1> QED
  BY <1>4 DEF T

(* The truncated line takes no more rows than there are. *)
LEMMA LineFits ==
    ASSUME NEW d \in Nat, NEW count \in Nat \ {0}, NEW f,
           \A i \in 1..count : f[i] = (2 * (i - 1) * d) \div (count * count)
    PROVE  Sum(f, 1..count) \in Int /\ Sum(f, 1..count) <= d
<1>1. PICK cc \in Nat \ {0} : cc = count * count
  OBVIOUS
<1>2. \A i \in 1..count : f[i] = (2 * (i - 1) * d) \div cc
  BY <1>1
<1>3. \A k \in 0..count : Sum(f, 1..k) \in Int /\ cc * Sum(f, 1..k) <= (k * (k - 1)) * d
  BY <1>2, LineBelow
<1>4. PICK s \in Int : s = Sum(f, 1..count) /\ cc * s <= (count * (count - 1)) * d
  BY <1>3
<1>5. (count * (count - 1)) * d <= cc * d
  <2>1. count * (count - 1) = cc - count
    BY <1>1
  <2>2. (cc - count) * d = cc * d - count * d
    OBVIOUS
  <2>3. count * d >= 0 /\ count * d \in Int /\ cc * d \in Int
    OBVIOUS
  <2> QED
    BY <2>1, <2>2, <2>3
<1>6. s <= d
  <2>1. SUFFICES ASSUME d + 1 <= s PROVE FALSE
    OBVIOUS
  <2>2. cc * (d + 1) <= cc * s
    BY <2>1, Times
  <2>3. cc * (d + 1) = cc * d + cc
    OBVIOUS
  <2>4. PICK x, y, z \in Int : x = cc * d /\ y = cc * s /\ z = (count * (count - 1)) * d
    OBVIOUS
  <2>5. y <= z
    BY <1>4, <2>4
  <2>6. z <= x
    BY <1>5, <2>4
  <2>7. x + cc <= y
    BY <2>2, <2>3, <2>4
  <2> QED
    BY <2>4, <2>5, <2>6, <2>7
<1> QED
  BY <1>4, <1>6

(* Where the addition may come out low the line has gone up. *)
LEMMA LowIsUp ==
    ASSUME NEW count \in Nat \ {0}, NEW n \in Nat \ {0}, count <= n, NEW k \in Exact(count, n)
    PROVE  (2 * k * (n - count)) \div (count * count) >= 1
<1>1. k \in 1 .. count - 1 /\ n > count /\ (2 * k * (n - count)) % (count * count) = 0
  BY DEF Exact
<1>2. PICK d \in Nat \ {0} : d = n - count
  BY <1>1
<1>3. PICK cc \in Nat \ {0} : cc = count * count
  OBVIOUS
<1>4. PICK kd \in Nat \ {0} : kd = k * d
  BY <1>1
<1>5. PICK x \in Nat \ {0} : x = 2 * k * d
  <2>1. 2 * k * d = 2 * (k * d)
    BY <1>1
  <2> QED
    BY <1>4, <2>1
<1>6. PICK q, r \in Nat : q = x \div cc /\ r = x % cc /\ x = cc * q + r
  BY Divided
<1>7. r = 0
  BY <1>1, <1>2, <1>3, <1>5, <1>6
<1>8. q # 0
  <2>1. SUFFICES ASSUME q = 0 PROVE FALSE
    OBVIOUS
  <2>2. cc * q = 0
    BY <2>1
  <2> QED
    BY <1>6, <1>7, <2>2
<1> QED
  BY <1>2, <1>3, <1>5, <1>6, <1>8

(* A linear partition: the line, and the rows it leaves spread evenly. *)
LEMMA LinearPartition ==
    ASSUME NEW count \in Nat \ {0}, NEW n \in Nat \ {0}, count <= n,
           NEW low \in SUBSET Exact(count, n)
    PROVE  IsPartition(partition_groups_linear(count, n, low), n)
<1> DEFINE base == LinearBase(count, n, low)
           under == n - Sum(base, 1..count)
           f == partition_groups_linear(count, n, low)
<1>1. PICK d \in Nat : d = n - count
  OBVIOUS
<1>2. PICK line : line = [i \in 1..count |-> (2 * (i - 1) * d) \div (count * count)]
  OBVIOUS
<1>3. ASSUME NEW i \in 1..count PROVE line[i] \in Nat
  <2>1. line[i] = (2 * (i - 1) * d) \div (count * count)
    BY <1>2
  <2>2. 2 * (i - 1) * d \in Nat /\ count * count \in Nat \ {0}
    OBVIOUS
  <2> QED
    BY <2>1, <2>2, Divided
<1>4. Sum(line, 1..count) \in Int /\ Sum(line, 1..count) <= d
  BY <1>2, LineFits
<1>5. base = [i \in 1..count |-> 1 + line[i] - IF i - 1 \in low THEN 1 ELSE 0]
  BY <1>1, <1>2 DEF LinearBase, LinearSize
<1>6. ASSUME NEW i \in 1..count PROVE base[i] \in Nat \ {0} /\ base[i] <= 1 + line[i]
  <2>1. base[i] = 1 + line[i] - IF i - 1 \in low THEN 1 ELSE 0
    BY <1>5
  <2>2. CASE i - 1 \in low
    <3>1. i - 1 \in Exact(count, n)
      BY <2>2
    <3>2. (2 * (i - 1) * (n - count)) \div (count * count) >= 1
      BY <3>1, LowIsUp
    <3>3. line[i] >= 1
      BY <1>1, <1>2, <3>2
    <3> QED
      BY <1>3, <2>1, <2>2, <3>3
  <2>3. CASE i - 1 \notin low
    BY <1>3, <2>1, <2>3
  <2> QED
    BY <2>2, <2>3
<1>7. DOMAIN base = 1..count
  BY <1>5
<1> HIDE DEF base
<1>8. IsFiniteSet(1..count)
  BY FS_Interval
<1>9. Sum(base, 1..count) \in Int /\ Sum(base, 1..count) <= n
  <2>1. PICK one : one = [i \in 1..count |-> 1]
    OBVIOUS
  <2>2. PICK up : up = [i \in 1..count |-> 1 + line[i]]
    OBVIOUS
  <2>3. \A i \in 1..count : one[i] \in Int /\ line[i] \in Int /\ up[i] = one[i] + line[i]
    BY <1>3, <2>1, <2>2
  <2>4. Sum(up, 1..count) = Sum(one, 1..count) + Sum(line, 1..count)
    BY <1>8, <2>3, SumPlus
  <2>5. AllSame(one, 1, count, 1)
    BY <2>1 DEF AllSame
  <2>6. Sum(one, 1..count) = 1 * (count - 1 + 1)
    BY <2>5, SumConst
  <2>7. \A i \in 1..count : base[i] \in Int /\ up[i] \in Int /\ base[i] <= up[i]
    BY <1>3, <1>6, <2>2
  <2>8. Sum(base, 1..count) <= Sum(up, 1..count) /\ Sum(base, 1..count) \in Int
    BY <1>8, <2>7, SumLess
  <2> QED
    BY <1>1, <1>4, <2>4, <2>6, <2>8
<1>10. under \in Nat
  BY <1>9
<1> HIDE DEF under
<1>11. PICK q, r \in Nat : /\ q = under \div count /\ r = under % count /\ r < count
                           /\ under = count * q + r
  BY <1>10, Divided
<1>12. under = n - SumFunction(base)
  BY <1>7, Zenon DEF under, SumFunction, Sum
<1>13. f = [i \in 1..count |-> base[i] + q + IF i <= r THEN 1 ELSE 0]
  BY <1>11, <1>12 DEF partition_groups_linear, base
<1> HIDE DEF f
<1>14. f = [i \in 1..count |-> f[i]] /\ \A i \in 1..count : f[i] \in Nat \ {0}
  BY <1>6, <1>13
<1>15. Sum(f, 1..count) = n
  <2>1. PICK rest : rest = [i \in 1..count |-> q + IF i <= r THEN 1 ELSE 0]
    OBVIOUS
  <2>2. Spread(rest, count, q, r)
    BY <2>1 DEF Spread
  <2>3. Sum(rest, 1..count) = q * count + r
    BY <1>11, <2>2, SpreadSum
  <2>4. ASSUME NEW i \in 1..count
        PROVE  base[i] \in Int /\ rest[i] \in Int /\ f[i] = base[i] + rest[i]
    <3>1. base[i] \in Int
      BY <1>6
    <3>2. f[i] = base[i] + q + IF i <= r THEN 1 ELSE 0
      BY <1>13
    <3>3. rest[i] = q + IF i <= r THEN 1 ELSE 0
      BY <2>1
    <3> QED
      BY <3>1, <3>2, <3>3
  <2>5. Sum(f, 1..count) = Sum(base, 1..count) + Sum(rest, 1..count)
    BY <1>8, <2>4, SumPlus
  <2> QED
    BY <1>9, <1>11, <2>3, <2>5 DEF under
<1>16. IsPartition(f, n)
  BY <1>14, <1>15, IsSequence
<1> QED
  BY <1>16 DEF f

-----------------------------------------------------------------------------
(***************************************************************************)
(* Builders and row blocks                                                 *)
(***************************************************************************)

(* The combinations of style, size, early and next that occur. *)
LEMMA BuilderKinds ==
    ASSUME NEW c \in Builders
    PROVE  /\ c.style \in {"each", "inline", "template", "outside"}
           /\ c.size \in {Same, Varied, Counted} /\ c.early \in BOOLEAN
           /\ c.style = "each" => c.next \in {"never", "always", "within"}
           /\ c.style # "each" => c.next = "group"
           /\ c.early => c.size = Same \/ (c.size = Counted /\ c.style = "each")
           /\ c.size = Counted /\ c.style = "each" => c.early /\ c.next = "always"
           /\ c.size = Counted /\ c.style # "each" => c.style = "inline"
<1> DEFINE K == {Builder("each", Same, TRUE, "never"), Builder("each", Counted, TRUE, "always"),
                 Builder("each", Same, TRUE, "always"), Builder("each", Same, TRUE, "within"),
                 Builder("each", Varied, FALSE, "always"), Builder("inline", Counted, FALSE, "group"),
                 Builder("inline", Same, TRUE, "group"), Builder("inline", Varied, FALSE, "group"),
                 Builder("template", Varied, FALSE, "group"),
                 Builder("outside", Varied, FALSE, "group"), Builder("outside", Same, TRUE, "group")}
<1>1. c \in K
  BY Zenon DEF Builders,
     build_column_integer_fixed, build_column_u_integer_fixed, build_column_string_fixed,
     build_column_timestamp_fixed, build_column_datetime_fixed,
     build_column_string_unique, build_column_string_uuid, build_column_string_hash,
     build_column_timestamp_unique, build_column_datetime_unique,
     build_column_integer_random, build_column_integer_random_from,
     build_column_integer_random_upto, build_column_integer_random_range,
     build_column_u_integer_random, build_column_u_integer_random_from,
     build_column_u_integer_random_upto, build_column_u_integer_random_range,
     build_column_string_names_first, build_column_string_names_last,
     build_column_string_names_full,
     build_column_integer_unique_group, build_column_u_integer_unique_group,
     build_column_string_unique_group, build_column_string_hash_group,
     build_column_string_names_full_group,
     build_column_integer_random_group, build_column_integer_random_from_group,
     build_column_integer_random_upto_group, build_column_integer_random_range_group,
     build_column_u_integer_random_group, build_column_u_integer_random_from_group,
     build_column_u_integer_random_upto_group, build_column_u_integer_random_range_group,
     build_column_string_names_first_group, build_column_string_names_last_group,
     build_column_string_uuid_group, build_column_timestamp_unique_group,
     build_column_datetime_unique_group
<1>2. Same # Varied /\ Same # Counted /\ Varied # Counted
  BY DEF Same, Varied, Counted
<1>3. ASSUME NEW st, NEW sz, NEW e, NEW n, c = Builder(st, sz, e, n)
      PROVE  c.style = st /\ c.size = sz /\ c.early = e /\ c.next = n
  BY <1>3 DEF Builder
<1>4. \/ c.style = "each" /\ c.size = Same /\ c.early = TRUE /\ c.next = "never"
      \/ c.style = "each" /\ c.size = Counted /\ c.early = TRUE /\ c.next = "always"
      \/ c.style = "each" /\ c.size = Same /\ c.early = TRUE /\ c.next = "always"
      \/ c.style = "each" /\ c.size = Same /\ c.early = TRUE /\ c.next = "within"
      \/ c.style = "each" /\ c.size = Varied /\ c.early = FALSE /\ c.next = "always"
      \/ c.style = "inline" /\ c.size = Counted /\ c.early = FALSE /\ c.next = "group"
      \/ c.style = "inline" /\ c.size = Same /\ c.early = TRUE /\ c.next = "group"
      \/ c.style = "inline" /\ c.size = Varied /\ c.early = FALSE /\ c.next = "group"
      \/ c.style = "template" /\ c.size = Varied /\ c.early = FALSE /\ c.next = "group"
      \/ c.style = "outside" /\ c.size = Varied /\ c.early = FALSE /\ c.next = "group"
      \/ c.style = "outside" /\ c.size = Same /\ c.early = TRUE /\ c.next = "group"
  BY <1>1, <1>3, Zenon
<1>5. c.early \in BOOLEAN
  BY <1>4, Zenon
<1>6. c.early => c.size = Same \/ (c.size = Counted /\ c.style = "each")
  BY <1>4, Zenon
<1>7. c.size = Counted /\ c.style = "each" => c.early /\ c.next = "always"
  BY <1>2, <1>4, ZenonT(60)
<1>8. /\ c.style \in {"each", "inline", "template", "outside"}
      /\ c.size \in {Same, Varied, Counted}
      /\ c.style = "each" => c.next \in {"never", "always", "within"}
      /\ c.style # "each" => c.next = "group"
      /\ c.size = Counted /\ c.style # "each" => c.style = "inline"
  BY <1>2, <1>4
<1> QED
  BY <1>5, <1>6, <1>7, <1>8, Zenon

(* The sizes differ. *)
LEMMA SizesDiffer == Same # Varied /\ Same # Counted /\ Varied # Counted
  BY DEF Same, Varied, Counted

(* Row blocks have rows, and follow each other up to the last row. *)
LEMMA BlocksFollow ==
    ASSUME rows \in Nat \ {0}, max \in Nat \ {0}
    PROVE  /\ Blocks \in Nat \ {0}
           /\ \A b \in Nat \ {0} : /\ RowsOf(b) \in Nat \ {0} /\ Start(b) \in Nat
                                   /\ Start(b + 1) = Start(b) + RowsOf(b)
           /\ Start(1) = 0 /\ Start(Blocks) + RowsOf(Blocks) = rows
           /\ \A a, b \in Nat \ {0} : a < b => Start(a) + RowsOf(a) <= Start(b)
           /\ \A b \in 1..Blocks : Start(b) + RowsOf(b) <= rows
<1>1. PICK d, r \in Nat : d = rows \div max /\ r = rows % max /\ r < max /\ rows = max * d + r
  BY Divided
<1>2. PICK first \in Nat \ {0} : first = IF r > 0 THEN r ELSE max
  OBVIOUS
<1>3. Blocks = d + IF r > 0 THEN 1 ELSE 0
  BY <1>1 DEF Blocks, BlockCount
<1>4. \A b : RowsOf(b) = IF b = 1 THEN first ELSE max
  BY <1>1, <1>2 DEF RowsOf, BlockRows
<1>5. Blocks \in Nat \ {0} /\ first + max * (Blocks - 1) = rows
  <2>1. CASE r > 0
    <3>1. Blocks = d + 1 /\ Blocks - 1 = d /\ first = r
      BY <1>2, <1>3, <2>1
    <3> QED
      BY <1>1, <3>1
  <2>2. CASE r = 0
    <3>1. d # 0
      <4>1. SUFFICES ASSUME d = 0 PROVE FALSE
        OBVIOUS
      <4>2. max * d = 0
        BY <4>1
      <4> QED
        BY <1>1, <2>2, <4>2
    <3>2. max * (d - 1) = max * d - max
      OBVIOUS
    <3> QED
      BY <1>1, <1>2, <1>3, <2>2, <3>1, <3>2
  <2> QED
    BY <2>1, <2>2
<1>6. \A b \in Int : Start(b) = IF b = 1 THEN 0 ELSE first + (b - 2) * max
  BY <1>4 DEF Start
<1>7. ASSUME NEW b \in Nat \ {0}
      PROVE  /\ RowsOf(b) \in Nat \ {0} /\ Start(b) \in Nat
             /\ Start(b + 1) = Start(b) + RowsOf(b)
  <2>1. RowsOf(b) \in Nat \ {0}
    BY <1>4
  <2>2. CASE b = 1
    <3>1. Start(b) = 0 /\ Start(b + 1) = first + (2 - 2) * max /\ RowsOf(b) = first
      BY <1>4, <1>6, <2>2
    <3> QED
      BY <2>1, <3>1
  <2>3. CASE b # 1
    <3>1. PICK k \in Nat : b = k + 2
      BY <2>3
    <3>2. /\ Start(b) = first + (b - 2) * max /\ Start(b + 1) = first + ((b + 1) - 2) * max
          /\ RowsOf(b) = max /\ b - 2 = k /\ (b + 1) - 2 = k + 1
      BY <1>4, <1>6, <2>3, <3>1
    <3>3. (k + 1) * max = k * max + max /\ k * max \in Nat
      OBVIOUS
    <3>4. Start(b) = first + k * max /\ Start(b + 1) = first + (k + 1) * max
      BY <3>2, Zenon
    <3> QED
      BY <2>1, <3>2, <3>3, <3>4
  <2> QED
    BY <2>2, <2>3
<1>8. ASSUME NEW a \in Nat \ {0}, NEW b \in Nat \ {0}, a < b
      PROVE  Start(a) + RowsOf(a) <= Start(b)
  <2>1. PICK k \in Nat, j \in Nat : a + 1 = k + 2 /\ b = j + 2 /\ k <= j
    BY <1>8
  <2>2. /\ Start(a + 1) = first + ((a + 1) - 2) * max /\ (a + 1) - 2 = k
        /\ Start(b) = first + (b - 2) * max /\ b - 2 = j
    BY <1>6, <1>8, <2>1
  <2>3. max * k <= max * j
    BY <2>1, Times
  <2>4. Start(a + 1) = first + k * max /\ Start(b) = first + j * max
    BY <2>2, Zenon
  <2>5. Start(a + 1) <= Start(b)
    BY <2>3, <2>4
  <2> QED
    BY <1>7, <2>5
<1>9. Start(Blocks) + RowsOf(Blocks) = rows
  <2>1. CASE Blocks = 1
    BY <1>4, <1>5, <1>6, <2>1
  <2>2. CASE Blocks # 1
    <3>1. PICK k \in Nat : Blocks = k + 2
      BY <1>5, <2>2
    <3>2. /\ Start(Blocks) = first + (Blocks - 2) * max /\ Blocks - 2 = k
          /\ RowsOf(Blocks) = max
      BY <1>4, <1>6, <2>2, <3>1
    <3>3. max * (Blocks - 1) = k * max + max
      BY <3>1
    <3> QED
      BY <1>5, <3>2, <3>3
  <2> QED
    BY <2>1, <2>2
<1>10. Start(1) = 0
  BY <1>6
<1>11. ASSUME NEW b \in 1..Blocks PROVE Start(b) + RowsOf(b) <= rows
  <2>1. CASE b = Blocks
    BY <1>5, <1>7, <1>9, <2>1
  <2>2. CASE b # Blocks
    <3>1. Start(b) + RowsOf(b) <= Start(Blocks)
      BY <1>5, <1>8, <2>2
    <3>2. /\ Start(b) \in Nat /\ RowsOf(b) \in Nat
          /\ Start(Blocks) \in Nat /\ RowsOf(Blocks) \in Nat
      BY <1>5, <1>7
    <3> QED
      BY <1>9, <3>1, <3>2
  <2> QED
    BY <2>1, <2>2
<1> QED
  BY <1>5, <1>7, <1>8, <1>9, <1>10, <1>11

-----------------------------------------------------------------------------
(***************************************************************************)
(* Values, widths and groups                                               *)
(***************************************************************************)

(* The bytes of a count grow with it. *)
LEMMA MagSize ==
    ASSUME NEW v \in Int
    PROVE  Mag(v) \in 0..7 /\ counter_size_mag_upto(v) = Mag(v) + 2
<1>1. PICK m \in 0..7 : m = Mag(v)
  BY SizeTables DEF Mag
<1>2. counter_size_mag_upto(v) = SIZE_MAG_STR[m + 1]
  BY <1>1 DEF counter_size_mag_upto
<1> QED
  BY SMT, <1>1, <1>2, SizeTables

(* A larger number has no fewer digits. *)
LEMMA MagGrows ==
    ASSUME NEW u \in Int, NEW v \in Int, u <= v
    PROVE  counter_size_mag_upto(u) <= counter_size_mag_upto(v)
<1>1. Mag(u) <= Mag(v)
  BY SizeTables DEF Mag
<1> QED
  BY <1>1, MagSize

(* A value has the bytes its builder allows. *)
LEMMA WidthFacts ==
    ASSUME col \in Builders, NEW v \in Nat \ {0}, NEW w \in Widths(v)
    PROVE  /\ w \in Nat
           /\ col.size = Same => w = SizeMax
           /\ col.size # Counted => w <= SizeMax
           /\ col.size = Counted => w = Base + counter_size_mag_upto(v)
<1>1. counter_size_mag_upto(v) \in Nat
  BY MagSize
<1>2. CASE col.size = Same
  BY <1>2, WidthAssumption, SizesDiffer DEF Widths
<1>3. CASE col.size = Varied
  BY <1>3, WidthAssumption, SizesDiffer DEF Widths
<1>4. CASE col.size = Counted
  BY <1>1, <1>4, WidthAssumption, SizesDiffer DEF Widths
<1> QED
  BY <1>2, <1>3, <1>4, BuilderKinds

(* The rows of the first groups. *)
LEMMA RowsToFacts ==
    ASSUME sizes \in Seq(Nat \ {0})
    PROVE  /\ RowsTo(0) = 0
           /\ \A g \in 0..Len(sizes) : RowsTo(g) \in Nat
           /\ \A g \in 1..Len(sizes) : RowsTo(g) = RowsTo(g - 1) + sizes[g]
           /\ \A g, h \in 0..Len(sizes) : g <= h => RowsTo(g) <= RowsTo(h)
<1>1. ASSUME NEW g \in 0..Len(sizes), NEW h \in 0..Len(sizes), g <= h
      PROVE  RowsTo(g) <= RowsTo(h) /\ RowsTo(g) \in Nat
  <2>1. IsFiniteSet(1..h) /\ 1..g \in SUBSET (1..h)
    BY <1>1, FS_Interval
  <2>2. \A i \in 1..h : sizes[i] \in Nat
    OBVIOUS
  <2> QED
    BY <2>1, <2>2, SumPart DEF RowsTo
<1>2. RowsTo(0) = 0
  <2>1. 1..0 = {}
    OBVIOUS
  <2> QED
    BY <2>1, SumEmpty, Zenon DEF RowsTo
<1>3. ASSUME NEW g \in 1..Len(sizes) PROVE RowsTo(g) = RowsTo(g - 1) + sizes[g]
  <2>1. \A i \in 1..g : sizes[i] \in Int
    OBVIOUS
  <2>2. 1 <= g /\ 1 \in Int /\ g \in Int
    OBVIOUS
  <2> QED
    BY <2>1, <2>2, SumInterval DEF RowsTo
<1> QED
  BY <1>1, <1>2, <1>3

-----------------------------------------------------------------------------
(***************************************************************************)
(* The invariant holds initially                                           *)
(***************************************************************************)

(* What the partitioners return. *)
LEMMA PartitionsPartition ==
    ASSUME NEW n \in Nat \ {0}, NEW count \in 1..n, NEW k \in {"even", "linear"},
           NEW f \in Partitions(k, count, n)
    PROVE  /\ IsPartition(f, n)
           /\ k = "even" => \A i, j \in 1..Len(f) : f[i] - f[j] \in -1..1
<1>1. count \in Nat \ {0} /\ count <= n
  OBVIOUS
<1>2. CASE k = "even"
  <2>1. f = partition_groups_even(count, n)
    BY <1>2 DEF Partitions
  <2> QED
    BY <1>1, <2>1, EvenPartition
<1>3. CASE k = "linear"
  <2>1. PICK low \in SUBSET Exact(count, n) : f = partition_groups_linear(count, n, low)
    BY <1>3 DEF Partitions
  <2> QED
    BY <1>1, <1>3, <2>1, LinearPartition
<1> QED
  BY <1>2, <1>3

(* A column starts with a partition of its rows. *)
LEMMA InitPartition ==
    ASSUME ColumnInit
    PROVE  /\ col \in Builders /\ rows \in Nat \ {0} /\ rows <= UPTO_MAX /\ max \in Nat \ {0}
           /\ PartitionInv
<1>1. col \in Builders
  BY DEF ColumnInit
<1>2. rows \in 1..MaxRows
  <2>1. rows \in 1..(IF col.size = Varied THEN MaxRandomRows ELSE MaxRows)
    BY DEF ColumnInit
  <2> QED
    BY <2>1, MaxRowsAssumption
<1>3. UPTO_MAX \in Nat
  BY SMT, UptoMax
<1>4. rows \in Nat \ {0} /\ rows <= UPTO_MAX
  BY <1>2, <1>3, MaxRowsAssumption
<1>5. max \in Nat \ {0}
  <2>1. PICK m \in rows..MaxRowCountMax : max = RowBlockRowCountMax(m)
    BY DEF ColumnInit
  <2>2. m \in Nat \ {0}
    BY <1>3, <1>4, MaxRowsAssumption
  <2>3. CASE m < COUNT_GENERATOR_WORKERS
    BY <2>1, <2>2, <2>3 DEF RowBlockRowCountMax
  <2>4. CASE ~(m < COUNT_GENERATOR_WORKERS)
    <3>1. PICK q, r \in Nat : /\ q = m \div COUNT_GENERATOR_WORKERS
                              /\ r < COUNT_GENERATOR_WORKERS
                              /\ m = COUNT_GENERATOR_WORKERS * q + r
      BY <2>2, Divided, WorkersAssumption
    <3>2. q # 0
      <4>1. SUFFICES ASSUME q = 0 PROVE FALSE
        OBVIOUS
      <4>2. COUNT_GENERATOR_WORKERS * q = 0
        BY <4>1, WorkersAssumption
      <4> QED
        BY <2>4, <3>1, <4>2, WorkersAssumption
    <3> QED
      BY <2>1, <2>4, <3>1, <3>2 DEF RowBlockRowCountMax
  <2> QED
    BY <2>3, <2>4
<1>6. PartitionInv
  <2>1. CASE col.style = "each"
    BY <2>1 DEF ColumnInit, PartitionInv
  <2>2. CASE col.style # "each"
    <3>1. /\ kind \in {"even", "linear"}
          /\ \E count \in 1..rows : sizes \in Partitions(kind, count, rows)
      BY <2>2 DEF ColumnInit
    <3>2. PICK count \in 1..rows : sizes \in Partitions(kind, count, rows)
      BY <3>1
    <3>3. /\ IsPartition(sizes, rows)
          /\ kind = "even" => \A i, j \in 1..Len(sizes) : sizes[i] - sizes[j] \in -1..1
      BY <1>4, <3>1, <3>2, PartitionsPartition
    <3> QED
      BY <2>2, <3>3 DEF PartitionInv, IsPartition
  <2> QED
    BY <2>1, <2>2
<1> QED
  BY <1>1, <1>4, <1>5, <1>6

(* A value written n times. *)
LEMMA RepeatFacts ==
    ASSUME NEW v \in Nat \ {0}, NEW n \in Nat
    PROVE  /\ Repeat(v, n) \in Seq(Nat \ {0}) /\ Len(Repeat(v, n)) = n
           /\ \A i \in 1..n : Repeat(v, n)[i] = v
<1>1. Repeat(v, n) \in [1..n -> Nat \ {0}]
  BY DEF Repeat
<1>2. Repeat(v, n) \in Seq(Nat \ {0})
  BY <1>1
<1>3. DOMAIN Repeat(v, n) = 1..n
  BY DEF Repeat
<1> QED
  BY <1>2, <1>3 DEF Repeat

(* The allocation is a number. *)
LEMMA AllocatedType ==
    ASSUME col \in Builders, rows \in Nat \ {0}, rows <= UPTO_MAX, PartitionInv
    PROVE  Allocated \in Nat
<1>1. CASE col.size # Counted
  <2>1. SizeMax * rows \in Nat
    BY WidthAssumption
  <2> QED
    BY <1>1, <2>1 DEF Allocated
<1>2. CASE col.size = Counted /\ col.style = "each"
  <2>0. rows \in 1..UPTO_MAX
    BY SMT, UptoMax
  <2>1. counter_size_upto(rows) \in Nat
    BY <2>0, SizeStep
  <2>2. rows * Base \in Nat
    BY WidthAssumption
  <2> QED
    BY <1>2, <2>1, <2>2 DEF Allocated
<1>3. CASE col.size = Counted /\ col.style # "each"
  <2>1. Len(sizes) \in Nat
    BY <1>3 DEF PartitionInv
  <2>2. Base + counter_size_mag_upto(Len(sizes)) \in Nat
    BY <2>1, MagSize, WidthAssumption
  <2>3. (Base + counter_size_mag_upto(Len(sizes))) * rows \in Nat
    BY <2>2
  <2> QED
    BY <1>3, <2>3 DEF Allocated
<1> QED
  BY <1>1, <1>2, <1>3

(* The loops start at the first row. *)
LEMMA PlacesInit == ColumnInit => PlacesInv
<1> SUFFICES ASSUME ColumnInit PROVE PlacesInv
  OBVIOUS
<1>1. /\ col \in Builders /\ rows \in Nat \ {0} /\ rows <= UPTO_MAX /\ max \in Nat \ {0}
      /\ PartitionInv
  BY InitPartition
<1>2. PICK first \in {0, 1} : first = IF col.style = "inline" THEN 1 ELSE 0
  OBVIOUS
<1>3. /\ value = 1 /\ block = 1 /\ starts = <<1>> /\ pc = "loop"
      /\ total = [b \in 1..Blocks |-> 0]
      /\ remGroup = IF col.style = "each" THEN 0 ELSE sizes[1] - first
      /\ remCells = RowsOf(1) - first
      /\ cells = Repeat(1, first)
      /\ tableTotal = IF col.early THEN Allocated ELSE 0
  BY <1>2 DEF ColumnInit
<1>4. PICK w \in Widths(1) : widths = <<w>>
  BY DEF ColumnInit
<1>5. w \in Nat
  BY <1>1, <1>4, WidthFacts
<1>6. Blocks \in Nat \ {0} /\ RowsOf(1) \in Nat \ {0} /\ Start(1) = 0
  BY <1>1, BlocksFollow
<1>7. cells \in Seq(Nat \ {0}) /\ Len(cells) = first /\ \A i \in 1..first : cells[i] = 1
  BY <1>2, <1>3, RepeatFacts
<1>8. col.style # "each" => /\ sizes \in Seq(Nat \ {0}) /\ Len(sizes) \in Nat \ {0}
                            /\ sizes[1] \in Nat \ {0}
  <2>1. SUFFICES ASSUME col.style # "each"
                 PROVE  sizes \in Seq(Nat \ {0}) /\ Len(sizes) \in Nat \ {0} /\ sizes[1] \in Nat \ {0}
    OBVIOUS
  <2>2. sizes \in Seq(Nat \ {0}) /\ sizes # <<>>
    BY <1>1, <2>1 DEF PartitionInv
  <2>3. Len(sizes) \in Nat \ {0}
    BY <2>2
  <2> QED
    BY <2>2, <2>3
<1>9. ColumnTypes
  <2>1. remGroup \in Nat
    BY <1>2, <1>3, <1>8
  <2>2. remCells \in Nat
    BY <1>2, <1>3, <1>6
  <2>4. widths \in Seq(Nat) /\ Len(widths) = value /\ \A v \in 1..value : widths[v] \in Widths(v)
    BY <1>3, <1>4, <1>5
  <2>5. total = [b \in 1..Blocks |-> total[b]]
    BY <1>3
  <2>6. \A i \in 1..Len(cells) : cells[i] <= value
    BY <1>3, <1>7
  <2>7. starts \in Seq(Nat \ {0}) /\ block \in 1..Blocks
    BY <1>3, <1>6
  <2> QED
    BY <1>1, <1>3, <1>7, <2>1, <2>2, <2>4, <2>5, <2>6, <2>7 DEF ColumnTypes
<1>10. PlaceInv
  BY <1>2, <1>3, <1>6, <1>7 DEF PlaceInv
<1>11. GroupsInv
  <2>1. SUFFICES ASSUME col.style # "each"
                 PROVE  /\ value \in 1..Len(sizes)
                        /\ RowsTo(value - 1) <= Len(cells) /\ Len(cells) + remGroup = RowsTo(value)
                        /\ \A i \in 1..Len(cells) : RowsTo(cells[i] - 1) < i /\ i <= RowsTo(cells[i])
    BY DEF GroupsInv
  <2>2. RowsTo(0) = 0 /\ RowsTo(1) = RowsTo(0) + sizes[1]
    BY <1>8, <2>1, RowsToFacts
  <2> QED
    BY <1>2, <1>3, <1>7, <1>8, <2>1, <2>2
<1>12. EachInv
  <2>1. SUFFICES ASSUME col.style = "each" PROVE EachInv
    BY DEF EachInv
  <2>2. first = 0
    BY <1>2, <2>1
  <2> QED
    BY <1>3, <1>6, <1>7, <2>1, <2>2 DEF EachInv
<1> QED
  BY <1>1, <1>9, <1>10, <1>11, <1>12 DEF PlacesInv

(* A column starts with lengths that are right. *)
LEMMA TotalsInit == ColumnInit => TotalsInv
<1> SUFFICES ASSUME ColumnInit PROVE TotalsInv
  OBVIOUS
<1>1. /\ block = 1 /\ pc = "loop" /\ total = [b \in 1..Blocks |-> 0]
      /\ tableTotal = IF col.early THEN Allocated ELSE 0
  BY DEF ColumnInit
<1>2. \A b \in 1..Blocks : ~(b < 1)
  OBVIOUS
<1> QED
  BY <1>1, <1>2 DEF TotalsInv

-----------------------------------------------------------------------------
(***************************************************************************)
(* ... and is kept by every step                                           *)
(***************************************************************************)

(* What a step does not change. *)
LEMMA FixedKept ==
    ASSUME UNCHANGED fixedVars
    PROVE  /\ col' = col /\ rows' = rows /\ max' = max /\ kind' = kind /\ sizes' = sizes
           /\ Blocks' = Blocks /\ Allocated' = Allocated /\ PartitionInv' = PartitionInv
           /\ \A b : RowsOf(b)' = RowsOf(b) /\ Start(b)' = Start(b)
           /\ \A v : Widths(v)' = Widths(v) /\ RowsTo(v)' = RowsTo(v)
<1>1. col' = col /\ rows' = rows /\ max' = max /\ kind' = kind /\ sizes' = sizes
  BY DEF fixedVars
<1>2. Blocks' = Blocks
  BY <1>1 DEF Blocks
<1>3. \A b : RowsOf(b)' = RowsOf(b)
  BY <1>1 DEF RowsOf
<1>4. \A b : Start(b)' = Start(b)
  BY <1>1, <1>3 DEF Start
<1>5. \A v : Widths(v)' = Widths(v)
  BY <1>1 DEF Widths
<1>6. \A v : RowsTo(v)' = RowsTo(v)
  BY <1>1 DEF RowsTo
<1>7. Allocated' = Allocated
  BY <1>1 DEF Allocated
<1>8. PartitionInv' = PartitionInv
  BY <1>1 DEF PartitionInv
<1> QED
  BY <1>1, <1>2, <1>3, <1>4, <1>5, <1>6, <1>7, <1>8

(* t has the cells of s and k cells of value v. *)
Added(t, s, v, k) ==
    /\ t \in Seq(Nat \ {0}) /\ Len(t) = Len(s) + k
    /\ \A i \in 1..Len(s) : t[i] = s[i]
    /\ \A i \in Len(s) + 1 .. Len(s) + k : t[i] = v

(* Cells of one value are added to those written. *)
LEMMA AddCells ==
    ASSUME NEW s \in Seq(Nat \ {0}), NEW v \in Nat \ {0}, NEW k \in Nat
    PROVE  Added(s \o Repeat(v, k), s, v, k)
<1>1. PICK t : t = Repeat(v, k)
  OBVIOUS
<1>2. t \in Seq(Nat \ {0}) /\ Len(t) = k /\ \A i \in 1..k : t[i] = v
  BY <1>1, RepeatFacts
<1>3. /\ s \o t \in Seq(Nat \ {0}) /\ Len(s \o t) = Len(s) + k
      /\ \A i \in 1..Len(s) : (s \o t)[i] = s[i]
      /\ \A i \in Len(s) + 1 .. Len(s) + k : (s \o t)[i] = t[i - Len(s)] /\ i - Len(s) \in 1..k
  BY <1>2
<1> QED
  BY <1>1, <1>2, <1>3 DEF Added

(* The next value has its width. *)
LEMMA AdvanceFacts ==
    ASSUME ColumnTypes, Advance
    PROVE  /\ value' = value + 1 /\ widths' \in Seq(Nat) /\ Len(widths') = value'
           /\ \A v \in 1..value : widths'[v] = widths[v]
           /\ \A v \in 1..value' : widths'[v] \in Widths(v)
<1>1. /\ col \in Builders /\ value \in Nat \ {0} /\ widths \in Seq(Nat) /\ Len(widths) = value
      /\ \A v \in 1..value : widths[v] \in Widths(v)
  BY DEF ColumnTypes
<1>2. PICK w \in Widths(value + 1) : widths' = Append(widths, w)
  BY DEF Advance
<1>3. value' = value + 1
  BY DEF Advance
<1>4. w \in Nat
  BY <1>1, <1>2, WidthFacts
<1>5. /\ widths' \in Seq(Nat) /\ Len(widths') = value + 1
      /\ \A v \in 1..value : widths'[v] = widths[v]
      /\ widths'[value + 1] = w
  BY <1>1, <1>2, <1>4
<1>6. ASSUME NEW v \in 1 .. value + 1 PROVE widths'[v] \in Widths(v)
  <2>1. CASE v = value + 1
    BY <1>2, <1>5, <2>1
  <2>2. CASE v # value + 1
    <3>1. v \in 1..value
      BY <1>1, <2>2
    <3> QED
      BY <1>1, <1>5, <3>1
  <2> QED
    BY <2>1, <2>2
<1> QED
  BY <1>3, <1>5, <1>6

(* The same facts, whether the value moves on or stays. *)
ValueKept ==
    /\ value' \in Nat \ {0} /\ value <= value'
    /\ widths' \in Seq(Nat) /\ Len(widths') = value'
    /\ \A v \in 1..value : widths'[v] = widths[v]
    /\ \A v \in 1..value' : widths'[v] \in Widths(v)

(* The values formed so far keep their widths when the next is formed. *)
LEMMA ValueMoves ==
    ASSUME ColumnTypes, Advance \/ UNCHANGED <<value, widths>>
    PROVE  ValueKept
<1>1. value \in Nat \ {0}
  BY DEF ColumnTypes
<1>2. CASE Advance
  <2>1. /\ value' = value + 1 /\ widths' \in Seq(Nat) /\ Len(widths') = value'
        /\ \A v \in 1..value : widths'[v] = widths[v]
        /\ \A v \in 1..value' : widths'[v] \in Widths(v)
    BY <1>2, AdvanceFacts
  <2> QED
    BY <1>1, <2>1 DEF ValueKept
<1>3. CASE UNCHANGED <<value, widths>>
  BY <1>1, <1>3 DEF ValueKept, ColumnTypes
<1> QED
  BY <1>2, <1>3

(* Cells are added, none is changed. *)
CellsKept ==
    /\ cells' \in Seq(Nat \ {0}) /\ Len(cells) <= Len(cells')
    /\ \A i \in 1..Len(cells) : cells'[i] = cells[i]
    /\ \A i \in 1..Len(cells') : cells'[i] <= value'

(* A step inside a row block keeps the types and the place. *)
LEMMA InsideBlock ==
    ASSUME PlacesInv, UNCHANGED fixedVars, UNCHANGED <<block, starts, total, pc>>, pc = "loop",
           ValueKept, CellsKept, remGroup' \in Nat, remCells' \in Nat,
           Len(cells') + remCells' = Len(cells) + remCells
    PROVE  ColumnTypes' /\ PartitionInv' /\ PlaceInv'
<1>1. /\ col' = col /\ rows' = rows /\ max' = max /\ Blocks' = Blocks
      /\ PartitionInv' = PartitionInv
      /\ \A b : RowsOf(b)' = RowsOf(b) /\ Start(b)' = Start(b)
      /\ \A v : Widths(v)' = Widths(v)
  BY FixedKept
<1>2. PartitionInv'
  BY <1>1 DEF PlacesInv
<1>3. block' = block /\ starts' = starts /\ total' = total /\ pc' = pc
  OBVIOUS
<1>4. ColumnTypes'
  BY <1>1, <1>3 DEF PlacesInv, ColumnTypes, ValueKept, CellsKept
<1>5. PlaceInv'
  <2>1. Start(block) \in Nat /\ Len(cells) \in Nat /\ Len(cells') \in Nat
    <3>1. /\ block \in 1..Blocks /\ rows \in Nat \ {0} /\ max \in Nat \ {0}
          /\ cells \in Seq(Nat \ {0}) /\ cells' \in Seq(Nat \ {0})
      BY DEF PlacesInv, ColumnTypes, CellsKept
    <3>2. Blocks \in Nat \ {0} /\ \A b \in Nat \ {0} : Start(b) \in Nat
      BY <3>1, BlocksFollow
    <3>3. block \in Nat \ {0}
      BY <3>1, <3>2
    <3> QED
      BY <3>1, <3>2, <3>3
  <2> QED
    BY <1>1, <1>3, <2>1 DEF PlacesInv, PlaceInv, CellsKept
<1> QED
  BY <1>2, <1>4, <1>5

(* One cell of a column without groups. *)
LEMMA CellPlaces ==
    ASSUME PlacesInv, NextCell
    PROVE  PlacesInv' /\ ValueKept /\ CellsKept
<1>1. /\ pc = "loop" /\ col.style = "each" /\ remCells > 0
      /\ cells' = Append(cells, value) /\ remCells' = remCells - 1
      /\ Advance \/ UNCHANGED <<value, widths>>
      /\ UNCHANGED fixedVars /\ UNCHANGED <<block, starts, total, pc>> /\ remGroup' = remGroup
  BY DEF NextCell
<1>2. ColumnTypes /\ EachInv /\ PlaceInv
  BY DEF PlacesInv
<1>3. ValueKept
  BY <1>1, <1>2, ValueMoves
<1>4. /\ cells \in Seq(Nat \ {0}) /\ value \in Nat \ {0} /\ remCells \in Nat /\ block \in Nat \ {0}
      /\ rows \in Nat \ {0} /\ max \in Nat \ {0} /\ Len(cells) \in Nat
  BY <1>2, BlocksFollow DEF ColumnTypes
<1>5. /\ cells' \in Seq(Nat \ {0}) /\ Len(cells') = Len(cells) + 1
      /\ \A i \in 1..Len(cells) : cells'[i] = cells[i]
      /\ cells'[Len(cells) + 1] = value
  BY <1>1, <1>4
<1>6. CellsKept
  <2>1. ASSUME NEW i \in 1..Len(cells') PROVE cells'[i] <= value'
    <3>1. value <= value' /\ value' \in Nat
      BY <1>3 DEF ValueKept
    <3>2. CASE i = Len(cells) + 1
      BY <1>5, <3>1, <3>2
    <3>3. CASE i # Len(cells) + 1
      <4>1. i \in 1..Len(cells)
        BY <1>4, <1>5, <3>3
      <4>2. cells'[i] = cells[i] /\ cells[i] <= value /\ cells[i] \in Nat
        BY <1>2, <1>4, <1>5, <4>1 DEF ColumnTypes
      <4> QED
        BY <1>4, <3>1, <4>2
    <3> QED
      BY <3>2, <3>3
  <2> QED
    BY <1>4, <1>5, <2>1 DEF CellsKept
<1>7. ColumnTypes' /\ PartitionInv' /\ PlaceInv'
  <2>1. remCells' \in Nat /\ remGroup' \in Nat /\ Len(cells') + remCells' = Len(cells) + remCells
    BY <1>1, <1>2, <1>4, <1>5 DEF ColumnTypes
  <2> QED
    BY <1>1, <1>3, <1>6, <2>1, InsideBlock
<1>8. GroupsInv'
  <2>1. col' = col
    BY <1>1, FixedKept
  <2> QED
    BY <1>1, <2>1 DEF GroupsInv
<1>9. EachInv'
  <2>1. col' = col /\ \A b : RowsOf(b)' = RowsOf(b) /\ Start(b)' = Start(b)
    BY <1>1, FixedKept
  <2>2. remGroup' = 0 /\ pc' = "loop"
    BY <1>1, <1>2 DEF EachInv
  <2>3. ASSUME col.next = "never"
        PROVE  value' = 1 /\ \A i \in 1..Len(cells') : cells'[i] = 1
    <3>1. value' = value
      BY <2>3 DEF NextCell
    <3>2. value = 1 /\ \A i \in 1..Len(cells) : cells[i] = 1
      BY <1>1, <1>2, <2>3 DEF EachInv
    <3> QED
      BY <1>4, <1>5, <3>1, <3>2
  <2>4. ASSUME col.next = "always"
        PROVE  value' = Len(cells') + 1 /\ \A i \in 1..Len(cells') : cells'[i] = i
    <3>1. value' = value + 1
      BY <2>4 DEF NextCell, Advance
    <3>2. value = Len(cells) + 1 /\ \A i \in 1..Len(cells) : cells[i] = i
      BY <1>1, <1>2, <2>4 DEF EachInv
    <3> QED
      BY <1>4, <1>5, <3>1, <3>2
  <2>5. ASSUME col.next = "within"
        PROVE  /\ value' = Len(cells') - (block - 1) + IF remCells' > 0 THEN 1 ELSE 0
               /\ \A b \in 1..block : \A i \in 1..Len(cells') :
                    i > Start(b) /\ i <= Start(b) + RowsOf(b) => cells'[i] = i - (b - 1)
    <3>1. value' = IF remCells > 1 THEN value + 1 ELSE value
      BY <2>5 DEF NextCell, Advance
    <3>2. value = Len(cells) - (block - 1) + 1
      BY <1>1, <1>2, <2>5 DEF EachInv
    <3>3. value' = Len(cells') - (block - 1) + IF remCells' > 0 THEN 1 ELSE 0
      BY <1>1, <1>4, <1>5, <3>1, <3>2
    <3>4. ASSUME NEW b \in 1..block, NEW i \in 1..Len(cells'),
                 i > Start(b), i <= Start(b) + RowsOf(b)
          PROVE  cells'[i] = i - (b - 1)
      <4>1. CASE i \in 1..Len(cells)
        BY <1>1, <1>2, <1>5, <2>5, <3>4, <4>1 DEF EachInv
      <4>2. CASE i = Len(cells) + 1
        <5>1. b = block
          <6>1. SUFFICES ASSUME b < block PROVE FALSE
            BY <1>4
          <6>0. b \in Nat \ {0} /\ rows \in Nat \ {0} /\ max \in Nat \ {0}
            BY <1>4
          <6>2. /\ Start(b) + RowsOf(b) <= Start(block) /\ Start(b) \in Nat /\ RowsOf(b) \in Nat
                /\ Start(block) \in Nat
            BY <1>4, <6>0, <6>1, BlocksFollow
          <6>3. Start(block) <= Len(cells)
            BY <1>2 DEF PlaceInv
          <6> QED
            BY <1>4, <3>4, <4>2, <6>2, <6>3
        <5> QED
          BY <1>4, <1>5, <3>2, <4>2, <5>1
      <4> QED
        BY <1>4, <1>5, <4>1, <4>2
    <3> QED
      BY <3>3, <3>4
  <2>6. block' = block
    BY <1>1
  <2> QED
    BY <2>1, <2>2, <2>3, <2>4, <2>5, <2>6 DEF EachInv
<1> QED
  BY <1>3, <1>6, <1>7, <1>8, <1>9 DEF PlacesInv

(* What PlacesInv says of the numbers. *)
LEMMA Numbers ==
    ASSUME PlacesInv
    PROVE  /\ col \in Builders /\ rows \in Nat \ {0} /\ max \in Nat \ {0} /\ rows <= UPTO_MAX
           /\ value \in Nat \ {0} /\ remGroup \in Nat /\ remCells \in Nat
           /\ Blocks \in Nat \ {0} /\ block \in 1..Blocks /\ block \in Nat \ {0}
           /\ cells \in Seq(Nat \ {0}) /\ Len(cells) \in Nat
           /\ Start(block) \in Nat /\ RowsOf(block) \in Nat \ {0}
           /\ Start(block) + RowsOf(block) <= rows
           /\ Start(block) <= Len(cells) /\ Len(cells) <= rows
           /\ pc = "loop" => Len(cells) + remCells = Start(block) + RowsOf(block)
<1>1. /\ col \in Builders /\ rows \in Nat \ {0} /\ max \in Nat \ {0} /\ rows <= UPTO_MAX
      /\ value \in Nat \ {0} /\ remGroup \in Nat /\ remCells \in Nat
      /\ block \in 1..Blocks /\ cells \in Seq(Nat \ {0}) /\ pc \in {"loop", "done"}
  BY DEF PlacesInv, ColumnTypes
<1>2. Blocks \in Nat \ {0} /\ \A b \in 1..Blocks : Start(b) + RowsOf(b) <= rows
  BY <1>1, BlocksFollow
<1>3. block \in Nat \ {0} /\ Len(cells) \in Nat
  BY <1>1, <1>2
<1>4. Start(block) \in Nat /\ RowsOf(block) \in Nat \ {0}
  BY <1>1, <1>3, BlocksFollow
<1>5. /\ Start(block) <= Len(cells)
      /\ pc = "loop" => Len(cells) + remCells = Start(block) + RowsOf(block)
      /\ pc = "done" => Len(cells) = rows
  BY <1>1 DEF PlacesInv, PlaceInv
<1>6. Start(block) + RowsOf(block) <= rows
  BY <1>1, <1>2
<1>7. Len(cells) <= rows
  BY <1>1, <1>3, <1>4, <1>5, <1>6
<1> QED
  BY <1>1, <1>2, <1>3, <1>4, <1>5, <1>6, <1>7

(* A group is finished and the next one begun. *)
LEMMA GroupPlaces ==
    ASSUME PlacesInv, NextGroup
    PROVE  PlacesInv' /\ ValueKept /\ CellsKept
<1>1. PICK first \in {0, 1} : first = IF col.style = "outside" THEN 0 ELSE 1
  OBVIOUS
<1>2. /\ pc = "loop" /\ col.style # "each" /\ remCells > remGroup
      /\ remCells' = remCells - (remGroup + first)
      /\ cells' = cells \o Repeat(value, remGroup) \o Repeat(value + 1, first)
      /\ remGroup' = IF value < Len(sizes) THEN sizes[value + 1] - first ELSE 0
      /\ Advance
      /\ UNCHANGED fixedVars /\ UNCHANGED <<block, starts, total, pc>>
  BY <1>1 DEF NextGroup
<1>3. ColumnTypes /\ PartitionInv /\ PlaceInv /\ GroupsInv
  BY DEF PlacesInv
<1>4. /\ rows \in Nat \ {0} /\ value \in Nat \ {0} /\ remGroup \in Nat /\ remCells \in Nat
      /\ cells \in Seq(Nat \ {0}) /\ Len(cells) \in Nat
      /\ Start(block) \in Nat /\ RowsOf(block) \in Nat \ {0}
      /\ Start(block) + RowsOf(block) <= rows
      /\ Len(cells) + remCells = Start(block) + RowsOf(block)
  BY <1>2, Numbers
<1>5. /\ sizes \in Seq(Nat \ {0}) /\ RowsTo(Len(sizes)) = rows
  BY <1>2, <1>3 DEF PartitionInv, RowsTo
<1>6. /\ value \in 1..Len(sizes) /\ Len(sizes) \in Nat
      /\ RowsTo(value - 1) <= Len(cells) /\ Len(cells) + remGroup = RowsTo(value)
      /\ \A i \in 1..Len(cells) : RowsTo(cells[i] - 1) < i /\ i <= RowsTo(cells[i])
  BY <1>2, <1>3, <1>5 DEF GroupsInv
<1>7. value < Len(sizes)
  <2>1. SUFFICES ASSUME value = Len(sizes) PROVE FALSE
    BY <1>6
  <2>2. RowsTo(value) = rows
    BY <1>5, <2>1
  <2> QED
    BY <1>2, <1>4, <1>6, <2>2
<1>8. /\ value - 1 \in 0..Len(sizes) /\ value \in 0..Len(sizes) /\ value + 1 \in 1..Len(sizes)
      /\ (value + 1) - 1 = value
  BY <1>6, <1>7
<1>9. /\ RowsTo(value - 1) \in Nat /\ RowsTo(value) \in Nat
      /\ RowsTo(value + 1) = RowsTo(value) + sizes[value + 1] /\ sizes[value + 1] \in Nat \ {0}
  BY <1>5, <1>8, RowsToFacts
<1>10. PICK n, m \in Nat : n = Len(cells) /\ m = n + remGroup /\ m = RowsTo(value)
  BY <1>4, <1>6
<1>11. /\ cells' \in Seq(Nat \ {0}) /\ Len(cells') = m + first
       /\ \A i \in 1..n : cells'[i] = cells[i]
       /\ \A i \in n + 1 .. m : cells'[i] = value
       /\ \A i \in m + 1 .. m + first : cells'[i] = value + 1
  <2>1. PICK s : s = cells \o Repeat(value, remGroup)
    OBVIOUS
  <2>2. value + 1 \in Nat \ {0} /\ first \in Nat
    BY <1>4
  <2>3. Added(s, cells, value, remGroup)
    BY <1>4, <2>1, AddCells
  <2>4. /\ s \in Seq(Nat \ {0}) /\ Len(s) = m
        /\ \A i \in 1..n : s[i] = cells[i]
        /\ \A i \in n + 1 .. m : s[i] = value
    BY <1>10, <2>3 DEF Added
  <2>5. Added(cells', s, value + 1, first)
    BY <1>2, <2>1, <2>2, <2>4, AddCells
  <2>6. /\ cells' \in Seq(Nat \ {0}) /\ Len(cells') = m + first
        /\ \A i \in 1..m : cells'[i] = s[i]
        /\ \A i \in m + 1 .. m + first : cells'[i] = value + 1
    BY <2>4, <2>5 DEF Added
  <2>7. \A i \in 1..n : i \in 1..m
    BY <1>4, <1>10
  <2>8. \A i \in n + 1 .. m : i \in 1..m
    OBVIOUS
  <2> QED
    BY <2>4, <2>6, <2>7, <2>8
<1>12. ASSUME NEW i \in 1..Len(cells')
       PROVE  \/ i \in 1..n
              \/ i \in n + 1 .. m
              \/ i = m + 1 /\ first = 1 /\ i \in m + 1 .. m + first
  <2>1. i \in 1 .. m + first
    BY <1>11
  <2> QED
    BY <2>1
<1>13. value' = value + 1 /\ ValueKept
  BY <1>2, <1>3, AdvanceFacts, ValueMoves
<1>14. CellsKept
  <2>1. ASSUME NEW i \in 1..Len(cells') PROVE cells'[i] <= value'
    <3>1. CASE i \in 1..n
      <4>1. cells'[i] = cells[i] /\ cells[i] <= value /\ cells[i] \in Nat
        <5>1. \A j \in 1..Len(cells) : cells[j] <= value
          BY <1>3 DEF ColumnTypes
        <5> QED
          BY <1>4, <1>10, <1>11, <3>1, <5>1
      <4> QED
        BY <1>4, <1>13, <4>1
    <3>2. CASE i \in n + 1 .. m
      BY <1>4, <1>11, <1>13, <3>2
    <3>3. CASE i = m + 1 /\ first = 1 /\ i \in m + 1 .. m + first
      BY <1>4, <1>11, <1>13, <3>3
    <3> QED
      BY <1>12, <3>1, <3>2, <3>3
  <2> QED
    BY <1>4, <1>10, <1>11, <2>1 DEF CellsKept
<1>15. ColumnTypes' /\ PartitionInv' /\ PlaceInv'
  <2>1. remCells' \in Nat
    BY <1>1, <1>2, <1>4
  <2>2. remGroup' \in Nat
    BY <1>2, <1>7, <1>9
  <2>3. Len(cells') + remCells' = Len(cells) + remCells
    <3>1. remCells' = remCells - (remGroup + first)
      BY <1>2
    <3>2. Len(cells') = m + first
      BY <1>11
    <3> QED
      BY <1>4, <1>10, <3>1, <3>2
  <2> QED
    BY <1>2, <1>13, <1>14, <2>1, <2>2, <2>3, InsideBlock
<1>16. GroupsInv'
  <2>1. col' = col /\ sizes' = sizes /\ \A g : RowsTo(g)' = RowsTo(g)
    BY <1>2, FixedKept
  <2>2. value' \in 1..Len(sizes) /\ value' - 1 = value
    BY <1>8, <1>13
  <2>3. RowsTo(value) <= Len(cells') /\ Len(cells') + remGroup' = RowsTo(value + 1)
    <3>1. remGroup' = sizes[value + 1] - first
      BY <1>2, <1>7
    <3>2. Len(cells') = m + first
      BY <1>11
    <3>3. PICK z \in Nat \ {0} : z = sizes[value + 1] /\ RowsTo(value + 1) = m + z
      BY <1>9, <1>10, Zenon
    <3>4. Len(cells') + remGroup' = (m + first) + (z - first) /\ RowsTo(value) = m
      BY <1>10, <3>1, <3>2, <3>3, Zenon
    <3>5. m <= m + first /\ (m + first) + (z - first) = m + z
      OBVIOUS
    <3> QED
      BY <3>2, <3>3, <3>4, <3>5, Zenon
  <2>4. ASSUME NEW i \in 1..Len(cells')
        PROVE  RowsTo(cells'[i] - 1) < i /\ i <= RowsTo(cells'[i])
    <3>1. CASE i \in 1..n
      BY <1>6, <1>10, <1>11, <3>1
    <3>2. CASE i \in n + 1 .. m
      <4>1. cells'[i] = value
        BY <1>11, <3>2
      <4> QED
        BY <1>6, <1>9, <1>10, <3>2, <4>1
    <3>3. CASE i = m + 1 /\ first = 1 /\ i \in m + 1 .. m + first
      <4>1. cells'[i] = value + 1
        BY <1>11, <3>3
      <4> QED
        BY <1>8, <1>9, <1>10, <3>3, <4>1
    <3> QED
      BY <1>12, <3>1, <3>2, <3>3
  <2> QED
    BY <1>13, <2>1, <2>2, <2>3, <2>4 DEF GroupsInv
<1>17. EachInv'
  <2>1. col' = col
    BY <1>2, FixedKept
  <2> QED
    BY <1>2, <2>1 DEF EachInv
<1> QED
  BY <1>13, <1>14, <1>15, <1>16, <1>17 DEF PlacesInv

(* A row block is finished and the next one, if any, opened. *)
LEMMA BlockPlaces ==
    ASSUME PlacesInv, NextBlock
    PROVE  /\ PlacesInv' /\ CellsKept /\ widths' = widths
           /\ Len(cells') = Start(block) + RowsOf(block)
<1>1. /\ pc = "loop" /\ remCells <= remGroup /\ remGroup' = remGroup - remCells
      /\ widths' = widths /\ value' = value /\ UNCHANGED fixedVars
  BY DEF NextBlock
<1>2. cells' = cells \o Repeat(value, remCells)
  BY DEF NextBlock
<1>3. DOMAIN total' = DOMAIN total /\ total' = [b \in DOMAIN total |-> total'[b]]
  BY DEF NextBlock
<1>4. IF block = Blocks THEN pc' = "done" /\ block' = block /\ starts' = starts /\ remCells' = remCells
      ELSE /\ block' = block + 1 /\ starts' = Append(starts, Len(cells') + 1)
           /\ remCells' = RowsOf(block + 1) /\ pc' = pc
  BY DEF NextBlock
<1>5. ColumnTypes /\ PartitionInv /\ PlaceInv /\ GroupsInv /\ EachInv
  BY DEF PlacesInv
<1>6. /\ rows \in Nat \ {0} /\ max \in Nat \ {0} /\ value \in Nat \ {0} /\ remGroup \in Nat
      /\ remCells \in Nat /\ cells \in Seq(Nat \ {0}) /\ Len(cells) \in Nat
      /\ Blocks \in Nat \ {0} /\ block \in Nat \ {0} /\ block \in 1..Blocks
      /\ Start(block) \in Nat /\ RowsOf(block) \in Nat \ {0}
      /\ Len(cells) + remCells = Start(block) + RowsOf(block) /\ Start(block) <= Len(cells)
  BY <1>1, Numbers
<1>7. PICK n, m \in Nat : n = Len(cells) /\ m = n + remCells /\ m = Start(block) + RowsOf(block)
  BY <1>6
<1>8. /\ cells' \in Seq(Nat \ {0}) /\ Len(cells') = m
      /\ \A i \in 1..n : cells'[i] = cells[i]
      /\ \A i \in n + 1 .. m : cells'[i] = value
  <2>1. Added(cells', cells, value, remCells)
    BY <1>2, <1>6, AddCells
  <2> QED
    BY <1>7, <2>1 DEF Added
<1>9. ASSUME NEW i \in 1..Len(cells') PROVE i \in 1..n \/ i \in n + 1 .. m
  <2>1. i \in 1..m
    BY <1>8
  <2> QED
    BY <2>1
<1>10. CellsKept
  <2>1. ASSUME NEW i \in 1..Len(cells') PROVE cells'[i] <= value'
    <3>1. CASE i \in 1..n
      <4>1. \A j \in 1..Len(cells) : cells[j] <= value
        BY <1>5 DEF ColumnTypes
      <4> QED
        BY <1>1, <1>7, <1>8, <3>1, <4>1
    <3>2. CASE i \in n + 1 .. m
      BY <1>1, <1>6, <1>8, <3>2
    <3> QED
      BY <1>9, <3>1, <3>2
  <2>2. Len(cells) <= Len(cells')
    BY <1>6, <1>7, <1>8
  <2> QED
    BY <1>7, <1>8, <2>1, <2>2 DEF CellsKept
<1>11. /\ col' = col /\ rows' = rows /\ max' = max /\ Blocks' = Blocks /\ sizes' = sizes
       /\ PartitionInv' = PartitionInv
       /\ \A b : RowsOf(b)' = RowsOf(b) /\ Start(b)' = Start(b)
       /\ \A v : Widths(v)' = Widths(v) /\ RowsTo(v)' = RowsTo(v)
  BY <1>1, FixedKept
<1>12. /\ block + 1 \in Nat \ {0} /\ Start(block + 1) = m /\ RowsOf(block + 1) \in Nat \ {0}
       /\ Start(Blocks) + RowsOf(Blocks) = rows
  <2>1. block + 1 \in Nat \ {0}
    BY <1>6
  <2>2. Start(block + 1) = Start(block) + RowsOf(block) /\ RowsOf(block + 1) \in Nat \ {0}
    BY <1>6, <2>1, BlocksFollow
  <2>3. Start(Blocks) + RowsOf(Blocks) = rows
    BY <1>6, BlocksFollow
  <2> QED
    BY <1>7, <2>1, <2>2, <2>3
<1>13. remGroup' \in Nat
  BY <1>1, <1>6
<1>14. starts \in Seq(Nat \ {0}) /\ Len(starts) = block /\ \A b \in 1..block : starts[b] = Start(b) + 1
  BY <1>5 DEF ColumnTypes, PlaceInv
<1>15. ColumnTypes'
  <2>1. total' = [b \in 1..Blocks |-> total'[b]]
    <3>1. DOMAIN total = 1..Blocks
      BY <1>5 DEF ColumnTypes
    <3> QED
      BY <1>3, <3>1
  <2>2. pc' \in {"loop", "done"} /\ block' \in 1..Blocks /\ remCells' \in Nat
    BY <1>1, <1>4, <1>6, <1>12
  <2>3. starts' \in Seq(Nat \ {0})
    <3>1. Len(cells') + 1 \in Nat \ {0}
      BY <1>8
    <3> QED
      BY <1>4, <1>14, <3>1
  <2>4. /\ widths' \in Seq(Nat) /\ Len(widths') = value'
        /\ \A v \in 1..value' : widths'[v] \in Widths(v)
    BY <1>1, <1>5 DEF ColumnTypes
  <2>5. \A i \in 1..Len(cells') : cells'[i] <= value'
    BY <1>10 DEF CellsKept
  <2>6. col \in Builders /\ rows <= UPTO_MAX
    BY <1>5 DEF ColumnTypes
  <2> QED
    BY <1>1, <1>6, <1>8, <1>11, <1>13, <2>1, <2>2, <2>3, <2>4, <2>5, <2>6 DEF ColumnTypes
<1>16. PlaceInv'
  <2>1. CASE block = Blocks
    <3>1. pc' = "done" /\ block' = block /\ starts' = starts
      BY <1>4, <2>1
    <3>2. Len(cells') = rows
      BY <1>7, <1>8, <1>12, <2>1
    <3>3. Start(block) <= Len(cells')
      BY <1>6, <1>7, <1>8
    <3> QED
      BY <1>11, <1>14, <2>1, <3>1, <3>2, <3>3 DEF PlaceInv
  <2>2. CASE block # Blocks
    <3>1. /\ pc' = "loop" /\ block' = block + 1 /\ starts' = Append(starts, m + 1)
          /\ remCells' = RowsOf(block + 1)
      BY <1>1, <1>4, <1>8, <2>2
    <3>2. /\ Len(starts') = block + 1 /\ \A b \in 1..block : starts'[b] = starts[b]
          /\ starts'[block + 1] = m + 1
      BY <1>6, <1>14, <3>1
    <3>3. \A b \in 1 .. block + 1 : starts'[b] = Start(b) + 1
      BY <1>6, <1>12, <1>14, <3>2
    <3>4. Start(block + 1) <= Len(cells') /\ Len(cells') + remCells' = Start(block + 1) + RowsOf(block + 1)
      BY <1>8, <1>12, <3>1
    <3> QED
      BY <1>11, <3>1, <3>2, <3>3, <3>4 DEF PlaceInv
  <2> QED
    BY <2>1, <2>2
<1>17. GroupsInv'
  <2>1. SUFFICES ASSUME col.style # "each" PROVE GroupsInv'
    BY <1>11 DEF GroupsInv
  <2>2. sizes \in Seq(Nat \ {0})
    BY <1>5, <2>1 DEF PartitionInv
  <2>3. /\ value \in 1..Len(sizes) /\ RowsTo(value - 1) <= Len(cells)
        /\ Len(cells) + remGroup = RowsTo(value)
        /\ \A i \in 1..Len(cells) : RowsTo(cells[i] - 1) < i /\ i <= RowsTo(cells[i])
    BY <1>5, <2>1 DEF GroupsInv
  <2>4. RowsTo(value - 1) \in Nat /\ RowsTo(value) \in Nat
    <3>1. value - 1 \in 0..Len(sizes) /\ value \in 0..Len(sizes)
      BY <2>2, <2>3
    <3> QED
      BY <2>2, <3>1, RowsToFacts
  <2>5. RowsTo(value - 1) <= Len(cells') /\ Len(cells') + remGroup' = RowsTo(value)
    BY <1>1, <1>6, <1>7, <1>8, <2>3, <2>4
  <2>6. ASSUME NEW i \in 1..Len(cells')
        PROVE  RowsTo(cells'[i] - 1) < i /\ i <= RowsTo(cells'[i])
    <3>1. CASE i \in 1..n
      BY <1>7, <1>8, <2>3, <3>1
    <3>2. CASE i \in n + 1 .. m
      <4>1. cells'[i] = value
        BY <1>8, <3>2
      <4> QED
        BY <1>1, <1>6, <1>7, <2>3, <2>4, <3>2, <4>1
    <3> QED
      BY <1>9, <3>1, <3>2
  <2> QED
    BY <1>1, <1>11, <2>1, <2>3, <2>5, <2>6 DEF GroupsInv
<1>18. EachInv'
  <2>1. SUFFICES ASSUME col.style = "each" PROVE EachInv'
    BY <1>11 DEF EachInv
  <2>2. remGroup = 0 /\ remCells = 0 /\ m = n /\ remGroup' = 0
    BY <1>1, <1>5, <1>6, <1>7, <2>1 DEF EachInv
  <2>3. Len(cells') = Len(cells) /\ \A i \in 1..Len(cells') : cells'[i] = cells[i]
    BY <1>7, <1>8, <2>2
  <2>4. pc' = "done" => remCells' = 0
    BY <1>1, <1>4, <2>2
  <2>5. ASSUME col.next = "within"
        PROVE  /\ value = Len(cells') - (block' - 1) + IF remCells' > 0 THEN 1 ELSE 0
               /\ \A b \in 1..block' : \A i \in 1..Len(cells') :
                    i > Start(b) /\ i <= Start(b) + RowsOf(b) => cells'[i] = i - (b - 1)
    <3>1. /\ value = Len(cells) - (block - 1) + 0
          /\ \A b \in 1..block : \A i \in 1..Len(cells) :
                i > Start(b) /\ i <= Start(b) + RowsOf(b) => cells[i] = i - (b - 1)
      BY <1>5, <2>1, <2>2, <2>5 DEF EachInv
    <3>2. CASE block = Blocks
      <4>1. block' = block /\ remCells' = 0
        BY <1>4, <2>2, <3>2
      <4> QED
        BY <2>3, <3>1, <4>1
    <3>3. CASE block # Blocks
      <4>1. block' = block + 1 /\ remCells' = RowsOf(block + 1) /\ remCells' > 0
        BY <1>4, <1>12, <3>3
      <4>2. value = Len(cells') - (block' - 1) + 1
        BY <1>6, <2>3, <3>1, <4>1
      <4>3. ASSUME NEW b \in 1..block', NEW i \in 1..Len(cells'),
                   i > Start(b), i <= Start(b) + RowsOf(b)
            PROVE  cells'[i] = i - (b - 1)
        <5>1. b # block + 1
          BY <1>8, <1>12, <4>3
        <5>2. b \in 1..block
          BY <1>6, <4>1, <5>1
        <5> QED
          BY <2>3, <3>1, <4>3, <5>2
      <4> QED
        BY <4>1, <4>2, <4>3
    <3> QED
      BY <3>2, <3>3
  <2>6. ASSUME col.next = "never"
        PROVE  value = 1 /\ \A i \in 1..Len(cells') : cells'[i] = 1
    BY <1>5, <2>1, <2>3, <2>6 DEF EachInv
  <2>7. ASSUME col.next = "always"
        PROVE  value = Len(cells') + 1 /\ \A i \in 1..Len(cells') : cells'[i] = i
    BY <1>5, <2>1, <2>3, <2>7 DEF EachInv
  <2> QED
    BY <1>1, <1>11, <2>1, <2>2, <2>4, <2>5, <2>6, <2>7 DEF EachInv
<1>19. PartitionInv'
  BY <1>5, <1>11
<1> QED
  BY <1>1, <1>7, <1>8, <1>10, <1>15, <1>16, <1>17, <1>18, <1>19 DEF PlacesInv

(* The inductive steps, together. *)
LEMMA PlacesStep == PlacesInv /\ [ColumnNext]_columnVars => PlacesInv'
<1> SUFFICES ASSUME PlacesInv, [ColumnNext]_columnVars PROVE PlacesInv'
  OBVIOUS
<1>1. CASE NextCell
  BY <1>1, CellPlaces
<1>2. CASE NextGroup
  BY <1>2, GroupPlaces
<1>3. CASE NextBlock
  BY <1>3, BlockPlaces
<1>4. CASE Done \/ UNCHANGED columnVars
  <2>1. UNCHANGED columnVars
    BY <1>4 DEF Done
  <2>2. ColumnTypes' = ColumnTypes
    BY <2>1 DEF columnVars, ColumnTypes, Blocks, Widths
  <2>3. PartitionInv' = PartitionInv
    BY <2>1 DEF columnVars, PartitionInv
  <2>4. PlaceInv' = PlaceInv
    BY <2>1 DEF columnVars, PlaceInv, Start, RowsOf, Blocks
  <2>5. GroupsInv' = GroupsInv
    BY <2>1 DEF columnVars, GroupsInv, RowsTo
  <2>6. EachInv' = EachInv
    BY <2>1 DEF columnVars, EachInv, Start, RowsOf
  <2> QED
    BY <2>2, <2>3, <2>4, <2>5, <2>6 DEF PlacesInv
<1> QED
  BY <1>1, <1>2, <1>3, <1>4 DEF ColumnNext

-----------------------------------------------------------------------------
(***************************************************************************)
(* Lengths                                                                 *)
(***************************************************************************)

(* The bytes of a cell. *)
LEMMA CostFacts ==
    ASSUME PlacesInv
    PROVE  /\ \A k \in 1..Len(cells) : /\ Cost[k] = widths[cells[k]] /\ Cost[k] \in Nat
                                       /\ Cost[k] \in Widths(cells[k])
           /\ \A a, b \in Int : 1 <= a /\ b <= Len(cells) => Sum(Cost, a..b) \in Nat
<1>1. /\ col \in Builders /\ cells \in Seq(Nat \ {0}) /\ value \in Nat \ {0}
      /\ \A v \in 1..value : widths[v] \in Widths(v)
      /\ \A i \in 1..Len(cells) : cells[i] <= value
  BY DEF PlacesInv, ColumnTypes
<1>2. ASSUME NEW k \in 1..Len(cells)
      PROVE  Cost[k] = widths[cells[k]] /\ Cost[k] \in Nat /\ Cost[k] \in Widths(cells[k])
  <2>1. Cost[k] = widths[cells[k]]
    BY DEF Cost
  <2>2. cells[k] \in 1..value /\ cells[k] \in Nat \ {0}
    BY <1>1
  <2> QED
    BY <1>1, <2>1, <2>2, WidthFacts
<1>3. ASSUME NEW a \in Int, NEW b \in Int, 1 <= a, b <= Len(cells)
      PROVE  Sum(Cost, a..b) \in Nat
  <2>1. \A k \in a..b : k \in 1..Len(cells)
    BY <1>1, <1>3
  <2>2. IsFiniteSet(a..b) /\ \A k \in a..b : Cost[k] \in Nat
    BY <1>2, <2>1, FS_Interval
  <2> QED
    BY <2>2, SumType
<1> QED
  BY <1>2, <1>3

(* The cells of row block b, when all are written. *)
LEMMA BlockInCells ==
    ASSUME PlacesInv, NEW b \in 1..Blocks, b < block \/ pc = "done"
    PROVE  /\ Start(b) \in Nat /\ RowsOf(b) \in Nat \ {0}
           /\ Start(b) + RowsOf(b) <= Len(cells)
<1>1. /\ rows \in Nat \ {0} /\ max \in Nat \ {0} /\ Blocks \in Nat \ {0} /\ block \in Nat \ {0}
      /\ Start(block) \in Nat /\ Start(block) <= Len(cells) /\ Len(cells) \in Nat
  BY Numbers
<1>2. b \in Nat \ {0}
  BY <1>1
<1>3. Start(b) \in Nat /\ RowsOf(b) \in Nat \ {0}
  BY <1>1, <1>2, BlocksFollow
<1>4. CASE b < block
  <2>1. Start(b) + RowsOf(b) <= Start(block)
    BY <1>1, <1>2, <1>4, BlocksFollow
  <2> QED
    BY <1>1, <1>3, <2>1
<1>5. CASE pc = "done"
  <2>1. Len(cells) = rows
    BY <1>5 DEF PlacesInv, PlaceInv
  <2>2. Start(b) + RowsOf(b) <= rows
    BY <1>1, BlocksFollow
  <2> QED
    BY <2>1, <2>2, <1>3
<1> QED
  BY <1>3, <1>4, <1>5

(* Bytes that are written stay. *)
LEMMA CostKept ==
    ASSUME PlacesInv, PlacesInv', CellsKept, \A v \in 1..value : widths'[v] = widths[v],
           NEW a \in Int, NEW b \in Int, 1 <= a, b <= Len(cells)
    PROVE  Sum(Cost, a..b)' = Sum(Cost, a..b)
<1>1. /\ cells \in Seq(Nat \ {0}) /\ cells' \in Seq(Nat \ {0}) /\ value \in Nat \ {0}
      /\ Len(cells) \in Nat /\ Len(cells') \in Nat /\ Len(cells) <= Len(cells')
      /\ \A i \in 1..Len(cells) : cells'[i] = cells[i] /\ cells[i] <= value
  <2>1. ColumnTypes
    BY DEF PlacesInv
  <2> QED
    BY <2>1 DEF ColumnTypes, CellsKept
<1>2. Cost' = [k \in 1..Len(cells') |-> widths'[cells'[k]]]
  BY DEF Cost
<1>3. ASSUME NEW k \in a..b PROVE Cost[k] = Cost'[k] /\ Cost[k] \in Int
  <2>1. k \in 1..Len(cells) /\ k \in 1..Len(cells')
    BY <1>1
  <2>2. cells[k] \in 1..value /\ cells'[k] = cells[k]
    BY <1>1, <2>1
  <2>3. Cost'[k] = widths[cells[k]]
    BY <1>2, <2>1, <2>2
  <2> QED
    BY <2>1, <2>3, CostFacts
<1>4. IsFiniteSet(a..b)
  BY FS_Interval
<1>5. Sum(Cost, a..b) = Sum(Cost', a..b)
  BY <1>3, <1>4, SumSame
<1>6. Sum(Cost, a..b)' = Sum(Cost', a..b)
  BY Zenon DEF Sum, Cost
<1> QED
  BY <1>5, <1>6

(* ... those of a row block in particular. *)
LEMMA WrittenKept ==
    ASSUME PlacesInv, PlacesInv', CellsKept, \A v \in 1..value : widths'[v] = widths[v],
           UNCHANGED fixedVars, NEW b \in 1..Blocks, b < block
    PROVE  BytesWritten(b)' = BytesWritten(b)
<1>1. /\ Start(b) \in Nat /\ RowsOf(b) \in Nat \ {0} /\ Start(b) + RowsOf(b) <= Len(cells)
  BY BlockInCells
<1>2. PICK a, e \in Int : a = Start(b) + 1 /\ e = Start(b) + RowsOf(b)
  BY <1>1
<1>3. Start(b)' = Start(b) /\ RowsOf(b)' = RowsOf(b)
  BY FixedKept
<1>4. BytesWritten(b)' = Sum(Cost, a..e)' /\ BytesWritten(b) = Sum(Cost, a..e)
  BY <1>2, <1>3, Zenon DEF BytesWritten, Sum
<1>5. 1 <= a /\ e <= Len(cells)
  BY <1>1, <1>2
<1> QED
  BY <1>4, <1>5, CostKept

(* Inside a row block nothing is added. *)
LEMMA TotalsInside ==
    ASSUME PlacesInv, PlacesInv', TotalsInv, CellsKept, ValueKept, UNCHANGED fixedVars,
           UNCHANGED <<block, total, tableTotal, pc>>, pc = "loop"
    PROVE  TotalsInv'
<1>1. block' = block /\ total' = total /\ tableTotal' = tableTotal /\ pc' = "loop"
  OBVIOUS
<1>2. Blocks' = Blocks /\ Allocated' = Allocated /\ col' = col
  BY FixedKept
<1>3. ASSUME NEW b \in 1..Blocks
      PROVE  total'[b] = IF b < block' \/ pc' = "done" THEN BytesWritten(b)' ELSE 0
  <2>1. total[b] = IF b < block THEN BytesWritten(b) ELSE 0
    BY <1>3 DEF TotalsInv
  <2>2. b < block => BytesWritten(b)' = BytesWritten(b)
    BY WrittenKept DEF ValueKept
  <2> QED
    BY <1>1, <2>1, <2>2
<1>4. tableTotal = IF col.early THEN Allocated ELSE 0
  BY DEF TotalsInv
<1> QED
  BY <1>1, <1>2, <1>3, <1>4 DEF TotalsInv

(* The bytes of the cells from number a on. *)
LEMMA BytesFrom ==
    ASSUME PlacesInv', NEW a \in Nat \ {0}, a <= Len(cells')
    PROVE  Bytes(SubSeq(cells', a, Len(cells'))) = Sum(Cost, a..Len(cells))'
<1> DEFINE s == SubSeq(cells', a, Len(cells'))
           f == [i \in DOMAIN s |-> widths'[s[i]]]
           c == Cost'
<1>1. cells' \in Seq(Nat \ {0}) /\ Len(cells') \in Nat
  BY DEF PlacesInv, ColumnTypes
<1>0. Len(cells') - a + 1 \in Nat
  BY <1>1
<1>2. PICK n \in Nat : n = Len(cells') - a + 1
  BY <1>0, Zenon
<1>3. s \in Seq(Nat \ {0}) /\ Len(s) = n /\ \A i \in 1..n : s[i] = cells'[a + i - 1]
  <2>1. \A i \in a..Len(cells') : cells'[i] \in Nat \ {0}
    BY <1>1
  <2>2. /\ SubSeq(cells', a, Len(cells')) \in Seq(Nat \ {0})
        /\ Len(SubSeq(cells', a, Len(cells'))) = Len(cells') - a + 1
        /\ \A i \in 1 .. Len(cells') - a + 1 :
              SubSeq(cells', a, Len(cells'))[i] = cells'[a + i - 1]
    BY <1>1, <2>1, SubSeqProperties
  <2> QED
    BY <1>2, <2>2
<1>4. DOMAIN s = 1..n
  BY <1>3
<1>5. \A k \in 1..Len(cells') : c[k] = widths'[cells'[k]] /\ c[k] \in Nat
  <2>1. ColumnTypes'
    BY DEF PlacesInv
  <2>2. /\ widths' \in Seq(Nat) /\ Len(widths') = value' /\ value' \in Nat
        /\ \A k \in 1..Len(cells') : cells'[k] <= value'
    BY <2>1 DEF ColumnTypes
  <2>3. ASSUME NEW k \in 1..Len(cells') PROVE c[k] = widths'[cells'[k]] /\ c[k] \in Nat
    <3>1. cells'[k] \in 1..Len(widths')
      BY <1>1, <2>2
    <3>2. c[k] = widths'[cells'[k]]
      BY DEF Cost
    <3> QED
      BY <2>2, <3>1, <3>2
  <2> QED
    BY <2>3
<1>6. SameTerms(f, c, 1, a, n)
  <2>1. ASSUME NEW i \in 0 .. n - 1
        PROVE  f[1 + i] = c[a + i] /\ f[1 + i] \in Int
    <3>1. 1 + i \in 1..n /\ a + i \in 1..Len(cells') /\ a + (1 + i) - 1 = a + i
      BY <1>1, <1>2
    <3>2. f[1 + i] = widths'[s[1 + i]] /\ s[1 + i] = cells'[a + i]
      BY <1>3, <1>4, <3>1
    <3> HIDE DEF f, c, s
    <3> QED
      BY <1>5, <3>1, <3>2
  <2> HIDE DEF f, c
  <2> QED
    BY <2>1 DEF SameTerms
<1>7. DOMAIN f = 1..n
  BY <1>4
<1>8. Bytes(s) = Sum(f, 1..n)
  BY <1>7, Zenon DEF Bytes, SumFunction, Sum, SumFunctionOnSet, FoldFunction
<1>9. Sum(f, 1 .. 1 + n - 1) = Sum(c, a .. a + n - 1)
  <2> HIDE DEF f, c
  <2> QED
    BY <1>6, SumShift
<1>10. 1 + n - 1 = n /\ a + n - 1 = Len(cells')
  BY <1>1, <1>2
<1>11. Sum(Cost, a..Len(cells))' = Sum(c, a..Len(cells'))
  BY Zenon DEF Sum
<1> HIDE DEF f, c, s
<1>12. Bytes(s) = Sum(c, a..Len(cells'))
  BY <1>8, <1>9, <1>10
<1> QED
  BY <1>11, <1>12 DEF s

(* The length of the column is a number. *)
LEMMA TableLengthType == PlacesInv => Sum(Cost, 1..Len(cells)) \in Nat
<1> SUFFICES ASSUME PlacesInv PROVE Sum(Cost, 1..Len(cells)) \in Nat
  OBVIOUS
<1>1. Len(cells) \in Nat
  BY Numbers
<1> QED
  BY <1>1, CostFacts

(* The length that NextBlock adds to the row block. *)
BlockLength == IF col.size = Same THEN SizeMax * RowsOf(block) ELSE Bytes(Written(block))

(* It is that of the cells of the row block, all written by then. *)
LEMMA BlockMeasured ==
    ASSUME PlacesInv, PlacesInv', NextBlock, NEW b \in 1..Blocks, b = block
    PROVE  BlockLength = BytesWritten(b)' /\ BlockLength \in Nat
<1>1. UNCHANGED fixedVars
  BY DEF NextBlock
<1>2. Len(cells') = Start(b) + RowsOf(b)
  BY BlockPlaces
<1>3. /\ b \in Nat \ {0} /\ Start(b) \in Nat /\ RowsOf(b) \in Nat \ {0}
  BY Numbers
<1>4. starts[b] = Start(b) + 1
  <2>1. PlaceInv
    BY DEF PlacesInv
  <2> QED
    BY <1>3, <2>1 DEF PlaceInv
<1>5. PICK a, e \in Nat \ {0} : a = Start(b) + 1 /\ e = Len(cells')
  BY <1>2, <1>3
<1>6. a <= e /\ e - a + 1 = RowsOf(b)
  BY <1>2, <1>3, <1>5
<1>7. Start(b)' = Start(b) /\ RowsOf(b)' = RowsOf(b) /\ col' = col /\ \A v : Widths(v)' = Widths(v)
  BY <1>1, FixedKept
<1>8. BytesWritten(b)' = Sum(Cost', a..e)
  BY <1>2, <1>5, <1>7, Zenon DEF BytesWritten, Sum, Cost
<1>9. /\ \A k \in 1..e : Cost'[k] \in Widths(cells'[k]) /\ Cost'[k] \in Nat
      /\ cells' \in Seq(Nat \ {0}) /\ col \in Builders
  <2>1. ColumnTypes'
    BY DEF PlacesInv
  <2>2. /\ widths' \in Seq(Nat) /\ Len(widths') = value' /\ value' \in Nat \ {0}
        /\ \A k \in 1..Len(cells') : cells'[k] <= value'
        /\ cells' \in Seq(Nat \ {0}) /\ col' \in Builders
    BY <2>1 DEF ColumnTypes
  <2>3. \A v \in 1..value' : widths'[v] \in Widths(v)
    BY <2>1, <1>7 DEF ColumnTypes
  <2>4. ASSUME NEW k \in 1..e PROVE Cost'[k] \in Widths(cells'[k]) /\ Cost'[k] \in Nat
    <3>1. cells'[k] \in 1..value' /\ k \in 1..Len(cells')
      BY <1>5, <2>2
    <3>2. Cost'[k] = widths'[cells'[k]]
      BY <3>1 DEF Cost
    <3> QED
      BY <2>2, <2>3, <3>1, <3>2
  <2> QED
    BY <1>7, <2>2, <2>4
<1>10. Sum(Cost', a..e) \in Nat
  <2>1. \A k \in a..e : Cost'[k] \in Nat
    BY <1>9
  <2>2. IsFiniteSet(a..e)
    BY FS_Interval
  <2> QED
    BY <2>1, <2>2, SumType
<1>11. CASE col.size = Same
  <2>1. ASSUME NEW k \in a..e PROVE Cost'[k] = SizeMax
    <3>1. k \in 1..e /\ cells'[k] \in Nat \ {0}
      BY <1>5, <1>9
    <3> QED
      BY <1>9, <1>11, <3>1, WidthFacts
  <2>2. AllSame(Cost', a, e, SizeMax)
    BY <2>1 DEF AllSame
  <2>3. Sum(Cost', a..e) = SizeMax * (e - a + 1)
    BY <1>6, <2>2, SumConst, WidthAssumption
  <2> QED
    BY <1>6, <1>8, <1>10, <1>11, <2>3 DEF BlockLength
<1>12. CASE col.size # Same
  <2>1. Bytes(SubSeq(cells', a, Len(cells'))) = Sum(Cost, a..Len(cells))'
    BY <1>5, <1>6, BytesFrom
  <2>2. Sum(Cost, a..Len(cells))' = Sum(Cost', a..e)
    BY <1>5, Zenon DEF Sum, Cost
  <2>3. Written(block) = SubSeq(cells', a, Len(cells'))
    BY <1>4, <1>5 DEF Written
  <2>4. BlockLength = Bytes(SubSeq(cells', a, Len(cells')))
    BY <1>12, <2>3, Zenon DEF BlockLength
  <2> QED
    BY <1>8, <1>10, <2>1, <2>2, <2>4
<1> QED
  BY <1>11, <1>12

(* The lengths after a row block is finished. *)
LEMMA TotalsBlock ==
    ASSUME PlacesInv, PlacesInv', TotalsInv, NextBlock
    PROVE  TotalsInv'
<1>1. UNCHANGED fixedVars /\ widths' = widths /\ pc = "loop"
  BY DEF NextBlock
<1>2. /\ total' = [total EXCEPT ![block] = @ + BlockLength]
      /\ IF block = Blocks
         THEN /\ pc' = "done" /\ block' = block
              /\ tableTotal' = tableTotal + IF col.early THEN 0 ELSE Bytes(cells')
         ELSE block' = block + 1 /\ pc' = pc /\ tableTotal' = tableTotal
  BY Zenon DEF NextBlock, BlockLength
<1>3. Blocks' = Blocks /\ Allocated' = Allocated /\ col' = col
  BY <1>1, FixedKept
<1>4. CellsKept /\ \A v \in 1..value : widths'[v] = widths[v]
  BY <1>1, BlockPlaces
<1>5. block \in 1..Blocks /\ Blocks \in Nat /\ block \in Nat /\ DOMAIN total = 1..Blocks
  BY Numbers DEF PlacesInv, ColumnTypes
<1>6. ASSUME NEW b \in 1..Blocks
      PROVE  total'[b] = IF b < block' \/ pc' = "done" THEN BytesWritten(b)' ELSE 0
  <2>1. total[b] = IF b < block THEN BytesWritten(b) ELSE 0
    BY <1>1 DEF TotalsInv
  <2>2. CASE b = block
    <3>1. BlockLength = BytesWritten(b)' /\ BlockLength \in Nat
      BY <2>2, BlockMeasured
    <3>2. total[b] = 0
      BY <1>5, <2>1, <2>2
    <3>3. total'[b] = BlockLength
      BY <1>2, <1>5, <2>2, <3>1, <3>2
    <3>4. b < block' \/ pc' = "done"
      BY <1>2, <1>5, <2>2
    <3> QED
      BY <3>1, <3>3, <3>4
  <2>3. CASE b < block
    <3>1. BytesWritten(b)' = BytesWritten(b)
      BY <1>1, <1>4, <2>3, WrittenKept
    <3>2. total'[b] = total[b] /\ b < block'
      BY <1>2, <1>5, <2>3
    <3> QED
      BY <2>1, <2>3, <3>1, <3>2
  <2>4. CASE b > block
    <3>1. total'[b] = total[b] /\ block # Blocks /\ ~(b < block) /\ ~(b < block + 1)
      BY <1>2, <1>5, <2>4
    <3> QED
      BY <1>1, <1>2, <2>1, <3>1
  <2> QED
    BY <1>5, <2>2, <2>3, <2>4
<1>7. tableTotal = IF col.early THEN Allocated ELSE 0
  BY <1>1 DEF TotalsInv
<1>8. tableTotal' = IF col.early THEN Allocated
                    ELSE IF pc' = "done" THEN Sum(Cost, 1..Len(cells))' ELSE 0
  <2>1. CASE col.early
    <3>1. Allocated \in Nat
      <4>1. ColumnTypes /\ PartitionInv
        BY DEF PlacesInv
      <4> QED
        BY <4>1, AllocatedType DEF ColumnTypes
    <3> QED
      BY <1>2, <1>7, <2>1, <3>1
  <2>2. CASE ~col.early /\ block = Blocks
    <3>1. PICK n \in Nat \ {0} : n = Len(cells') /\ cells' \in Seq(Nat \ {0})
      <4>1. Len(cells') = Start(block) + RowsOf(block) /\ cells' \in Seq(Nat \ {0})
        BY <1>4, BlockPlaces DEF CellsKept
      <4> QED
        BY <4>1, Numbers
    <3>2. SubSeq(cells', 1, Len(cells')) = cells'
      BY <3>1
    <3>3. Bytes(cells') = Sum(Cost, 1..Len(cells))'
      <4>1. 1 \in Nat \ {0} /\ 1 <= Len(cells')
        BY <3>1
      <4>2. Bytes(SubSeq(cells', 1, Len(cells'))) = Sum(Cost, 1..Len(cells))'
        BY <4>1, BytesFrom
      <4> QED
        BY <3>2, <4>2, Zenon
    <3>4. Bytes(cells') \in Nat
      <4>1. (Sum(Cost, 1..Len(cells)) \in Nat)'
        BY TableLengthType, PTL
      <4> QED
        BY <3>3, <4>1
    <3> QED
      BY <1>2, <1>7, <2>2, <3>3, <3>4
  <2>3. CASE ~col.early /\ block # Blocks
    BY <1>1, <1>2, <1>7, <2>3
  <2> QED
    BY <2>1, <2>2, <2>3
<1> QED
  BY <1>3, <1>6, <1>8 DEF TotalsInv

(* A step that changes nothing. *)
LEMMA TotalsStutter ==
    ASSUME TotalsInv, UNCHANGED columnVars
    PROVE  TotalsInv'
BY Zenon DEF TotalsInv, columnVars, BytesWritten, Cost, Start, RowsOf, BlockRows, Blocks, BlockCount,
             Allocated, Sum

(* ColumnInv is inductive. *)
LEMMA ColumnInvStep == ColumnInv /\ [ColumnNext]_columnVars => ColumnInv'
<1> SUFFICES ASSUME PlacesInv, TotalsInv, [ColumnNext]_columnVars PROVE PlacesInv' /\ TotalsInv'
  BY DEF ColumnInv
<1>1. PlacesInv'
  BY PlacesStep
<1>2. CASE NextCell
  <2>1. ValueKept /\ CellsKept
    BY <1>2, CellPlaces
  <2>2. UNCHANGED fixedVars /\ UNCHANGED <<block, total, tableTotal, pc>> /\ pc = "loop"
    BY <1>2 DEF NextCell
  <2> QED
    BY <1>1, <2>1, <2>2, TotalsInside
<1>3. CASE NextGroup
  <2>1. ValueKept /\ CellsKept
    BY <1>3, GroupPlaces
  <2>2. UNCHANGED fixedVars /\ UNCHANGED <<block, total, tableTotal, pc>> /\ pc = "loop"
    BY <1>3 DEF NextGroup
  <2> QED
    BY <1>1, <2>1, <2>2, TotalsInside
<1>4. CASE NextBlock
  BY <1>1, <1>4, TotalsBlock
<1>5. CASE UNCHANGED columnVars
  BY <1>1, <1>5, TotalsStutter
<1> QED
  BY <1>1, <1>2, <1>3, <1>4, <1>5 DEF ColumnNext, Done

(* ColumnInv is an invariant. *)
LEMMA ColumnInvHolds == ColumnSpec => []ColumnInv
<1>1. ColumnInit => ColumnInv
  BY PlacesInit, TotalsInit DEF ColumnInv
<1> QED
  BY <1>1, ColumnInvStep, PTL DEF ColumnSpec
-----------------------------------------------------------------------------
(***************************************************************************)
(* What the columns are promised                                           *)
(***************************************************************************)

(* ExactPartition holds of every column with groups, of any number of      *)
(* rows: partition_groups_even and partition_groups_linear, rounding and   *)
(* all, give away every row once and leave no group empty.                 *)
THEOREM PartitionsExact == ColumnSpec => []ExactPartition
<1>1. ColumnInv => ExactPartition
  <2> SUFFICES ASSUME PartitionInv, col.style # "each" PROVE
          /\ SumFunction(sizes) = rows
          /\ \A i \in 1..Len(sizes) : sizes[i] >= 1
          /\ kind = "even" => \A i, j \in 1..Len(sizes) : sizes[i] - sizes[j] \in -1..1
    BY DEF ColumnInv, PlacesInv, ExactPartition
  <2>1. /\ sizes \in Seq(Nat \ {0}) /\ Sum(sizes, 1..Len(sizes)) = rows
        /\ kind = "even" => \A i, j \in 1..Len(sizes) : sizes[i] - sizes[j] \in -1..1
    BY DEF PartitionInv
  <2>2. DOMAIN sizes = 1..Len(sizes) /\ \A i \in 1..Len(sizes) : sizes[i] >= 1
    BY <2>1
  <2>3. SumFunction(sizes) = Sum(sizes, 1..Len(sizes))
    BY <2>2, Zenon DEF SumFunction, Sum
  <2> QED
    BY <2>1, <2>2, <2>3
<1> QED
  BY <1>1, ColumnInvHolds, PTL

(* A row is of one group only. *)
LEMMA OneGroup ==
    ASSUME sizes \in Seq(Nat \ {0}), NEW i \in Nat, NEW g \in 1..Len(sizes),
           RowsTo(g - 1) < i, i <= RowsTo(g)
    PROVE  GroupOf(i) = g
<1> DEFINE Is(h) == RowsTo(h) >= i /\ RowsTo(h - 1) < i
<1>1. ASSUME NEW h \in 1..Len(sizes), Is(h) PROVE h = g
  <2>1. /\ g \in 0..Len(sizes) /\ h \in 0..Len(sizes) /\ g - 1 \in 0..Len(sizes)
        /\ h - 1 \in 0..Len(sizes) /\ Len(sizes) \in Nat
    OBVIOUS
  <2>2. RowsTo(g) \in Nat /\ RowsTo(h) \in Nat /\ RowsTo(g - 1) \in Nat /\ RowsTo(h - 1) \in Nat
    BY <2>1, RowsToFacts
  <2>3. g <= h - 1 => RowsTo(g) <= RowsTo(h - 1)
    BY <2>1, RowsToFacts
  <2>4. h <= g - 1 => RowsTo(h) <= RowsTo(g - 1)
    BY <2>1, RowsToFacts
  <2>5. ~(g <= h - 1) /\ ~(h <= g - 1)
    BY <1>1, <2>2, <2>3, <2>4
  <2> QED
    BY <2>1, <2>5
<1>2. Is(g)
  <2>1. g \in 0..Len(sizes) /\ g - 1 \in 0..Len(sizes)
    OBVIOUS
  <2>2. RowsTo(g) \in Nat
    BY <2>1, RowsToFacts
  <2> QED
    BY <2>2
<1>3. GroupOf(i) = CHOOSE h \in 1..Len(sizes) : Is(h)
  BY Zenon DEF GroupOf, RowsTo, Sum
<1> QED
  BY <1>1, <1>2, <1>3, Zenon

(* RowsInPlace holds of every column: the walk over groups and row blocks  *)
(* at once, whichever boundary comes first, neither loses nor repeats a    *)
(* row.                                                                    *)
THEOREM EveryRowInPlace == ColumnSpec => []RowsInPlace
<1>1. ColumnInv => RowsInPlace
  <2> SUFFICES ASSUME PlacesInv, pc = "done" PROVE
          /\ Len(cells) = rows
          /\ \A b \in 1..Blocks :
                starts[b] + RowsOf(b) = IF b = Blocks THEN rows + 1 ELSE starts[b + 1]
          /\ \A i \in 1..rows :
                /\ col.next = "group" => cells[i] = GroupOf(i)
                /\ col.next = "always" => cells[i] = i
                /\ col.next = "never" => cells[i] = 1
          /\ col.next = "within" =>
                \A b \in 1..Blocks : \A i \in starts[b]..starts[b] + RowsOf(b) - 2 :
                    cells[i + 1] = cells[i] + 1
    BY DEF ColumnInv, RowsInPlace
  <2>1. ColumnTypes /\ PartitionInv /\ PlaceInv /\ GroupsInv /\ EachInv
    BY DEF PlacesInv
  <2>2. /\ Len(cells) = rows /\ block = Blocks /\ rows \in Nat \ {0} /\ max \in Nat \ {0}
        /\ col \in Builders /\ cells \in Seq(Nat \ {0}) /\ value \in Nat \ {0}
        /\ \A i \in 1..rows : cells[i] <= value
        /\ \A b \in 1..Blocks : starts[b] = Start(b) + 1
    BY <2>1 DEF ColumnTypes, PlaceInv
  <2>3. /\ Blocks \in Nat \ {0} /\ Start(Blocks) + RowsOf(Blocks) = rows
        /\ \A b \in Nat \ {0} : /\ RowsOf(b) \in Nat \ {0} /\ Start(b) \in Nat
                                /\ Start(b + 1) = Start(b) + RowsOf(b)
    BY <2>2, BlocksFollow
  <2>4. ASSUME NEW b \in 1..Blocks
        PROVE  starts[b] + RowsOf(b) = IF b = Blocks THEN rows + 1 ELSE starts[b + 1]
    <3>1. b \in Nat \ {0}
      BY <2>3
    <3>2. /\ starts[b] = Start(b) + 1 /\ RowsOf(b) \in Nat /\ Start(b) \in Nat
          /\ Start(b + 1) = Start(b) + RowsOf(b)
      BY <2>2, <2>3, <3>1
    <3>3. CASE b = Blocks
      <4>1. Start(b) + RowsOf(b) = rows
        BY <2>3, <3>3, Zenon
      <4>2. starts[b] + RowsOf(b) = rows + 1
        BY <2>2, <3>2, <4>1
      <4> QED
        BY <3>3, <4>2, Zenon
    <3>4. CASE b # Blocks
      <4>1. b + 1 \in 1..Blocks
        BY <2>3, <3>4
      <4>2. starts[b + 1] = Start(b + 1) + 1
        BY <2>2, <4>1
      <4> QED
        BY <3>2, <3>4, <4>2
    <3> QED
      BY <3>3, <3>4
  <2>5. ASSUME NEW i \in 1..rows
        PROVE  /\ col.next = "group" => cells[i] = GroupOf(i)
               /\ col.next = "always" => cells[i] = i
               /\ col.next = "never" => cells[i] = 1
    <3>1. /\ col.style = "each" => col.next \in {"never", "always", "within"}
          /\ col.style # "each" => col.next = "group"
      BY <2>2, BuilderKinds
    <3>2. CASE col.style # "each"
      <4>1. /\ sizes \in Seq(Nat \ {0}) /\ value \in 1..Len(sizes)
            /\ RowsTo(cells[i] - 1) < i /\ i <= RowsTo(cells[i])
        BY <2>1, <2>2, <3>2 DEF PartitionInv, GroupsInv
      <4>2. cells[i] \in 1..Len(sizes)
        BY <2>2, <4>1
      <4>3. GroupOf(i) = cells[i]
        BY <4>1, <4>2, OneGroup
      <4> QED
        BY <3>1, <3>2, <4>3
    <3>3. CASE col.style = "each"
      BY <2>1, <2>2, <3>1, <3>3 DEF EachInv
    <3> QED
      BY <3>2, <3>3
  <2>6. ASSUME col.next = "within", NEW b \in 1..Blocks,
               NEW i \in starts[b]..starts[b] + RowsOf(b) - 2
        PROVE  cells[i + 1] = cells[i] + 1
    <3>1. col.style = "each"
      BY <2>2, <2>6, BuilderKinds
    <3>2. \A k \in 1..Len(cells) :
             k > Start(b) /\ k <= Start(b) + RowsOf(b) => cells[k] = k - (b - 1)
      BY <2>1, <2>2, <2>6, <3>1 DEF EachInv
    <3>3. /\ b \in Nat \ {0} /\ starts[b] = Start(b) + 1
          /\ Start(b) \in Nat /\ RowsOf(b) \in Nat \ {0}
      <4>1. b \in Nat \ {0}
        BY <2>3
      <4> QED
        BY <2>2, <2>3, <4>1
    <3>4. Start(b) + RowsOf(b) <= rows
      BY <2>2, BlocksFollow
    <3>5. /\ i \in 1..Len(cells) /\ i + 1 \in 1..Len(cells)
          /\ i > Start(b) /\ i + 1 <= Start(b) + RowsOf(b)
      <4>1. i \in Start(b) + 1 .. Start(b) + 1 + RowsOf(b) - 2
        BY <3>3
      <4>2. i \in Int /\ i >= Start(b) + 1 /\ i <= Start(b) + RowsOf(b) - 1
        BY ONLY <3>3, <4>1
      <4>3. Len(cells) = rows /\ rows \in Nat
        BY <2>2
      <4> QED
        BY ONLY <3>3, <3>4, <4>2, <4>3
    <3>6. cells[i] = i - (b - 1) /\ cells[i + 1] = i + 1 - (b - 1)
      BY <3>2, <3>3, <3>5
    <3> QED
      BY <3>3, <3>5, <3>6
  <2> QED
    BY <2>2, <2>4, <2>5, <2>6
<1> QED
  BY <1>1, ColumnInvHolds, PTL

(* The bytes of written cells, as the properties count them. *)
LEMMA BytesAre ==
    ASSUME PlacesInv, NEW i \in Int, NEW j \in Int, 1 <= i, j <= Len(cells)
    PROVE  BytesOf(i, j) = Sum(Cost, i..j)
<1> DEFINE f == [k \in i..j |-> widths[cells[k]]]
<1>1. BytesOf(i, j) = Sum(f, i..j)
  <2>1. DOMAIN f = i..j
    OBVIOUS
  <2>2. BytesOf(i, j) = SumFunction(f)
    BY Zenon DEF BytesOf
  <2> HIDE DEF f
  <2> QED
    BY <2>1, <2>2, Zenon DEF SumFunction, Sum
<1>2. ASSUME NEW k \in i..j PROVE Cost[k] = f[k] /\ Cost[k] \in Int
  <2>1. k \in 1..Len(cells)
    BY Numbers
  <2> QED
    BY <2>1, CostFacts
<1>3. IsFiniteSet(i..j)
  BY FS_Interval
<1> HIDE DEF f
<1>4. Sum(Cost, i..j) = Sum(f, i..j)
  BY <1>2, <1>3, SumSame
<1> QED
  BY <1>1, <1>4

(* Terms of at most w add up to at most as many times w. *)
LEMMA SumBound ==
    ASSUME NEW f, NEW n \in Nat, NEW r \in Nat, n <= r, NEW w \in Nat,
           \A k \in 1..n : f[k] \in Nat /\ f[k] <= w
    PROVE  Sum(f, 1..n) <= w * r
<1> DEFINE g == [k \in 1..n |-> w]
<1>1. AllSame(g, 1, n, w)
  BY DEF AllSame
<1>2. \A k \in 1..n : f[k] \in Int /\ g[k] \in Int /\ f[k] <= g[k]
  OBVIOUS
<1> HIDE DEF g
<1>3. Sum(g, 1..n) = w * (n - 1 + 1)
  BY <1>1, SumConst
<1>4. Sum(f, 1..n) <= Sum(g, 1..n) /\ Sum(f, 1..n) \in Int
  <2>1. IsFiniteSet(1..n)
    BY FS_Interval
  <2> QED
    BY <1>2, <2>1, SumLess
<1>5. n - 1 + 1 = n /\ w * n \in Int /\ w * r \in Int
  OBVIOUS
<1>6. w * n <= w * r
  BY Times
<1>7. Sum(g, 1..n) = w * n
  BY <1>3, <1>5
<1>8. PICK s, p, q \in Int : s = Sum(f, 1..n) /\ p = w * n /\ q = w * r
  BY <1>4, <1>5, Zenon
<1>9. s <= p /\ p <= q
  BY <1>4, <1>6, <1>7, <1>8, Zenon
<1>10. s <= q
  BY <1>9
<1> QED
  BY <1>8, <1>10, Zenon

(* Strings of a base and a count from 1 on take what was allocated for     *)
(* them: counter_size_upto adds up counter_size_mag_upto.                  *)
LEMMA CountsFill ==
    ASSUME rows \in Nat \ {0}, rows <= UPTO_MAX, NEW f,
           f = [k \in 1..rows |-> Base + counter_size_mag_upto(k)]
    PROVE  /\ Sum(f, 1..rows) = counter_size_upto(rows) + rows * Base
           /\ \A k \in 1..rows : f[k] \in Nat
<1> DEFINE d == [k \in 1 .. rows + 1 |->
                    IF k = 1 THEN 0 ELSE counter_size_upto(k - 1) + (k - 1) * Base]
<1>1. ASSUME NEW k \in 1..rows
      PROVE  /\ d[k] \in Int /\ d[k + 1] \in Int /\ f[k] = d[k + 1] - d[k] /\ f[k] \in Nat
  <2>1. k \in 1..UPTO_MAX /\ k \in 1 .. rows + 1 /\ k + 1 \in 1 .. rows + 1 /\ k + 1 # 1
        /\ (k + 1) - 1 = k
    BY UptoMax
  <2>2. /\ counter_size_upto(k) \in Nat /\ counter_size_mag_upto(k) \in Nat \ {0}
        /\ k = 1 => counter_size_upto(k) = counter_size_mag_upto(k)
        /\ k > 1 => counter_size_upto(k) = counter_size_upto(k - 1) + counter_size_mag_upto(k)
    BY <2>1, SizeStep
  <2>3. d[k + 1] = counter_size_upto(k) + k * Base /\ f[k] = Base + counter_size_mag_upto(k)
    BY <2>1
  <2>4. k * Base \in Nat /\ Base \in Nat
    BY WidthAssumption
  <2>5. CASE k = 1
    <3>1. d[k] = 0 /\ k * Base = Base
      BY <2>1, <2>5, WidthAssumption
    <3> HIDE DEF d
    <3> QED
      BY <2>2, <2>3, <2>4, <2>5, <3>1
  <2>6. CASE k > 1
    <3>1. d[k] = counter_size_upto(k - 1) + (k - 1) * Base
      BY <2>1, <2>6
    <3>2. k - 1 \in 1..UPTO_MAX
      BY <2>1, <2>6, UptoMax
    <3>3. counter_size_upto(k - 1) \in Nat
      BY <3>2, SizeStep
    <3>4. (k - 1) * Base = k * Base - Base /\ (k - 1) * Base \in Int
      BY WidthAssumption
    <3> HIDE DEF d
    <3> QED
      BY <2>2, <2>3, <2>4, <2>6, <3>1, <3>3, <3>4
  <2> QED
    BY <2>1, <2>5, <2>6
<1>2. d[1] = 0 /\ d[rows + 1] = counter_size_upto(rows) + rows * Base
  <2>1. rows + 1 \in 1 .. rows + 1 /\ rows + 1 # 1 /\ (rows + 1) - 1 = rows /\ 1 \in 1 .. rows + 1
    OBVIOUS
  <2> QED
    BY <2>1
<1> HIDE DEF d
<1>3. Telescopes(f, d, 1, rows + 1)
  <2>1. rows + 1 - 1 = rows
    OBVIOUS
  <2> QED
    BY <1>1, <2>1 DEF Telescopes
<1>4. d[rows + 1] \in Int /\ d[rows + 1] - 0 = d[rows + 1]
  BY <1>1
<1>5. Sum(f, 1 .. rows + 1 - 1) = d[rows + 1] - d[1]
  BY <1>2, <1>3, SumSteps
<1>6. rows + 1 - 1 = rows
  OBVIOUS
<1> QED
  BY <1>1, <1>2, <1>4, <1>5, <1>6

(* The bytes of the cells of such a column. *)
LEMMA CountedCost ==
    ASSUME PlacesInv, col.size = Counted, col.style = "each"
    PROVE  /\ Sum(Cost, 1..Len(cells)) <= Allocated
           /\ Len(cells) = rows => Sum(Cost, 1..Len(cells)) = Allocated
<1> DEFINE f == [k \in 1..rows |-> Base + counter_size_mag_upto(k)]
<1>1. /\ rows \in Nat \ {0} /\ rows <= UPTO_MAX /\ Len(cells) \in Nat /\ Len(cells) <= rows
      /\ col \in Builders
  BY Numbers
<1>2. \A i \in 1..Len(cells) : cells[i] = i
  <2>1. EachInv
    BY DEF PlacesInv
  <2>2. col.next = "always"
    BY <1>1, BuilderKinds
  <2> QED
    BY <2>1, <2>2 DEF EachInv
<1>3. ASSUME NEW k \in 1..Len(cells) PROVE Cost[k] = f[k] /\ Cost[k] \in Int
  <2>1. Cost[k] \in Widths(k) /\ Cost[k] \in Nat
    BY <1>2, CostFacts
  <2>2. k \in Nat \ {0} /\ k \in 1..rows
    BY <1>1
  <2>3. Cost[k] = Base + counter_size_mag_upto(k)
    BY <1>1, <2>1, <2>2, WidthFacts
  <2> QED
    BY <2>1, <2>2, <2>3
<1>4. Sum(f, 1..rows) = counter_size_upto(rows) + rows * Base /\ \A k \in 1..rows : f[k] \in Nat
  BY <1>1, CountsFill
<1>5. Allocated = counter_size_upto(rows) + rows * Base
  BY Zenon, SizesDiffer DEF Allocated
<1> HIDE DEF f
<1>6. Sum(Cost, 1..Len(cells)) = Sum(f, 1..Len(cells))
  <2>1. IsFiniteSet(1..Len(cells))
    BY <1>1, FS_Interval
  <2> QED
    BY <1>3, <2>1, SumSame
<1>7. Sum(f, 1..Len(cells)) <= Sum(f, 1..rows)
  <2>1. 1..Len(cells) \in SUBSET (1..rows)
    BY <1>1
  <2>2. IsFiniteSet(1..rows)
    BY <1>1, FS_Interval
  <2> QED
    BY <1>4, <2>1, <2>2, SumPart
<1> QED
  BY <1>4, <1>5, <1>6, <1>7

(* WithinAllocation holds of every column, at any time: neither groups nor *)
(* row blocks make it write more than was allocated.                       *)
THEOREM CellsWithinAllocation == ColumnSpec => []WithinAllocation
<1>1. ColumnInv => WithinAllocation
  <2> SUFFICES ASSUME PlacesInv PROVE BytesOf(1, Len(cells)) <= Allocated
    BY DEF ColumnInv, WithinAllocation
  <2>1. /\ rows \in Nat \ {0} /\ rows <= UPTO_MAX /\ Len(cells) \in Nat /\ Len(cells) <= rows
        /\ col \in Builders /\ value \in Nat \ {0} /\ cells \in Seq(Nat \ {0})
    BY Numbers
  <2>2. BytesOf(1, Len(cells)) = Sum(Cost, 1..Len(cells))
    BY <2>1, BytesAre
  <2>3. CASE col.size # Counted
    <3>1. ASSUME NEW k \in 1..Len(cells) PROVE Cost[k] \in Nat /\ Cost[k] <= SizeMax
      <4>1. Cost[k] \in Nat /\ Cost[k] \in Widths(cells[k]) /\ cells[k] \in Nat \ {0}
        BY <2>1, CostFacts
      <4> QED
        BY <2>1, <2>3, <4>1, WidthFacts
    <3>2. Sum(Cost, 1..Len(cells)) <= SizeMax * rows
      BY <2>1, <3>1, SumBound, WidthAssumption
    <3> QED
      BY <2>2, <2>3, <3>2 DEF Allocated
  <2>4. CASE col.size = Counted /\ col.style = "each"
    BY <2>2, <2>4, CountedCost
  <2>5. CASE col.size = Counted /\ col.style # "each"
    <3>1. /\ sizes \in Seq(Nat \ {0}) /\ value \in 1..Len(sizes)
          /\ \A k \in 1..Len(cells) : cells[k] <= value
      <4>1. ColumnTypes /\ PartitionInv /\ GroupsInv
        BY DEF PlacesInv
      <4> QED
        BY <2>5, <4>1 DEF ColumnTypes, PartitionInv, GroupsInv
    <3>2. PICK w \in Nat : w = Base + counter_size_mag_upto(Len(sizes))
      <4>1. Len(sizes) \in Int
        BY <3>1
      <4>2. Mag(Len(sizes)) \in 0..7 /\ counter_size_mag_upto(Len(sizes)) = Mag(Len(sizes)) + 2
        BY <4>1, MagSize
      <4>3. Base + counter_size_mag_upto(Len(sizes)) \in Nat
        BY <4>2, WidthAssumption
      <4> QED
        BY <4>3, Zenon
    <3>3. ASSUME NEW k \in 1..Len(cells) PROVE Cost[k] \in Nat /\ Cost[k] <= w
      <4>1. Cost[k] \in Nat /\ Cost[k] \in Widths(cells[k]) /\ cells[k] \in Nat \ {0}
        BY <2>1, CostFacts
      <4>2. Cost[k] = Base + counter_size_mag_upto(cells[k])
        BY <2>1, <2>5, <4>1, WidthFacts
      <4>3. cells[k] <= Len(sizes) /\ Len(sizes) \in Int /\ cells[k] \in Int
        BY <3>1, <4>1
      <4>4. counter_size_mag_upto(cells[k]) <= counter_size_mag_upto(Len(sizes))
        BY <4>3, MagGrows
      <4>5. /\ Mag(Len(sizes)) \in 0..7 /\ counter_size_mag_upto(Len(sizes)) = Mag(Len(sizes)) + 2
            /\ Mag(cells[k]) \in 0..7 /\ counter_size_mag_upto(cells[k]) = Mag(cells[k]) + 2
        BY <4>3, MagSize
      <4>6. PICK x, y \in Int : x = counter_size_mag_upto(cells[k])
                                /\ y = counter_size_mag_upto(Len(sizes)) /\ x <= y
        BY <4>4, <4>5
      <4>7. Cost[k] = Base + x /\ w = Base + y
        BY <3>2, <4>2, <4>6
      <4> QED
        BY <4>1, <4>6, <4>7, WidthAssumption
    <3>4. Sum(Cost, 1..Len(cells)) <= w * rows
      BY <2>1, <3>3, SumBound
    <3>5. Allocated = w * rows
      BY <2>5, <3>2, Zenon DEF Allocated
    <3> QED
      BY <2>2, <3>4, <3>5
  <2> QED
    BY <2>3, <2>4, <2>5
<1> QED
  BY <1>1, ColumnInvHolds, PTL

(* LengthsAdded holds of every column: what is added to the lengths of the *)
(* row blocks and of the table, from an estimate or from the bytes         *)
(* written, is the length the row blocks will have to copy.                *)
THEOREM EveryLengthAdded == ColumnSpec => []LengthsAdded
<1>1. ColumnInv => LengthsAdded
  <2> SUFFICES ASSUME PlacesInv, TotalsInv, pc = "done" PROVE
          /\ tableTotal = BytesOf(1, rows)
          /\ \A b \in 1..Blocks : total[b] = BytesOf(starts[b], starts[b] + RowsOf(b) - 1)
    BY DEF ColumnInv, LengthsAdded
  <2>1. ColumnTypes /\ PlaceInv
    BY DEF PlacesInv
  <2>2. /\ Len(cells) = rows /\ rows \in Nat \ {0} /\ col \in Builders
        /\ cells \in Seq(Nat \ {0}) /\ \A b \in 1..Blocks : starts[b] = Start(b) + 1
    BY <2>1 DEF ColumnTypes, PlaceInv
  <2>3. BytesOf(1, rows) = Sum(Cost, 1..rows)
    BY <2>2, BytesAre
  <2>4. tableTotal = IF col.early THEN Allocated ELSE Sum(Cost, 1..rows)
    BY <2>2 DEF TotalsInv
  <2>5. col.early => Sum(Cost, 1..rows) = Allocated
    <3>1. col.early => col.size = Same \/ (col.size = Counted /\ col.style = "each")
      BY <2>2, BuilderKinds
    <3>2. CASE col.size = Same
      <4>1. ASSUME NEW k \in 1..rows PROVE Cost[k] = SizeMax
        <5>1. Cost[k] \in Widths(cells[k]) /\ cells[k] \in Nat \ {0}
          BY <2>2, CostFacts
        <5> QED
          BY <2>2, <3>2, <5>1, WidthFacts
      <4>2. AllSame(Cost, 1, rows, SizeMax)
        BY <4>1 DEF AllSame
      <4>3. Sum(Cost, 1..rows) = SizeMax * (rows - 1 + 1)
        BY <2>2, <4>2, SumConst, WidthAssumption
      <4>4. rows - 1 + 1 = rows
        BY <2>2
      <4>5. Allocated = SizeMax * rows
        BY <3>2, SizesDiffer DEF Allocated
      <4> QED
        BY <4>3, <4>4, <4>5
    <3>3. CASE col.size = Counted /\ col.style = "each"
      BY <2>2, <3>3, CountedCost
    <3> QED
      BY <3>1, <3>2, <3>3
  <2>6. ASSUME NEW b \in 1..Blocks
        PROVE  total[b] = BytesOf(starts[b], starts[b] + RowsOf(b) - 1)
    <3>1. /\ Start(b) \in Nat /\ RowsOf(b) \in Nat \ {0}
          /\ Start(b) + RowsOf(b) <= Len(cells)
      BY BlockInCells
    <3>2. PICK a, e \in Int : a = Start(b) + 1 /\ e = Start(b) + RowsOf(b)
      BY <3>1
    <3>3. 1 <= a /\ e <= Len(cells) /\ starts[b] = a /\ starts[b] + RowsOf(b) - 1 = e
      BY <2>2, <3>1, <3>2
    <3>4. BytesOf(a, e) = Sum(Cost, a..e)
      BY <3>3, BytesAre
    <3>5. total[b] = BytesWritten(b)
      BY DEF TotalsInv
    <3>6. BytesWritten(b) = Sum(Cost, a..e)
      BY <3>2, Zenon DEF BytesWritten
    <3> QED
      BY <3>3, <3>4, <3>5, <3>6
  <2> QED
    BY <2>3, <2>4, <2>5, <2>6
<1> QED
  BY <1>1, ColumnInvHolds, PTL
=============================================================================
