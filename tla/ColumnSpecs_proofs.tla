------------------------- MODULE ColumnSpecs_proofs -------------------------
(***************************************************************************)
(* What the arguments of generate mode lead to, for any number of          *)
(* arguments and any of them.                                              *)
(*                                                                         *)
(* Random columns draw values of the interval that was asked for, for any  *)
(* widths of the integer types (the run draws every value of small ones,   *)
(* the program has 32 and 64 bits) and every RAND_SPEC: the column stays   *)
(* as it was set, and span, offset and result are such that no sum wraps   *)
(* around unless a negative number is meant.                               *)
(*                                                                         *)
(* The parser: each of its functions changes a part of its state only and  *)
(* enters one of a few others (ReadCases, CloseCases).  From that follow   *)
(* in turn where the parser can be among its arguments (Parsed), that the  *)
(* columns are provided for (Provided), that their counts are right        *)
(* (Counts) and where their specs are put (Layout).                        *)
(***************************************************************************)
EXTENDS RandomColumn, GenerateParse, Sizes_proofs, SequenceTheorems

-----------------------------------------------------------------------------
(* Random columns. *)

(* Remainders of numbers next to the divisor. *)
LEMMA Remainder ==
    ASSUME NEW p \in Nat \ {0}, NEW y \in Int
    PROVE  /\ y % p \in 0..p - 1
           /\ 0 <= y /\ y < p => y % p = y
           /\ y = p => y % p = 0
           /\ -p <= y /\ y < 0 => y % p = y + p
<1>1. y % p \in 0..p - 1
  OBVIOUS
<1>2. 0 <= y /\ y < p => y % p = y
  OBVIOUS
<1>3. y = p => y % p = 0
  OBVIOUS
<1>4. -p <= y /\ y < 0 => y % p = y + p
  OBVIOUS
<1> QED
  BY <1>1, <1>2, <1>3, <1>4

(* The two widths the generators tell apart. *)
LEMMA WidthsOrdered ==
    /\ Half["int"] \in Nat /\ Half["bigint"] \in Nat
    /\ Half["int"] >= 2 /\ 2 * Half["int"] <= Half["bigint"]
    /\ "int" \in IntTypes /\ "bigint" \in IntTypes
  BY WidthsAssumption DEF IntTypes

-----------------------------------------------------------------------------
(* A generator gives the values from lo to hi, and their sums with its     *)
(* offset are in reach of its result.                                      *)
Reach(g, lo, hi) ==
    IF ask.col = "integer" THEN IMin(g.result) <= lo /\ hi <= IMax(g.result)
    ELSE 0 <= lo /\ hi <= UMax(g.result)

Covers(g, lo, hi) ==
    /\ g.span \in Nat /\ g.result \in IntTypes
    /\ lo \in Int /\ hi \in Int /\ g.offset = lo
    /\ g.span > 0 => lo + g.span - 1 = hi /\ Reach(g, lo, hi)

Draws(g) == \A r \in Nat : g.span > 0 => generate(g, r) \in Least..Greatest

(* random_uint32_bound and random_uint64_bound with an offset: the         *)
(* remainder and the offset add up to a value between lo and hi.           *)
LEMMA CoversValue ==
    ASSUME NEW g, Covers(g, Least, Greatest), NEW r \in Nat, g.span > 0
    PROVE  generate(g, r) = Least + (r % g.span) /\ generate(g, r) \in Least..Greatest
<1>1. PICK s \in Nat : s = g.span /\ s > 0
  BY DEF Covers
<1>2. PICK o \in Int : o = g.offset /\ o = Least
  BY DEF Covers
<1>3. PICK h \in Int : h = Greatest /\ o + s - 1 = h
  BY <1>1, <1>2 DEF Covers
<1>4. PICK x \in Nat : x = r % s /\ x < s
  BY <1>1, Remainder
<1>5. PICK p \in Nat : p = Half[g.result] /\ p >= 2
  BY WidthsAssumption DEF Covers
<1>10. PICK q \in Nat \ {0} : q = 2 * p /\ Pow(g.result) = q
  BY <1>5 DEF Pow
<1>6. random_bound_offset(g, r) = (x + o) % q
  BY <1>1, <1>2, <1>4, <1>10 DEF random_bound_offset
<1>7. PICK y \in Int : y = x + o /\ o <= y /\ y <= h
  BY <1>3, <1>4
<1>8. CASE ask.col = "integer"
  <2>1. -p <= o /\ h <= p - 1
    BY <1>1, <1>2, <1>3, <1>5, <1>8 DEF Covers, Reach, IMin, IMax
  <2>2. y % q = IF y < 0 THEN y + q ELSE y
    <3>1. -q <= y /\ y < q
      BY <1>5, <1>7, <1>10, <2>1
    <3>2. CASE y < 0
      BY <3>1, <3>2, Remainder
    <3>3. CASE ~(y < 0)
      BY <3>1, <3>3, Remainder
    <3> QED
      BY <3>2, <3>3
  <2>3. generate(g, r) = y
    BY <1>5, <1>6, <1>7, <1>8, <1>10, <2>1, <2>2 DEF generate, IMax
  <2> QED
    BY <1>1, <1>2, <1>3, <1>4, <1>7, <2>3
<1>9. CASE ask.col # "integer"
  <2>1. 0 <= o /\ h <= 2 * p - 1
    BY <1>1, <1>2, <1>3, <1>5, <1>9 DEF Covers, Reach, UMax, Pow
  <2>2. y % q = y
    <3>1. 0 <= y /\ y < q
      BY <1>5, <1>7, <1>10, <2>1
    <3> QED
      BY <3>1, Remainder
  <2>3. generate(g, r) = y
    BY <1>6, <1>7, <1>9, <2>2 DEF generate
  <2> QED
    BY <1>1, <1>2, <1>3, <1>4, <1>7, <2>3
<1> QED
  BY <1>8, <1>9

(* A generator that covers the interval draws values of it. *)
LEMMA CoversDraws ==
    ASSUME NEW g, Covers(g, Least, Greatest)
    PROVE  Draws(g)
BY CoversValue DEF Draws

(* generate_i_32 and the like: every value of the width, each by one draw. *)
WidthLeast(t) == IF ask.col = "integer" THEN IMin(t) ELSE 0
WidthGreatest(t) == IF ask.col = "integer" THEN IMax(t) ELSE UMax(t)

(* What a generator without bound gives, as a number of its type. *)
LEMMA UnboundValue ==
    ASSUME NEW t \in IntTypes, NEW width, NEW r \in Nat
    PROVE  /\ generate(Unbound(t, width), r) \in WidthLeast(t)..WidthGreatest(t)
           /\ generate(Unbound(t, width), r)
                 = IF ask.col = "integer" /\ r % Pow(t) > IMax(t) THEN (r % Pow(t)) - Pow(t)
                   ELSE r % Pow(t)
<1>1. PICK p \in Nat : p = Half[t] /\ p >= 2
  BY WidthsAssumption
<1>2. PICK g : g = Unbound(t, width)
  OBVIOUS
<1>3. PICK q \in Nat \ {0} : q = 2 * p /\ Pow(t) = q
  BY <1>1 DEF Pow
<1>5. g.span = q /\ g.offset = 0 /\ g.result = t
  BY <1>2, <1>3 DEF Unbound
<1>6. PICK x \in Nat : x = r % q /\ x < q
  BY Remainder
<1>7. random_bound_offset(g, r) = x
  <2>1. random_bound_offset(g, r) = (x + 0) % q
    BY <1>3, <1>5, <1>6 DEF random_bound_offset
  <2>2. x + 0 \in Int /\ 0 <= x + 0 /\ x + 0 < q /\ x + 0 = x
    BY <1>6
  <2> QED
    BY <2>1, <2>2, Remainder
<1>8. generate(g, r) = IF ask.col = "integer" /\ x > p - 1 THEN x - q ELSE x
  BY <1>1, <1>3, <1>5, <1>7 DEF generate, IMax
<1>9. generate(g, r) \in WidthLeast(t)..WidthGreatest(t)
  BY <1>1, <1>3, <1>6, <1>8 DEF WidthLeast, WidthGreatest, IMin, IMax, UMax
<1> QED
  BY <1>1, <1>2, <1>3, <1>6, <1>8, <1>9 DEF IMax

(* Generators without bound draw values of their type. *)
LEMMA UnboundDraws ==
    ASSUME NEW t \in IntTypes, NEW width, Least = WidthLeast(t), Greatest = WidthGreatest(t)
    PROVE  Draws(Unbound(t, width))
BY UnboundValue DEF Draws

-----------------------------------------------------------------------------
(* The draws that give value v, and as many for each value. *)
Draw(g, v) == {r \in random_uint(g.bits) : r >= g.threshold /\ generate(g, r) = v}

Fair(g) == \E n \in Nat \ {0} : \A v \in Least..Greatest : Cardinality(Draw(g, v)) = n

(* The threshold is the remainder of the width by the span. *)
Even(g) ==
    /\ g.bits \in IntTypes /\ g.span \in 1 .. Pow(g.bits) - 1
    /\ g.threshold = (Pow(g.bits) - g.span) % g.span

(* What is left of the width when the threshold is taken away is a number  *)
(* of whole spans, so every remainder is left as often.                    *)
LEMMA EvenFair ==
    ASSUME NEW g, Covers(g, Least, Greatest), Even(g)
    PROVE  Fair(g)
<1>1. PICK p, s \in Nat \ {0} : p = Pow(g.bits) /\ s = g.span /\ s < p
  <2>1. Pow(g.bits) \in Nat \ {0}
    BY WidthsAssumption DEF Even, Pow
  <2> QED
    BY <2>1 DEF Even
<1>2. PICK q, m \in Nat : m < s /\ p - s = s * q + m /\ m = g.threshold
  <2>1. p - s \in Nat
    BY <1>1
  <2>2. g.threshold = (p - s) % s
    BY <1>1 DEF Even
  <2> QED
    BY <2>1, <2>2, Divided
<1>3. PICK n \in Nat \ {0} : n = q + 1
  OBVIOUS
<1>4. m + n * s = p
  <2>1. PICK w \in Nat : w = s * q
    BY TimesType
  <2>2. n * s = w + s
    <3>1. (q + 1) * s = s * q + s
      OBVIOUS
    <3> QED
      BY <1>3, <2>1, <3>1, Zenon
  <2>3. p - s = w + m
    BY <1>2, <2>1, Zenon
  <2>4. m + (w + s) = p
    BY <2>3
  <2> QED
    BY <2>2, <2>4, Zenon
<1>5. PICK l \in Int : l = Least /\ l + s - 1 = Greatest
  BY <1>1 DEF Covers
<1>6. ASSUME NEW v \in Least..Greatest PROVE Cardinality(Draw(g, v)) = n
  <2>1. PICK k \in 0 .. s - 1 : v = l + k
    <3>1. v - l \in 0 .. s - 1 /\ v = l + (v - l)
      BY <1>5
    <3> QED
      BY <3>1
  <2>2. ASSUME NEW r \in Nat PROVE generate(g, r) = v <=> r % s = k
    <3>1. generate(g, r) = l + (r % s) /\ r % s \in Int
      <4>1. generate(g, r) = Least + (r % g.span)
        BY <1>1, CoversValue
      <4> QED
        BY <1>1, <1>5, <4>1
    <3>2. PICK x \in Int : x = r % s
      BY <3>1
    <3> QED
      BY <2>1, <3>1, <3>2
  <2>3. random_uint(g.bits) = 0 .. p - 1
    BY <1>1 DEF random_uint, UMax
  <2>4. Draw(g, v) = {r \in m .. p - 1 : r % s = k}
    <3>1. \A r : r \in m .. p - 1 <=> r \in 0 .. p - 1 /\ r >= m /\ r \in Nat
      OBVIOUS
    <3>2. \A r \in 0 .. p - 1 : r \in Nat
      OBVIOUS
    <3> QED
      BY <1>2, <2>2, <2>3, <3>1, <3>2 DEF Draw
  <2>5. m .. p - 1 = m .. m + n * s - 1
    BY <1>4
  <2>6. Cardinality({r \in m .. m + n * s - 1 : r % s = k}) = n
    BY CountResidue
  <2> QED
    BY <2>4, <2>5, <2>6, Zenon
<1> QED
  BY <1>3, <1>6 DEF Fair

(* A whole width gives each value by one draw. *)
LEMMA UnboundFair ==
    ASSUME NEW t \in IntTypes, NEW width, Least = WidthLeast(t), Greatest = WidthGreatest(t)
    PROVE  Fair(Unbound(t, width))
<1>1. PICK p \in Nat : p = Half[t] /\ p >= 2
  BY WidthsAssumption
<1>2. PICK g : g = Unbound(t, width)
  OBVIOUS
<1>3. PICK q \in Nat \ {0} : q = 2 * p /\ Pow(t) = q
  BY <1>1 DEF Pow
<1>4. g.bits = t /\ g.threshold = 0 /\ random_uint(t) = 0 .. q - 1
  BY <1>2, <1>3 DEF Unbound, random_uint, UMax
<1>5. ASSUME NEW v \in Least..Greatest PROVE Cardinality(Draw(g, v)) = 1
  <2>1. v \in Int /\ IF ask.col = "integer" THEN -p <= v /\ v <= p - 1 ELSE 0 <= v /\ v <= q - 1
    BY <1>1, <1>3 DEF WidthLeast, WidthGreatest, IMin, IMax, UMax
  <2>2. PICK r \in 0 .. q - 1 : r = IF v < 0 THEN v + q ELSE v
    BY <1>1, <1>3, <2>1
  <2>3. ASSUME NEW x \in 0 .. q - 1 PROVE generate(g, x) = v <=> x = r
    <3>1. x \in Nat /\ x % q = x
      BY Remainder
    <3>2. generate(g, x) = IF ask.col = "integer" /\ x > p - 1 THEN x - q ELSE x
      BY <1>1, <1>2, <1>3, <3>1, UnboundValue DEF IMax
    <3> QED
      BY <1>1, <1>3, <2>1, <2>2, <3>2
  <2>4. Draw(g, v) = {r}
    <3>1. Draw(g, v) = {x \in 0 .. q - 1 : x >= 0 /\ generate(g, x) = v}
      BY <1>4 DEF Draw
    <3>2. \A x \in 0 .. q - 1 : x >= 0
      OBVIOUS
    <3> QED
      BY <2>2, <2>3, <3>1, <3>2
  <2> QED
    BY <2>4, FS_Singleton
<1> QED
  BY <1>2, <1>5 DEF Fair

-----------------------------------------------------------------------------
(* What uint_digit_count returns for n. *)
Digits(n, d) == (d < 20 => n < 10 ^ d) /\ \A e \in 1 .. d - 1 : n >= 10 ^ e

(* The branches of uint_digit_count return the number of digits. *)
LEMMA DigitCount ==
    ASSUME NEW n \in Nat
    PROVE  uint_digit_count(n) \in 1..20 /\ Digits(n, uint_digit_count(n))
<1> DEFINE T == {d \in 1..20 : d < 20 => n < 10 ^ d}
<1>1. T \in SUBSET Nat /\ 20 \in T
  OBVIOUS
<1>2. PICK d \in T : \A y \in T : d <= y
  BY <1>1, LeastOf
<1>3. d \in 1..20 /\ Digits(n, d)
  <2>1. ASSUME NEW e \in 1 .. d - 1 PROVE n >= 10 ^ e
    <3>1. e \in 1..20 /\ e < 20 /\ ~(d <= e) /\ 10 ^ e \in Int
      BY <1>2
    <3>2. e \notin T
      BY <1>2, <3>1
    <3> QED
      BY <3>1, <3>2
  <2> QED
    BY <1>2, <2>1 DEF Digits
<1>4. uint_digit_count(n) = CHOOSE x \in 1..20 : Digits(n, x)
  BY Zenon DEF uint_digit_count, Digits
<1> QED
  BY <1>3, <1>4, Zenon

(* A greater number has no fewer digits. *)
LEMMA DigitsGrow ==
    ASSUME NEW m \in Nat, NEW n \in Nat, m <= n
    PROVE  /\ uint_digit_count(m) <= uint_digit_count(n)
           /\ uint_digit_count(m) \in Nat /\ uint_digit_count(n) \in Nat
<1>1. PICK c \in 1..20 : c = uint_digit_count(m) /\ Digits(m, c)
  BY DigitCount
<1>2. PICK d \in 1..20 : d = uint_digit_count(n) /\ Digits(n, d)
  BY DigitCount
<1>3. ASSUME d < c PROVE FALSE
  <2>1. d \in 1 .. c - 1 /\ d < 20 /\ 10 ^ d \in Int
    BY <1>3
  <2>2. n < 10 ^ d /\ m >= 10 ^ d
    BY <1>1, <1>2, <2>1 DEF Digits
  <2> QED
    BY <2>1, <2>2
<1> QED
  BY <1>1, <1>2, <1>3

(* The lengths the code has for the limits of the types. *)
LEMMA DigitCounts ==
    /\ DIGIT_COUNT.INT32_MIN = uint_digit_count(-IMin("int"))
    /\ DIGIT_COUNT.INT64_MIN = uint_digit_count(-IMin("bigint"))
    /\ DIGIT_COUNT.INT64_MAX = uint_digit_count(IMax("bigint"))
    /\ DIGIT_COUNT.UINT32_MAX = uint_digit_count(UMax("int"))
    /\ DIGIT_COUNT.UINT64_MAX = uint_digit_count(UMax("bigint"))
BY DEF DIGIT_COUNT, INT32_MIN, INT64_MIN, INT64_MAX, UINT32_MAX, UINT64_MAX

(* The width for a cell is that of the longest number of its type, where a *)
(* value of 64 bits may be known not to be less than INT32_MIN.            *)
RoomFor(result, width, least) ==
    IF ask.col = "integer"
    THEN \/ width = uint_digit_count(-IMin(result)) + 2
         \/ /\ result = "bigint" /\ width = DIGIT_COUNT.INT64_MAX + 1
            /\ least >= INT32_MIN
    ELSE width = uint_digit_count(UMax(result)) + 1

Room(g) == g.result \in IntTypes /\ RoomFor(g.result, g.width, g.offset)

(* What the generator gives fits its width and its type. *)
Fits(g) ==
    \A r \in Nat : g.span > 0 =>
        /\ Text(generate(g, r)) \in Int /\ g.width \in Int
        /\ Text(generate(g, r)) <= g.width
        /\ generate(g, r) \in WidthLeast(g.result)..WidthGreatest(g.result)

(* A signed number of type t. *)
LEMMA SignedText ==
    ASSUME NEW t \in IntTypes, NEW v \in IMin(t)..IMax(t)
    PROVE  /\ Text(v) \in Int /\ uint_digit_count(-IMin(t)) \in Int
           /\ Text(v) <= uint_digit_count(-IMin(t)) + 2
<1>1. PICK p \in Nat : p = Half[t] /\ p >= 2
  BY WidthsAssumption
<1>2. -IMin(t) = p /\ -p <= v /\ v <= p - 1 /\ v \in Int
  BY <1>1 DEF IMin, IMax
<1>3. CASE v < 0
  <2>1. -v \in Nat /\ -v <= p
    BY <1>2, <1>3
  <2>2. /\ uint_digit_count(-v) <= uint_digit_count(p)
        /\ uint_digit_count(-v) \in Nat /\ uint_digit_count(p) \in Nat
    BY <2>1, DigitsGrow
  <2> QED
    BY <1>2, <1>3, <2>2 DEF Text
<1>4. CASE ~(v < 0)
  <2>1. v \in Nat /\ v <= p
    BY <1>2, <1>4
  <2>2. /\ uint_digit_count(v) <= uint_digit_count(p)
        /\ uint_digit_count(v) \in Nat /\ uint_digit_count(p) \in Nat
    BY <2>1, DigitsGrow
  <2> QED
    BY <1>2, <1>4, <2>2 DEF Text
<1> QED
  BY <1>3, <1>4

(* One of 64 bits that is not less than INT32_MIN. *)
LEMMA LateText ==
    ASSUME NEW v \in INT32_MIN..INT64_MAX
    PROVE  /\ Text(v) \in Int /\ DIGIT_COUNT.INT64_MAX \in Int
           /\ Text(v) <= DIGIT_COUNT.INT64_MAX + 1
<1>1. PICK a, b \in Nat : a = Half["int"] /\ b = Half["bigint"] /\ 2 * a <= b /\ a >= 2
  BY WidthsOrdered
<1>2. -IMin("int") = a /\ IMax("bigint") = b - 1 /\ -a <= v /\ v <= b - 1 /\ v \in Int
  BY <1>1 DEF IMin, IMax, INT32_MIN, INT64_MAX
<1>3. PICK d \in Nat : d = uint_digit_count(b - 1) /\ d = DIGIT_COUNT.INT64_MAX
  <2>1. b - 1 \in Nat
    BY <1>1
  <2>2. uint_digit_count(b - 1) \in Nat
    BY <2>1, DigitCount
  <2> QED
    BY <1>2, <2>2, DigitCounts
<1>4. CASE v < 0
  <2>1. -v \in Nat /\ -v <= a
    BY <1>2, <1>4
  <2>2. PICK c, e \in Nat : c = uint_digit_count(-v) /\ e = uint_digit_count(a) /\ c <= e
    BY <2>1, DigitsGrow
  <2>3. e = DIGIT_COUNT.INT32_MIN
    BY <1>2, <2>2, DigitCounts
  <2>4. e + 1 <= d
    BY <1>3, <2>3, DigitsAssumption
  <2>5. Text(v) = c + 2
    BY <1>4, <2>2 DEF Text
  <2> QED
    BY <1>3, <2>2, <2>4, <2>5
<1>5. CASE ~(v < 0)
  <2>1. v \in Nat /\ b - 1 \in Nat /\ v <= b - 1
    BY <1>1, <1>2, <1>5
  <2>2. PICK c \in Nat : c = uint_digit_count(v) /\ c <= d
    BY <1>3, <2>1, DigitsGrow
  <2>3. Text(v) = c + 1
    BY <1>5, <2>2 DEF Text
  <2> QED
    BY <1>3, <2>2, <2>3
<1> QED
  BY <1>4, <1>5

(* An unsigned number of type t. *)
LEMMA UnsignedText ==
    ASSUME NEW t \in IntTypes, NEW v \in 0..UMax(t)
    PROVE  /\ Text(v) \in Int /\ uint_digit_count(UMax(t)) \in Int
           /\ Text(v) <= uint_digit_count(UMax(t)) + 1
<1>1. v \in Nat /\ UMax(t) \in Nat /\ v <= UMax(t)
  BY WidthsAssumption DEF UMax, Pow
<1>2. /\ uint_digit_count(v) <= uint_digit_count(UMax(t))
      /\ uint_digit_count(v) \in Nat /\ uint_digit_count(UMax(t)) \in Nat
  BY <1>1, DigitsGrow
<1> QED
  BY <1>1, <1>2 DEF Text

(* A generator that covers an interval of signed numbers. *)
LEMMA RoomFits ==
    ASSUME NEW g, Covers(g, Least, Greatest), Room(g), ask.col = "integer"
    PROVE  Fits(g)
<1> SUFFICES ASSUME NEW r \in Nat, g.span > 0
             PROVE  /\ Text(generate(g, r)) \in Int /\ g.width \in Int
                    /\ Text(generate(g, r)) <= g.width
                    /\ generate(g, r) \in WidthLeast(g.result)..WidthGreatest(g.result)
  BY DEF Fits
<1>1. PICK v : v = generate(g, r) /\ v \in Least..Greatest
  BY CoversValue
<1>2. PICK t \in IntTypes : t = g.result
  BY DEF Room
<1>3. PICK p \in Nat : p = Half[t] /\ p >= 2
  BY WidthsAssumption
<1>4. /\ Least \in Int /\ Greatest \in Int /\ g.offset = Least
      /\ IMin(t) <= Least /\ Greatest <= IMax(t)
  BY <1>2 DEF Covers, Reach
<1>5. v \in IMin(t)..IMax(t)
  BY <1>1, <1>3, <1>4 DEF IMin, IMax
<1>6. v \in WidthLeast(g.result)..WidthGreatest(g.result)
  BY <1>2, <1>5 DEF WidthLeast, WidthGreatest
<1>7. CASE g.width = uint_digit_count(-IMin(t)) + 2
  BY <1>1, <1>5, <1>6, <1>7, SignedText
<1>8. CASE t = "bigint" /\ g.width = DIGIT_COUNT.INT64_MAX + 1 /\ g.offset >= INT32_MIN
  <2>1. v \in INT32_MIN..INT64_MAX
    <3>1. INT32_MIN \in Int /\ INT64_MAX \in Int /\ INT64_MAX = IMax(t)
      BY <1>8, WidthsOrdered DEF INT32_MIN, INT64_MAX, IMin, IMax
    <3> QED
      BY <1>1, <1>4, <1>8, <3>1
  <2> QED
    BY <1>1, <1>6, <1>8, <2>1, LateText
<1> QED
  BY <1>2, <1>7, <1>8 DEF Room, RoomFor

(* A generator of unsigned numbers, even with the wrong span. *)
LEMMA UnsignedFits ==
    ASSUME NEW g, Room(g), ask.col # "integer", g.span \in Nat, g.offset \in Int
    PROVE  Fits(g)
<1> SUFFICES ASSUME NEW r \in Nat, g.span > 0
             PROVE  /\ Text(generate(g, r)) \in Int /\ g.width \in Int
                    /\ Text(generate(g, r)) <= g.width
                    /\ generate(g, r) \in WidthLeast(g.result)..WidthGreatest(g.result)
  BY DEF Fits
<1>1. PICK t \in IntTypes : t = g.result
  BY DEF Room
<1>2. PICK q \in Nat \ {0} : q = Pow(t)
  BY WidthsAssumption DEF Pow
<1>3. PICK y \in Int : y = (r % g.span) + g.offset
  <2>1. r % g.span \in Int
    BY Remainder
  <2> QED
    BY <2>1
<1>4. y % q \in 0 .. q - 1
  BY Remainder
<1>5. generate(g, r) = y % q
  BY <1>1, <1>2, <1>3 DEF generate, random_bound_offset
<1>6. generate(g, r) \in 0..UMax(t)
  BY <1>2, <1>4, <1>5 DEF UMax
<1>7. g.width = uint_digit_count(UMax(t)) + 1
  BY <1>1 DEF Room, RoomFor
<1> QED
  BY <1>1, <1>6, <1>7, UnsignedText DEF WidthLeast, WidthGreatest

(* A whole width. *)
LEMMA UnboundFits ==
    ASSUME NEW t \in IntTypes, NEW width,
           width = IF ask.col = "integer" THEN uint_digit_count(-IMin(t)) + 2
                   ELSE uint_digit_count(UMax(t)) + 1
    PROVE  Fits(Unbound(t, width))
<1>1. PICK g : g = Unbound(t, width)
  OBVIOUS
<1>2. g.result = t /\ g.width = width
  BY <1>1 DEF Unbound
<1>3. ASSUME NEW r \in Nat
      PROVE  /\ Text(generate(g, r)) \in Int /\ width \in Int
             /\ Text(generate(g, r)) <= width /\ generate(g, r) \in WidthLeast(t)..WidthGreatest(t)
  <2>1. PICK v : v = generate(g, r) /\ v \in WidthLeast(t)..WidthGreatest(t)
    BY <1>1, UnboundValue
  <2>2. CASE ask.col = "integer"
    BY <2>1, <2>2, SignedText DEF WidthLeast, WidthGreatest
  <2>3. CASE ask.col # "integer"
    BY <2>1, <2>3, UnsignedText DEF WidthLeast, WidthGreatest
  <2> QED
    BY <2>2, <2>3
<1> QED
  BY <1>1, <1>2, <1>3 DEF Fits

-----------------------------------------------------------------------------
(* A span that its generator can draw is kept; one value too many is zero. *)
LEMMA BoundSpan ==
    ASSUME NEW type, NEW bits \in IntTypes, NEW span \in Nat, NEW wide, NEW result \in IntTypes,
           NEW offset \in Int, NEW width, NEW hi \in Int,
           span <= Pow(bits), offset + span - 1 = hi,
           Reach([result |-> result], offset, hi)
    PROVE  Covers(Bound(type, bits, span, wide, result, offset, width), offset, hi)
<1>1. PICK g : g = Bound(type, bits, span, wide, result, offset, width)
  OBVIOUS
<1>2. g.span = span % Pow(bits) /\ g.result = result /\ g.offset = offset
  BY <1>1 DEF Bound
<1>3. PICK p \in Nat \ {0} : p = Pow(bits)
  BY WidthsAssumption DEF Pow
<1>4. span % p \in Nat /\ (span % p > 0 => span % p = span)
  <2>1. span <= p
    BY <1>3
  <2>2. CASE span < p
    <3>1. span \in Int /\ 0 <= span
      OBVIOUS
    <3>2. span % p = span
      BY <2>2, <3>1, Remainder
    <3> QED
      BY <3>2
  <2>3. CASE span = p
    BY <2>3, Remainder
  <2> QED
    BY <2>1, <2>2, <2>3
<1>5. Reach(g, offset, hi)
  BY <1>2 DEF Reach
<1> QED
  BY <1>1, <1>2, <1>3, <1>4, <1>5 DEF Covers

(* A JOIN keeps the generator. *)
LEMMA JoinedCovers ==
    ASSUME NEW type, NEW bits, NEW span, NEW wide, NEW result, NEW offset, NEW width,
           NEW lo, NEW hi, NEW g, g = Bound(type, bits, span, wide, result, offset, width),
           Covers(g, lo, hi)
    PROVE  Covers(Joined(g), lo, hi)
<1>1. Joined(g).span = g.span /\ Joined(g).result = g.result /\ Joined(g).offset = g.offset
  BY DEF Joined, Bound
<1> QED
  BY <1>1 DEF Covers, Reach

(* What assign_X and assign_join_X set covers lo to hi. *)
Assigned(g, lo, hi) == Covers(g, lo, hi) /\ Covers(Joined(g), lo, hi)

(* What Bound sets covers the interval of its span, in a JOIN too. *)
LEMMA BoundAssigned ==
    ASSUME NEW type, NEW bits \in IntTypes, NEW span \in Nat, NEW wide, NEW result \in IntTypes,
           NEW offset \in Int, NEW width, NEW hi \in Int, NEW g,
           g = Bound(type, bits, span, wide, result, offset, width),
           span <= Pow(bits), offset + span - 1 = hi,
           Reach([result |-> result], offset, hi)
    PROVE  Assigned(g, offset, hi)
<1>1. Covers(g, offset, hi)
  BY BoundSpan
<1> QED
  BY <1>1, JoinedCovers DEF Assigned

(* The threshold Bound sets, where it is computed in the width drawn from. *)
EvenBoth(g) == Even(g) /\ Even(Joined(g))

(* A bounded generator as the assign_* functions set it is fair. *)
LEMMA BoundEven ==
    ASSUME NEW type, NEW bits \in IntTypes, NEW span \in Nat \ {0}, NEW result, NEW offset,
           NEW width, NEW g, g = Bound(type, bits, span, bits, result, offset, width),
           span < Pow(bits)
    PROVE  EvenBoth(g)
<1>1. PICK p \in Nat \ {0} : p = Pow(bits) /\ span < p
  BY WidthsAssumption DEF Pow
<1>2. span % p = span
  <2>1. span \in Int /\ 0 <= span /\ span < p
    BY <1>1
  <2> QED
    BY <2>1, Remainder
<1>3. (-span) % p = p - span
  <2>1. -span \in Int /\ -p <= -span /\ -span < 0 /\ -span + p = p - span
    BY <1>1
  <2> QED
    BY <2>1, Remainder
<1>4. PICK m \in Nat : m = (p - span) % span /\ m < span
  <2>1. p - span \in Int
    OBVIOUS
  <2>2. (p - span) % span \in 0 .. span - 1
    BY <2>1, Remainder
  <2> QED
    BY <2>2
<1>5. m % p = m
  <2>1. m \in Int /\ 0 <= m /\ m < p
    BY <1>1, <1>4
  <2> QED
    BY <2>1, Remainder
<1>6. RANDOM_THRESHOLD(span, bits) = m
  BY <1>1, <1>3, <1>4 DEF RANDOM_THRESHOLD
<1>7. g.bits = bits /\ g.span = span /\ g.threshold = m
  BY <1>1, <1>2, <1>5, <1>6 DEF Bound
<1>8. Joined(g).bits = bits /\ Joined(g).span = span /\ Joined(g).threshold = m
  BY <1>7 DEF Joined, Bound
<1>9. span \in 1 .. p - 1
  BY <1>1
<1> QED
  BY <1>1, <1>4, <1>7, <1>8, <1>9 DEF EvenBoth, Even

(* The width and the type it sets. *)
RoomBoth(g) == Room(g) /\ Room(Joined(g)) /\ g.type = g.result

(* A bounded generator has room for what it gives. *)
LEMMA BoundRoom ==
    ASSUME NEW bits, NEW span, NEW wide, NEW result \in IntTypes, NEW offset,
           NEW width, NEW g, g = Bound(result, bits, span, wide, result, offset, width),
           RoomFor(result, width, offset)
    PROVE  RoomBoth(g)
<1>1. g.type = result /\ g.result = result /\ g.offset = offset /\ g.width = width
  BY DEF Bound
<1>2. Joined(g).result = result /\ Joined(g).offset = offset /\ Joined(g).width = width
  BY <1>1 DEF Joined, Bound
<1> QED
  BY <1>1, <1>2 DEF RoomBoth, Room

-----------------------------------------------------------------------------
(* The limits of the C types, and what a generator of either width can     *)
(* reach.                                                                  *)
TypeLimits(a, b) ==
    /\ a >= 2 /\ 2 * a <= b
    /\ INT32_MIN = -a /\ INT32_MAX = a - 1 /\ UINT32_MAX = 2 * a - 1
    /\ INT64_MIN = -b /\ INT64_MAX = b - 1 /\ UINT64_MAX = 2 * b - 1
    /\ Pow("int") = 2 * a /\ Pow("bigint") = 2 * b
    /\ \A lo, hi : /\ Reach([result |-> "int"], lo, hi)
                      <=> IF ask.col = "integer" THEN -a <= lo /\ hi <= a - 1
                          ELSE 0 <= lo /\ hi <= 2 * a - 1
                 /\ Reach([result |-> "bigint"], lo, hi)
                      <=> IF ask.col = "integer" THEN -b <= lo /\ hi <= b - 1
                          ELSE 0 <= lo /\ hi <= 2 * b - 1

(* With a for 2^31 and b for 2^63, any widths have these limits. *)
LEMMA Limits == \E a, b \in Nat : TypeLimits(a, b)
<1>1. PICK a \in Nat : a = Half["int"]
  BY WidthsOrdered
<1>2. PICK b \in Nat : b = Half["bigint"]
  BY WidthsOrdered
<1>3. a >= 2 /\ 2 * a <= b
  BY <1>1, <1>2, WidthsOrdered
<1>4. /\ INT32_MIN = -a /\ INT32_MAX = a - 1 /\ UINT32_MAX = 2 * a - 1
      /\ INT64_MIN = -b /\ INT64_MAX = b - 1 /\ UINT64_MAX = 2 * b - 1
      /\ Pow("int") = 2 * a /\ Pow("bigint") = 2 * b
  BY <1>1, <1>2 DEF INT32_MIN, INT32_MAX, UINT32_MAX, INT64_MIN, INT64_MAX, UINT64_MAX,
                    IMin, IMax, UMax, Pow
<1>5. ASSUME NEW lo, NEW hi
      PROVE  /\ Reach([result |-> "int"], lo, hi)
                   <=> IF ask.col = "integer" THEN -a <= lo /\ hi <= a - 1
                       ELSE 0 <= lo /\ hi <= 2 * a - 1
             /\ Reach([result |-> "bigint"], lo, hi)
                   <=> IF ask.col = "integer" THEN -b <= lo /\ hi <= b - 1
                       ELSE 0 <= lo /\ hi <= 2 * b - 1
  BY <1>1, <1>2 DEF Reach, IMin, IMax, UMax, Pow
<1> QED
  BY <1>3, <1>4, <1>5 DEF TypeLimits

(* A narrow FROM goes up to INT32_MAX, a wide one to INT64_MAX. *)
LEMMA IntegerFrom ==
    ASSUME ask.col = "integer", NEW v \in Signed, v # INT64_MIN
    PROVE  /\ Assigned(assign_integer_random_from(v), v,
                       IF v \in INT32_MIN..INT32_MAX THEN INT32_MAX ELSE INT64_MAX)
           /\ v # INT32_MIN => EvenBoth(assign_integer_random_from(v))
           /\ RoomBoth(assign_integer_random_from(v))
<1>1. PICK a, b \in Nat : TypeLimits(a, b)
  BY Limits
<1>2. "int" \in IntTypes /\ "bigint" \in IntTypes
  BY DEF IntTypes
<1>3. PICK g : g = assign_integer_random_from(v)
  OBVIOUS
<1>4. CASE v < INT32_MIN
  <2>1. PICK s \in Nat : s = INT64_MAX - v + 1
    BY <1>1, <1>4 DEF TypeLimits, Signed
  <2>2. g = Bound("bigint", "bigint", s, "bigint", "bigint", v, DIGIT_COUNT.INT64_MIN + 2)
    BY <1>1, <1>3, <1>4, <2>1 DEF TypeLimits, Signed, assign_integer_random_from
  <2>3. /\ v \in Int /\ INT64_MAX \in Int /\ v + s - 1 = INT64_MAX
        /\ s <= Pow("bigint") /\ Reach([result |-> "bigint"], v, INT64_MAX)
    BY <1>1, <1>4, <2>1 DEF TypeLimits, Signed
  <2>4. Assigned(g, v, INT64_MAX)
    BY <1>2, <2>2, <2>3, BoundAssigned
  <2>5. v # INT32_MIN => EvenBoth(g)
    <3>1. v # INT32_MIN => s \in Nat \ {0} /\ s < Pow("bigint")
      BY <1>1, <1>4, <2>1 DEF TypeLimits, Signed
    <3> QED
      BY <1>2, <2>2, <3>1, BoundEven
  <2>6. RoomBoth(g)
    <3>1. RoomFor("bigint", DIGIT_COUNT.INT64_MIN + 2, v)
      BY <1>1, <1>4, DigitCounts DEF TypeLimits, Signed, RoomFor
    <3> QED
      BY <1>2, <2>2, <3>1, BoundRoom
  <2> QED
    BY <1>1, <1>3, <1>4, <2>4, <2>5, <2>6 DEF TypeLimits, Signed
<1>5. CASE v > INT32_MAX /\ INT64_MAX - v + 1 < UINT32_MAX
  <2>1. PICK s \in Nat : s = INT64_MAX - v + 1
    BY <1>1, <1>5 DEF TypeLimits, Signed
  <2>2. g = Bound("bigint", "int", s, "int", "bigint", v, DIGIT_COUNT.INT64_MAX + 1)
    BY <1>1, <1>3, <1>5, <2>1 DEF TypeLimits, Signed, assign_integer_random_from
  <2>3. /\ v \in Int /\ INT64_MAX \in Int /\ v + s - 1 = INT64_MAX
        /\ s <= Pow("int") /\ Reach([result |-> "bigint"], v, INT64_MAX)
    BY <1>1, <1>5, <2>1 DEF TypeLimits, Signed
  <2>4. Assigned(g, v, INT64_MAX)
    BY <1>2, <2>2, <2>3, BoundAssigned
  <2>5. v # INT32_MIN => EvenBoth(g)
    <3>1. v # INT32_MIN => s \in Nat \ {0} /\ s < Pow("int")
      BY <1>1, <1>5, <2>1 DEF TypeLimits, Signed
    <3> QED
      BY <1>2, <2>2, <3>1, BoundEven
  <2>6. RoomBoth(g)
    <3>1. RoomFor("bigint", DIGIT_COUNT.INT64_MAX + 1, v)
      BY <1>1, <1>5, DigitCounts DEF TypeLimits, Signed, RoomFor
    <3> QED
      BY <1>2, <2>2, <3>1, BoundRoom
  <2> QED
    BY <1>1, <1>3, <1>5, <2>4, <2>5, <2>6 DEF TypeLimits, Signed
<1>6. CASE v > INT32_MAX /\ INT64_MAX - v + 1 >= UINT32_MAX
  <2>1. PICK s \in Nat : s = INT64_MAX - v + 1
    BY <1>1, <1>6 DEF TypeLimits, Signed
  <2>2. g = Bound("bigint", "bigint", s, "bigint", "bigint", v, DIGIT_COUNT.INT64_MAX + 1)
    BY <1>1, <1>3, <1>6, <2>1 DEF TypeLimits, Signed, assign_integer_random_from
  <2>3. /\ v \in Int /\ INT64_MAX \in Int /\ v + s - 1 = INT64_MAX
        /\ s <= Pow("bigint") /\ Reach([result |-> "bigint"], v, INT64_MAX)
    BY <1>1, <1>6, <2>1 DEF TypeLimits, Signed
  <2>4. Assigned(g, v, INT64_MAX)
    BY <1>2, <2>2, <2>3, BoundAssigned
  <2>5. v # INT32_MIN => EvenBoth(g)
    <3>1. v # INT32_MIN => s \in Nat \ {0} /\ s < Pow("bigint")
      BY <1>1, <1>6, <2>1 DEF TypeLimits, Signed
    <3> QED
      BY <1>2, <2>2, <3>1, BoundEven
  <2>6. RoomBoth(g)
    <3>1. RoomFor("bigint", DIGIT_COUNT.INT64_MAX + 1, v)
      BY <1>1, <1>6, DigitCounts DEF TypeLimits, Signed, RoomFor
    <3> QED
      BY <1>2, <2>2, <3>1, BoundRoom
  <2> QED
    BY <1>1, <1>3, <1>6, <2>4, <2>5, <2>6 DEF TypeLimits, Signed
<1>7. CASE v \in INT32_MIN..INT32_MAX
  <2>1. PICK s \in Nat : s = INT32_MAX - v + 1
    BY <1>1, <1>7 DEF TypeLimits, Signed
  <2>2. g = Bound("int", "int", s, "int", "int", v, DIGIT_COUNT.INT32_MIN + 2)
    BY <1>1, <1>3, <1>7, <2>1 DEF TypeLimits, Signed, assign_integer_random_from
  <2>3. /\ v \in Int /\ INT32_MAX \in Int /\ v + s - 1 = INT32_MAX
        /\ s <= Pow("int") /\ Reach([result |-> "int"], v, INT32_MAX)
    BY <1>1, <1>7, <2>1 DEF TypeLimits, Signed
  <2>4. Assigned(g, v, INT32_MAX)
    BY <1>2, <2>2, <2>3, BoundAssigned
  <2>5. v # INT32_MIN => EvenBoth(g)
    <3>1. v # INT32_MIN => s \in Nat \ {0} /\ s < Pow("int")
      BY <1>1, <1>7, <2>1 DEF TypeLimits, Signed
    <3> QED
      BY <1>2, <2>2, <3>1, BoundEven
  <2>6. RoomBoth(g)
    <3>1. RoomFor("int", DIGIT_COUNT.INT32_MIN + 2, v)
      BY <1>1, <1>7, DigitCounts DEF TypeLimits, Signed, RoomFor
    <3> QED
      BY <1>2, <2>2, <3>1, BoundRoom
  <2> QED
    BY <1>1, <1>3, <1>7, <2>4, <2>5, <2>6 DEF TypeLimits, Signed
<1> QED
  BY <1>1, <1>4, <1>5, <1>6, <1>7 DEF TypeLimits, Signed

(* A narrow UPTO begins with INT32_MIN, a wide one with INT64_MIN. *)
LEMMA IntegerUpto ==
    ASSUME ask.col = "integer", NEW v \in Signed
    PROVE  /\ Assigned(assign_integer_random_upto(v),
                       IF v \in INT32_MIN..INT32_MAX THEN INT32_MIN ELSE INT64_MIN, v)
           /\ v \notin INT32_MIN..INT32_MAX /\ v # INT64_MAX
                 => EvenBoth(assign_integer_random_upto(v))
           /\ RoomBoth(assign_integer_random_upto(v))
<1>1. PICK a, b \in Nat : TypeLimits(a, b)
  BY Limits
<1>2. "int" \in IntTypes /\ "bigint" \in IntTypes
  BY DEF IntTypes
<1>3. PICK g : g = assign_integer_random_upto(v)
  OBVIOUS
<1>4. CASE v > INT32_MAX \/ (v < INT32_MIN /\ v - INT64_MIN + 1 > UINT32_MAX)
  <2>1. PICK s \in Nat : s = v - INT64_MIN + 1
    BY <1>1, <1>4 DEF TypeLimits, Signed
  <2>2. g = Bound("bigint", "bigint", s, "bigint", "bigint", INT64_MIN, DIGIT_COUNT.INT64_MIN + 2)
    BY <1>1, <1>3, <1>4, <2>1 DEF TypeLimits, Signed, assign_integer_random_upto
  <2>3. /\ INT64_MIN \in Int /\ v \in Int /\ INT64_MIN + s - 1 = v
        /\ s <= Pow("bigint") /\ Reach([result |-> "bigint"], INT64_MIN, v)
    BY <1>1, <1>4, <2>1 DEF TypeLimits, Signed
  <2>4. Assigned(g, INT64_MIN, v)
    BY <1>2, <2>2, <2>3, BoundAssigned
  <2>5. (v \notin INT32_MIN..INT32_MAX /\ v # INT64_MAX) => EvenBoth(g)
    <3>1. (v \notin INT32_MIN..INT32_MAX /\ v # INT64_MAX) => s \in Nat \ {0} /\ s < Pow("bigint")
      BY <1>1, <1>4, <2>1 DEF TypeLimits, Signed
    <3> QED
      BY <1>2, <2>2, <3>1, BoundEven
  <2>6. RoomBoth(g)
    <3>1. RoomFor("bigint", DIGIT_COUNT.INT64_MIN + 2, INT64_MIN)
      BY <1>1, <1>4, DigitCounts DEF TypeLimits, Signed, RoomFor
    <3> QED
      BY <1>2, <2>2, <3>1, BoundRoom
  <2> QED
    BY <1>1, <1>3, <1>4, <2>4, <2>5, <2>6 DEF TypeLimits, Signed
<1>5. CASE v < INT32_MIN /\ v - INT64_MIN + 1 <= UINT32_MAX
  <2>1. PICK s \in Nat : s = v - INT64_MIN + 1
    BY <1>1, <1>5 DEF TypeLimits, Signed
  <2>2. g = Bound("bigint", "int", s, "int", "bigint", INT64_MIN, DIGIT_COUNT.INT64_MIN + 2)
    BY <1>1, <1>3, <1>5, <2>1 DEF TypeLimits, Signed, assign_integer_random_upto
  <2>3. /\ INT64_MIN \in Int /\ v \in Int /\ INT64_MIN + s - 1 = v
        /\ s <= Pow("int") /\ Reach([result |-> "bigint"], INT64_MIN, v)
    BY <1>1, <1>5, <2>1 DEF TypeLimits, Signed
  <2>4. Assigned(g, INT64_MIN, v)
    BY <1>2, <2>2, <2>3, BoundAssigned
  <2>5. (v \notin INT32_MIN..INT32_MAX /\ v # INT64_MAX) => EvenBoth(g)
    <3>1. (v \notin INT32_MIN..INT32_MAX /\ v # INT64_MAX) => s \in Nat \ {0} /\ s < Pow("int")
      BY <1>1, <1>5, <2>1 DEF TypeLimits, Signed
    <3> QED
      BY <1>2, <2>2, <3>1, BoundEven
  <2>6. RoomBoth(g)
    <3>1. RoomFor("bigint", DIGIT_COUNT.INT64_MIN + 2, INT64_MIN)
      BY <1>1, <1>5, DigitCounts DEF TypeLimits, Signed, RoomFor
    <3> QED
      BY <1>2, <2>2, <3>1, BoundRoom
  <2> QED
    BY <1>1, <1>3, <1>5, <2>4, <2>5, <2>6 DEF TypeLimits, Signed
<1>6. CASE v \in INT32_MIN..INT32_MAX
  <2>1. PICK s \in Nat : s = v - INT32_MIN + 1
    BY <1>1, <1>6 DEF TypeLimits, Signed
  <2>2. g = Bound("int", "int", s, "bigint", "int", INT32_MIN, DIGIT_COUNT.INT32_MIN + 2)
    BY <1>1, <1>3, <1>6, <2>1 DEF TypeLimits, Signed, assign_integer_random_upto
  <2>3. /\ INT32_MIN \in Int /\ v \in Int /\ INT32_MIN + s - 1 = v
        /\ s <= Pow("int") /\ Reach([result |-> "int"], INT32_MIN, v)
    BY <1>1, <1>6, <2>1 DEF TypeLimits, Signed
  <2>4. Assigned(g, INT32_MIN, v)
    BY <1>2, <2>2, <2>3, BoundAssigned
  <2>5. v \notin INT32_MIN..INT32_MAX /\ v # INT64_MAX => EvenBoth(g)
    BY <1>6
  <2>6. RoomBoth(g)
    <3>1. RoomFor("int", DIGIT_COUNT.INT32_MIN + 2, INT32_MIN)
      BY <1>1, <1>6, DigitCounts DEF TypeLimits, Signed, RoomFor
    <3> QED
      BY <1>2, <2>2, <3>1, BoundRoom
  <2> QED
    BY <1>1, <1>3, <1>6, <2>4, <2>5, <2>6 DEF TypeLimits, Signed
<1> QED
  BY <1>1, <1>4, <1>5, <1>6 DEF TypeLimits, Signed

(* A range is as wide as it was given, wherever it begins. *)
LEMMA IntegerRange ==
    ASSUME ask.col = "integer", NEW v \in Signed, NEW u \in Signed, v <= u
    PROVE  /\ Assigned(assign_integer_random_range(v, u), v, u)
           /\ u - v # UINT32_MAX /\ u - v # UINT64_MAX
                 => EvenBoth(assign_integer_random_range(v, u))
           /\ RoomBoth(assign_integer_random_range(v, u))
<1>1. PICK a, b \in Nat : TypeLimits(a, b)
  BY Limits
<1>2. "int" \in IntTypes /\ "bigint" \in IntTypes
  BY DEF IntTypes
<1>3. PICK g : g = assign_integer_random_range(v, u)
  OBVIOUS
<1>4. CASE v < INT32_MIN
  <2>1. PICK s \in Nat : s = u - v + 1
    BY <1>1, <1>4 DEF TypeLimits, Signed
  <2>2. g = Bound("bigint", "bigint", s, "bigint", "bigint", v, DIGIT_COUNT.INT64_MIN + 2)
    BY <1>1, <1>3, <1>4, <2>1 DEF TypeLimits, Signed, assign_integer_random_range
  <2>3. /\ v \in Int /\ u \in Int /\ v + s - 1 = u
        /\ s <= Pow("bigint") /\ Reach([result |-> "bigint"], v, u)
    BY <1>1, <1>4, <2>1 DEF TypeLimits, Signed
  <2>4. Assigned(g, v, u)
    BY <1>2, <2>2, <2>3, BoundAssigned
  <2>5. (u - v # UINT32_MAX /\ u - v # UINT64_MAX) => EvenBoth(g)
    <3>1. (u - v # UINT32_MAX /\ u - v # UINT64_MAX) => s \in Nat \ {0} /\ s < Pow("bigint")
      BY <1>1, <1>4, <2>1 DEF TypeLimits, Signed
    <3> QED
      BY <1>2, <2>2, <3>1, BoundEven
  <2>6. RoomBoth(g)
    <3>1. RoomFor("bigint", DIGIT_COUNT.INT64_MIN + 2, v)
      BY <1>1, <1>4, DigitCounts DEF TypeLimits, Signed, RoomFor
    <3> QED
      BY <1>2, <2>2, <3>1, BoundRoom
  <2> QED
    BY <1>1, <1>3, <1>4, <2>4, <2>5, <2>6 DEF TypeLimits, Signed
<1>5. CASE v >= INT32_MIN /\ u > INT32_MAX /\ u - v + 1 < UINT32_MAX
  <2>1. PICK s \in Nat : s = u - v + 1
    BY <1>1, <1>5 DEF TypeLimits, Signed
  <2>2. g = Bound("bigint", "int", s, "int", "bigint", v, DIGIT_COUNT.INT64_MAX + 1)
    BY <1>1, <1>3, <1>5, <2>1 DEF TypeLimits, Signed, assign_integer_random_range
  <2>3. /\ v \in Int /\ u \in Int /\ v + s - 1 = u
        /\ s <= Pow("int") /\ Reach([result |-> "bigint"], v, u)
    BY <1>1, <1>5, <2>1 DEF TypeLimits, Signed
  <2>4. Assigned(g, v, u)
    BY <1>2, <2>2, <2>3, BoundAssigned
  <2>5. (u - v # UINT32_MAX /\ u - v # UINT64_MAX) => EvenBoth(g)
    <3>1. (u - v # UINT32_MAX /\ u - v # UINT64_MAX) => s \in Nat \ {0} /\ s < Pow("int")
      BY <1>1, <1>5, <2>1 DEF TypeLimits, Signed
    <3> QED
      BY <1>2, <2>2, <3>1, BoundEven
  <2>6. RoomBoth(g)
    <3>1. RoomFor("bigint", DIGIT_COUNT.INT64_MAX + 1, v)
      BY <1>1, <1>5, DigitCounts DEF TypeLimits, Signed, RoomFor
    <3> QED
      BY <1>2, <2>2, <3>1, BoundRoom
  <2> QED
    BY <1>1, <1>3, <1>5, <2>4, <2>5, <2>6 DEF TypeLimits, Signed
<1>6. CASE v >= INT32_MIN /\ u > INT32_MAX /\ u - v + 1 >= UINT32_MAX
  <2>1. PICK s \in Nat : s = u - v + 1
    BY <1>1, <1>6 DEF TypeLimits, Signed
  <2>2. g = Bound("bigint", "bigint", s, "bigint", "bigint", v, DIGIT_COUNT.INT64_MAX + 1)
    BY <1>1, <1>3, <1>6, <2>1 DEF TypeLimits, Signed, assign_integer_random_range
  <2>3. /\ v \in Int /\ u \in Int /\ v + s - 1 = u
        /\ s <= Pow("bigint") /\ Reach([result |-> "bigint"], v, u)
    BY <1>1, <1>6, <2>1 DEF TypeLimits, Signed
  <2>4. Assigned(g, v, u)
    BY <1>2, <2>2, <2>3, BoundAssigned
  <2>5. (u - v # UINT32_MAX /\ u - v # UINT64_MAX) => EvenBoth(g)
    <3>1. (u - v # UINT32_MAX /\ u - v # UINT64_MAX) => s \in Nat \ {0} /\ s < Pow("bigint")
      BY <1>1, <1>6, <2>1 DEF TypeLimits, Signed
    <3> QED
      BY <1>2, <2>2, <3>1, BoundEven
  <2>6. RoomBoth(g)
    <3>1. RoomFor("bigint", DIGIT_COUNT.INT64_MAX + 1, v)
      BY <1>1, <1>6, DigitCounts DEF TypeLimits, Signed, RoomFor
    <3> QED
      BY <1>2, <2>2, <3>1, BoundRoom
  <2> QED
    BY <1>1, <1>3, <1>6, <2>4, <2>5, <2>6 DEF TypeLimits, Signed
<1>7. CASE v >= INT32_MIN /\ u <= INT32_MAX
  <2>1. PICK s \in Nat : s = u - v + 1
    BY <1>1, <1>7 DEF TypeLimits, Signed
  <2>2. g = Bound("int", "int", s, "int", "int", v, DIGIT_COUNT.INT32_MIN + 2)
    BY <1>1, <1>3, <1>7, <2>1 DEF TypeLimits, Signed, assign_integer_random_range
  <2>3. /\ v \in Int /\ u \in Int /\ v + s - 1 = u
        /\ s <= Pow("int") /\ Reach([result |-> "int"], v, u)
    BY <1>1, <1>7, <2>1 DEF TypeLimits, Signed
  <2>4. Assigned(g, v, u)
    BY <1>2, <2>2, <2>3, BoundAssigned
  <2>5. (u - v # UINT32_MAX /\ u - v # UINT64_MAX) => EvenBoth(g)
    <3>1. (u - v # UINT32_MAX /\ u - v # UINT64_MAX) => s \in Nat \ {0} /\ s < Pow("int")
      BY <1>1, <1>7, <2>1 DEF TypeLimits, Signed
    <3> QED
      BY <1>2, <2>2, <3>1, BoundEven
  <2>6. RoomBoth(g)
    <3>1. RoomFor("int", DIGIT_COUNT.INT32_MIN + 2, v)
      BY <1>1, <1>7, DigitCounts DEF TypeLimits, Signed, RoomFor
    <3> QED
      BY <1>2, <2>2, <3>1, BoundRoom
  <2> QED
    BY <1>1, <1>3, <1>7, <2>4, <2>5, <2>6 DEF TypeLimits, Signed
<1> QED
  BY <1>1, <1>4, <1>5, <1>6, <1>7 DEF TypeLimits, Signed

(* The same for unsigned columns. *)
LEMMA UnsignedFrom ==
    ASSUME ask.col # "integer", NEW v \in Unsigned
    PROVE  /\ Assigned(assign_u_integer_random_from(v), v,
                       IF v <= UINT32_MAX THEN UINT32_MAX ELSE UINT64_MAX)
           /\ v # 0 => EvenBoth(assign_u_integer_random_from(v))
           /\ RoomBoth(assign_u_integer_random_from(v))
<1>1. PICK a, b \in Nat : TypeLimits(a, b)
  BY Limits
<1>2. "int" \in IntTypes /\ "bigint" \in IntTypes
  BY DEF IntTypes
<1>7. v \in Int /\ 0 <= v /\ UINT32_MAX \in Int /\ UINT64_MAX \in Int /\ v <= UINT64_MAX
  BY <1>1 DEF TypeLimits, Unsigned
<1>3. PICK g : g = assign_u_integer_random_from(v)
  OBVIOUS
<1>4. CASE v > UINT32_MAX /\ UINT64_MAX - v + 1 < UINT32_MAX
  <2>1. PICK s \in Nat : s = UINT64_MAX - v + 1
    BY <1>4, <1>7
  <2>2. g = Bound("bigint", "int", s, "int", "bigint", v, DIGIT_COUNT.UINT64_MAX + 1)
    BY <1>1, <1>3, <1>4, <2>1 DEF TypeLimits, Unsigned, assign_u_integer_random_from
  <2>3. /\ v \in Int /\ UINT64_MAX \in Int /\ v + s - 1 = UINT64_MAX
        /\ s <= Pow("int") /\ Reach([result |-> "bigint"], v, UINT64_MAX)
    BY <1>1, <1>4, <2>1 DEF TypeLimits, Unsigned
  <2>4. Assigned(g, v, UINT64_MAX)
    BY <1>2, <2>2, <2>3, BoundAssigned
  <2>5. v # 0 => EvenBoth(g)
    <3>1. v # 0 => s \in Nat \ {0} /\ s < Pow("int")
      BY <1>1, <1>4, <2>1 DEF TypeLimits, Unsigned
    <3> QED
      BY <1>2, <2>2, <3>1, BoundEven
  <2>6. RoomBoth(g)
    <3>1. RoomFor("bigint", DIGIT_COUNT.UINT64_MAX + 1, v)
      BY <1>1, <1>4, DigitCounts DEF TypeLimits, Unsigned, RoomFor
    <3> QED
      BY <1>2, <2>2, <3>1, BoundRoom
  <2> QED
    BY <1>1, <1>3, <1>4, <2>4, <2>5, <2>6 DEF TypeLimits, Unsigned
<1>5. CASE v > UINT32_MAX /\ UINT64_MAX - v + 1 >= UINT32_MAX
  <2>1. PICK s \in Nat : s = UINT64_MAX - v + 1
    BY <1>5, <1>7
  <2>2. g = Bound("bigint", "bigint", s, "bigint", "bigint", v, DIGIT_COUNT.UINT64_MAX + 1)
    BY <1>1, <1>3, <1>5, <2>1 DEF TypeLimits, Unsigned, assign_u_integer_random_from
  <2>3. /\ v \in Int /\ UINT64_MAX \in Int /\ v + s - 1 = UINT64_MAX
        /\ s <= Pow("bigint") /\ Reach([result |-> "bigint"], v, UINT64_MAX)
    BY <1>1, <1>5, <2>1 DEF TypeLimits, Unsigned
  <2>4. Assigned(g, v, UINT64_MAX)
    BY <1>2, <2>2, <2>3, BoundAssigned
  <2>5. v # 0 => EvenBoth(g)
    <3>1. v # 0 => s \in Nat \ {0} /\ s < Pow("bigint")
      BY <1>1, <1>5, <2>1 DEF TypeLimits, Unsigned
    <3> QED
      BY <1>2, <2>2, <3>1, BoundEven
  <2>6. RoomBoth(g)
    <3>1. RoomFor("bigint", DIGIT_COUNT.UINT64_MAX + 1, v)
      BY <1>1, <1>5, DigitCounts DEF TypeLimits, Unsigned, RoomFor
    <3> QED
      BY <1>2, <2>2, <3>1, BoundRoom
  <2> QED
    BY <1>1, <1>3, <1>5, <2>4, <2>5, <2>6 DEF TypeLimits, Unsigned
<1>6. CASE v <= UINT32_MAX
  <2>1. PICK s \in Nat : s = UINT32_MAX - v + 1
    BY <1>6, <1>7
  <2>2. g = Bound("int", "int", s, "int", "int", v, DIGIT_COUNT.UINT32_MAX + 1)
    BY <1>1, <1>3, <1>6, <2>1 DEF TypeLimits, Unsigned, assign_u_integer_random_from
  <2>3. /\ v \in Int /\ UINT32_MAX \in Int /\ v + s - 1 = UINT32_MAX
        /\ s <= Pow("int") /\ Reach([result |-> "int"], v, UINT32_MAX)
    BY <1>1, <1>6, <2>1 DEF TypeLimits, Unsigned
  <2>4. Assigned(g, v, UINT32_MAX)
    BY <1>2, <2>2, <2>3, BoundAssigned
  <2>5. v # 0 => EvenBoth(g)
    <3>1. v # 0 => s \in Nat \ {0} /\ s < Pow("int")
      BY <1>1, <1>6, <2>1 DEF TypeLimits, Unsigned
    <3> QED
      BY <1>2, <2>2, <3>1, BoundEven
  <2>6. RoomBoth(g)
    <3>1. RoomFor("int", DIGIT_COUNT.UINT32_MAX + 1, v)
      BY <1>1, <1>6, DigitCounts DEF TypeLimits, Unsigned, RoomFor
    <3> QED
      BY <1>2, <2>2, <3>1, BoundRoom
  <2> QED
    BY <1>1, <1>3, <1>6, <2>4, <2>5, <2>6 DEF TypeLimits, Unsigned
<1> QED
  BY <1>1, <1>4, <1>5, <1>6 DEF TypeLimits, Unsigned

(* An unsigned UPTO begins with zero. *)
LEMMA UnsignedUpto ==
    ASSUME ask.col # "integer", NEW v \in Unsigned
    PROVE  /\ Assigned(assign_u_integer_random_upto(v), 0, v)
           /\ v # UINT32_MAX /\ v # UINT64_MAX => EvenBoth(assign_u_integer_random_upto(v))
           /\ RoomBoth(assign_u_integer_random_upto(v))
<1>1. PICK a, b \in Nat : TypeLimits(a, b)
  BY Limits
<1>2. "int" \in IntTypes /\ "bigint" \in IntTypes
  BY DEF IntTypes
<1>3. PICK g : g = assign_u_integer_random_upto(v)
  OBVIOUS
<1>4. CASE v > UINT32_MAX
  <2>1. PICK s \in Nat : s = v + 1
    BY <1>1, <1>4 DEF TypeLimits, Unsigned
  <2>2. g = Bound("bigint", "bigint", s, "bigint", "bigint", 0, DIGIT_COUNT.UINT64_MAX + 1)
    BY <1>1, <1>3, <1>4, <2>1 DEF TypeLimits, Unsigned, assign_u_integer_random_upto
  <2>3. /\ 0 \in Int /\ v \in Int /\ 0 + s - 1 = v
        /\ s <= Pow("bigint") /\ Reach([result |-> "bigint"], 0, v)
    BY <1>1, <1>4, <2>1 DEF TypeLimits, Unsigned
  <2>4. Assigned(g, 0, v)
    BY <1>2, <2>2, <2>3, BoundAssigned
  <2>5. (v # UINT32_MAX /\ v # UINT64_MAX) => EvenBoth(g)
    <3>1. (v # UINT32_MAX /\ v # UINT64_MAX) => s \in Nat \ {0} /\ s < Pow("bigint")
      BY <1>1, <1>4, <2>1 DEF TypeLimits, Unsigned
    <3> QED
      BY <1>2, <2>2, <3>1, BoundEven
  <2>6. RoomBoth(g)
    <3>1. RoomFor("bigint", DIGIT_COUNT.UINT64_MAX + 1, 0)
      BY <1>1, <1>4, DigitCounts DEF TypeLimits, Unsigned, RoomFor
    <3> QED
      BY <1>2, <2>2, <3>1, BoundRoom
  <2> QED
    BY <1>1, <1>3, <1>4, <2>4, <2>5, <2>6 DEF TypeLimits, Unsigned
<1>5. CASE v <= UINT32_MAX
  <2>1. PICK s \in Nat : s = v + 1
    BY <1>1, <1>5 DEF TypeLimits, Unsigned
  <2>2. g = Bound("int", "int", s, "int", "int", 0, DIGIT_COUNT.UINT32_MAX + 1)
    BY <1>1, <1>3, <1>5, <2>1 DEF TypeLimits, Unsigned, assign_u_integer_random_upto
  <2>3. /\ 0 \in Int /\ v \in Int /\ 0 + s - 1 = v
        /\ s <= Pow("int") /\ Reach([result |-> "int"], 0, v)
    BY <1>1, <1>5, <2>1 DEF TypeLimits, Unsigned
  <2>4. Assigned(g, 0, v)
    BY <1>2, <2>2, <2>3, BoundAssigned
  <2>5. (v # UINT32_MAX /\ v # UINT64_MAX) => EvenBoth(g)
    <3>1. (v # UINT32_MAX /\ v # UINT64_MAX) => s \in Nat \ {0} /\ s < Pow("int")
      BY <1>1, <1>5, <2>1 DEF TypeLimits, Unsigned
    <3> QED
      BY <1>2, <2>2, <3>1, BoundEven
  <2>6. RoomBoth(g)
    <3>1. RoomFor("int", DIGIT_COUNT.UINT32_MAX + 1, 0)
      BY <1>1, <1>5, DigitCounts DEF TypeLimits, Unsigned, RoomFor
    <3> QED
      BY <1>2, <2>2, <3>1, BoundRoom
  <2> QED
    BY <1>1, <1>3, <1>5, <2>4, <2>5, <2>6 DEF TypeLimits, Unsigned
<1> QED
  BY <1>1, <1>4, <1>5 DEF TypeLimits, Unsigned

(* Whatever the generator an unsigned range is drawn with, the cell has    *)
(* the width of the type.                                                  *)
LEMMA UnsignedRangeRoom ==
    ASSUME ask.col # "integer", NEW v \in Unsigned, NEW u \in Unsigned, v <= u
    PROVE  /\ RoomBoth(assign_u_integer_random_range(v, u))
           /\ Fits(assign_u_integer_random_range(v, u))
           /\ Fits(Joined(assign_u_integer_random_range(v, u)))
<1>1. PICK a, b \in Nat : TypeLimits(a, b)
  BY Limits
<1>2. "int" \in IntTypes /\ "bigint" \in IntTypes
  BY DEF IntTypes
<1>3. PICK g : g = assign_u_integer_random_range(v, u)
  OBVIOUS
<1>4. PICK s \in Nat : s = u - v + 1
  BY <1>1 DEF TypeLimits, Unsigned
<1>5. v \in Int
  BY DEF Unsigned
<1>6. PICK bits \in IntTypes, t \in IntTypes :
          g = Bound(t, bits, s, bits, t, v, uint_digit_count(UMax(t)) + 1)
  BY <1>2, <1>3, <1>4, DigitCounts DEF assign_u_integer_random_range
<1>7. RoomBoth(g)
  <2>1. RoomFor(t, uint_digit_count(UMax(t)) + 1, v)
    BY DEF RoomFor
  <2> QED
    BY <1>6, <2>1, BoundRoom
<1>8. g.span \in Nat /\ g.offset = v /\ Joined(g).span = g.span /\ Joined(g).offset = v
  <2>1. PICK p \in Nat \ {0} : p = Pow(bits)
    BY WidthsAssumption DEF Pow
  <2>2. s % p \in Nat
    BY Remainder
  <2>3. g.span = s % p /\ g.offset = v
    BY <1>6, <2>1 DEF Bound
  <2> QED
    BY <1>6, <2>2, <2>3 DEF Joined, Bound
<1>9. Fits(g) /\ Fits(Joined(g))
  BY <1>5, <1>7, <1>8, UnsignedFits DEF RoomBoth
<1> QED
  BY <1>3, <1>7, <1>9

(* Of the unsigned ranges the narrow ones: a wide one is drawn with the    *)
(* wrong generator (WideRange).                                            *)
LEMMA UnsignedRange ==
    ASSUME ask.col # "integer", NEW v \in Unsigned, NEW u \in Unsigned, v <= u, u - v < UINT32_MAX
    PROVE  /\ Assigned(assign_u_integer_random_range(v, u), v, u)
           /\ EvenBoth(assign_u_integer_random_range(v, u))
           /\ RoomBoth(assign_u_integer_random_range(v, u))
<1>1. PICK a, b \in Nat : TypeLimits(a, b)
  BY Limits
<1>2. "int" \in IntTypes /\ "bigint" \in IntTypes
  BY DEF IntTypes
<1>3. PICK g : g = assign_u_integer_random_range(v, u)
  OBVIOUS
<1>4. CASE u > UINT32_MAX
  <2>1. PICK s \in Nat : s = u - v + 1
    BY <1>1, <1>4 DEF TypeLimits, Unsigned
  <2>2. g = Bound("bigint", "bigint", s, "bigint", "bigint", v, DIGIT_COUNT.UINT64_MAX + 1)
    BY <1>1, <1>3, <1>4, <2>1 DEF TypeLimits, Unsigned, assign_u_integer_random_range
  <2>3. /\ v \in Int /\ u \in Int /\ v + s - 1 = u
        /\ s <= Pow("bigint") /\ Reach([result |-> "bigint"], v, u)
    BY <1>1, <1>4, <2>1 DEF TypeLimits, Unsigned
  <2>4. Assigned(g, v, u)
    BY <1>2, <2>2, <2>3, BoundAssigned
  <2>5. EvenBoth(g)
    <3>1. s \in Nat \ {0} /\ s < Pow("bigint")
      BY <1>1, <1>4, <2>1 DEF TypeLimits, Unsigned
    <3> QED
      BY <1>2, <2>2, <3>1, BoundEven
  <2>6. RoomBoth(g)
    <3>1. RoomFor("bigint", DIGIT_COUNT.UINT64_MAX + 1, v)
      BY <1>1, <1>4, DigitCounts DEF TypeLimits, Unsigned, RoomFor
    <3> QED
      BY <1>2, <2>2, <3>1, BoundRoom
  <2> QED
    BY <1>1, <1>3, <1>4, <2>4, <2>5, <2>6 DEF TypeLimits, Unsigned
<1>5. CASE u <= UINT32_MAX
  <2>1. PICK s \in Nat : s = u - v + 1
    BY <1>1, <1>5 DEF TypeLimits, Unsigned
  <2>2. g = Bound("int", "int", s, "int", "int", v, DIGIT_COUNT.UINT32_MAX + 1)
    BY <1>1, <1>3, <1>5, <2>1 DEF TypeLimits, Unsigned, assign_u_integer_random_range
  <2>3. /\ v \in Int /\ u \in Int /\ v + s - 1 = u
        /\ s <= Pow("int") /\ Reach([result |-> "int"], v, u)
    BY <1>1, <1>5, <2>1 DEF TypeLimits, Unsigned
  <2>4. Assigned(g, v, u)
    BY <1>2, <2>2, <2>3, BoundAssigned
  <2>5. EvenBoth(g)
    <3>1. s \in Nat \ {0} /\ s < Pow("int")
      BY <1>1, <1>5, <2>1 DEF TypeLimits, Unsigned
    <3> QED
      BY <1>2, <2>2, <3>1, BoundEven
  <2>6. RoomBoth(g)
    <3>1. RoomFor("int", DIGIT_COUNT.UINT32_MAX + 1, v)
      BY <1>1, <1>5, DigitCounts DEF TypeLimits, Unsigned, RoomFor
    <3> QED
      BY <1>2, <2>2, <3>1, BoundRoom
  <2> QED
    BY <1>1, <1>3, <1>5, <2>4, <2>5, <2>6 DEF TypeLimits, Unsigned
<1> QED
  BY <1>1, <1>4, <1>5 DEF TypeLimits, Unsigned

-----------------------------------------------------------------------------
(* What the command line can ask for. *)
LEMMA AskShape ==
    ASSUME ask \in Asks
    PROVE  /\ ask.col \in {"integer", "u_integer"} /\ ask.joined \in BOOLEAN
           /\ ask.how \in {"default", "from", "upto", "range"}
           /\ ask.col = "integer" /\ ask.how \in {"from", "upto"} => ask.values[1] \in Signed
           /\ ask.col = "u_integer" /\ ask.how \in {"from", "upto"} => ask.values[1] \in Unsigned
           /\ ask.col = "integer" /\ ask.how = "range" =>
                 /\ ask.values[1] \in Signed /\ ask.values[2] \in Signed
                 /\ ask.values[1] <= ask.values[2]
           /\ ask.col = "u_integer" /\ ask.how = "range" =>
                 /\ ask.values[1] \in Unsigned /\ ask.values[2] \in Unsigned
                 /\ ask.values[1] <= ask.values[2]
<1>1. PICK c \in {"integer", "u_integer"}, h \in {"default", "from", "upto", "range"} :
          ask \in {[col |-> c, how |-> h, values |-> v, grouped |-> g, joined |-> j,
                    rows |-> 1, grp |-> 1] : v \in Values(c, h), g \in BOOLEAN, j \in BOOLEAN}
  BY DEF Asks
<1>2. PICK v \in Values(c, h), g \in BOOLEAN, j \in BOOLEAN :
          ask = [col |-> c, how |-> h, values |-> v, grouped |-> g, joined |-> j,
                 rows |-> 1, grp |-> 1]
  BY <1>1
<1>3. ask.col = c /\ ask.how = h /\ ask.joined = j /\ ask.values = v
  BY <1>2
<1>4. CASE h = "range"
  <2>1. v \in {w \in (IF c = "integer" THEN Signed ELSE Unsigned)
                       \X (IF c = "integer" THEN Signed ELSE Unsigned) : w[1] <= w[2]}
    BY <1>4 DEF Values
  <2> QED
    BY <1>3, <1>4, <2>1
<1>5. CASE h \in {"from", "upto"}
  <2>1. v \in {<<u>> : u \in IF c = "integer" THEN Signed ELSE Unsigned}
    BY <1>5 DEF Values
  <2> QED
    BY <1>3, <1>5, <2>1
<1>6. CASE h = "default"
  BY <1>3, <1>6
<1> QED
  BY <1>1, <1>4, <1>5, <1>6

(* The generator is the one that column_X or join_X was given. *)
LEMMA SetGen ==
    ASSUME NEW c, NEW g
    PROVE  SetRandom(c, g).gen = g /\ JoinRandom(c, g).gen = g
  BY DEF SetRandom, JoinRandom

(* What a column may expect of its generator: values of the interval, each *)
(* by as many draws, that fit.                                             *)
Gives(g) == Draws(g) /\ (~ZeroSpan /\ ~NarrowUpto => Fair(g)) /\ Fits(g)

(* A generator that covers the interval gives what is asked for. *)
LEMMA CoversGives ==
    ASSUME NEW g, Covers(g, Least, Greatest), ~ZeroSpan /\ ~NarrowUpto => Even(g), Room(g)
    PROVE  Gives(g)
<1>1. g.span \in Nat /\ g.offset \in Int
  BY DEF Covers
<1> QED
  BY <1>1, CoversDraws, EvenFair, RoomFits, UnsignedFits DEF Gives

(* What the assign_* functions return does, in a column and in a JOIN. *)
LEMMA AssignedGives ==
    ASSUME NEW g, Assigned(g, Least, Greatest), ~ZeroSpan /\ ~NarrowUpto => EvenBoth(g),
           RoomBoth(g)
    PROVE  Gives(g) /\ Gives(Joined(g))
<1>1. Gives(g)
  BY CoversGives DEF Assigned, EvenBoth, RoomBoth
<1>2. Gives(Joined(g))
  BY CoversGives DEF Assigned, EvenBoth, RoomBoth
<1> QED
  BY <1>1, <1>2

(* The generators of a whole width. *)
LEMMA WholeFits ==
    /\ ask.col = "integer" => Fits(I32) /\ Fits(I64)
    /\ ask.col # "integer" => Fits(U32) /\ Fits(U64)
BY UnboundFits, DigitCounts DEF I32, I64, U32, U64, IntTypes

(* And so do generators without bound, of their whole width. *)
LEMMA WholeWidths ==
    /\ Least = INT32_MIN /\ Greatest = INT32_MAX /\ ask.col = "integer" => Gives(I32)
    /\ Least = INT64_MIN /\ Greatest = INT64_MAX /\ ask.col = "integer" => Gives(I64)
    /\ Least = 0 /\ Greatest = UINT32_MAX /\ ask.col = "u_integer" => Gives(U32)
    /\ Least = 0 /\ Greatest = UINT64_MAX /\ ask.col = "u_integer" => Gives(U64)
<1>1. "int" \in IntTypes /\ "bigint" \in IntTypes
  BY DEF IntTypes
<1>2. Least = INT32_MIN /\ Greatest = INT32_MAX /\ ask.col = "integer" => Draws(I32) /\ Fair(I32)
  BY <1>1, UnboundDraws, UnboundFair DEF I32, INT32_MIN, INT32_MAX, WidthLeast, WidthGreatest
<1>3. Least = INT64_MIN /\ Greatest = INT64_MAX /\ ask.col = "integer" => Draws(I64) /\ Fair(I64)
  BY <1>1, UnboundDraws, UnboundFair DEF I64, INT64_MIN, INT64_MAX, WidthLeast, WidthGreatest
<1>4. Least = 0 /\ Greatest = UINT32_MAX /\ ask.col = "u_integer" => Draws(U32) /\ Fair(U32)
  BY <1>1, UnboundDraws, UnboundFair DEF U32, UINT32_MAX, WidthLeast, WidthGreatest
<1>5. Least = 0 /\ Greatest = UINT64_MAX /\ ask.col = "u_integer" => Draws(U64) /\ Fair(U64)
  BY <1>1, UnboundDraws, UnboundFair DEF U64, UINT64_MAX, WidthLeast, WidthGreatest
<1> QED
  BY <1>2, <1>3, <1>4, <1>5, WholeFits DEF Gives

(* Integer columns, alone and in a JOIN, with groups and without. *)
LEMMA IntegerGives ==
    ASSUME ask \in Asks, ask.col = "integer", ~WideRange
    PROVE  Gives(SetColumn(ask).gen)
<1>1. PICK a, b \in Nat : TypeLimits(a, b)
  BY Limits
<1>2. CASE ask.how = "default"
  <2>1. SetColumn(ask).gen = I32
    BY <1>2, SetGen DEF SetColumn, column_integer_random_default, join_integer_random_default
  <2>2. Least = INT32_MIN /\ Greatest = INT32_MAX
    BY <1>2 DEF Least, Greatest
  <2> QED
    BY <2>1, <2>2, WholeWidths
<1>3. CASE ask.how = "from"
  <2>1. PICK v \in Signed : v = ask.values[1]
    BY <1>3, AskShape
  <2>2. /\ Least = v
        /\ Greatest = IF v \in INT32_MIN..INT32_MAX THEN INT32_MAX ELSE INT64_MAX
    BY <1>3, <2>1 DEF Least, Greatest, Narrow
  <2>3. PICK g : g = assign_integer_random_from(v)
    OBVIOUS
  <2>8. v # INT64_MIN => /\ Assigned(g, Least, Greatest) /\ RoomBoth(g)
                         /\ v # INT32_MIN => EvenBoth(g)
    BY <1>3, <2>2, <2>3, IntegerFrom
  <2>4. v # INT32_MIN /\ v # INT64_MIN => Gives(g) /\ Gives(Joined(g))
    BY <2>8, AssignedGives
  <2>5. SetColumn(ask).gen
           = IF ~ask.joined /\ ask.grouped THEN column_integer_random_from_group(ask).gen
             ELSE CASE v = INT32_MIN -> I32
                    [] v = INT64_MIN -> I64
                    [] OTHER -> IF ask.joined THEN Joined(g) ELSE g
    BY <1>3, <2>1, <2>3, SetGen, AskShape
    DEF SetColumn, column_integer_random_from, join_integer_random_from,
        assign_join_integer_random_from
  <2>6. CASE ~ask.joined /\ ask.grouped
    <3>1. \E f : column_integer_random_from_group(ask).gen = [g EXCEPT !.flags = f]
      <4> DEFINE fallen == CASE v = INT32_MIN -> {"int", "bigint"}
                             [] v = INT64_MIN -> {"bigint"}
                             [] OTHER -> {}
                 f == g.flags \union fallen
      <4>1. column_integer_random_from_group(ask) = SetRandom(ask, [g EXCEPT !.flags = f])
        BY <2>1, <2>3 DEF column_integer_random_from_group
      <4>2. PICK e : e = [g EXCEPT !.flags = f]
        OBVIOUS
      <4>3. column_integer_random_from_group(ask).gen = e
        BY <4>1, <4>2, SetGen
      <4> QED
        BY <4>2, <4>3
    <3>6. PICK f : column_integer_random_from_group(ask).gen = [g EXCEPT !.flags = f]
      BY <3>1
    <3>2. PICK x : x = [g EXCEPT !.flags = f]
      OBVIOUS
    <3>3. /\ x.span = g.span /\ x.offset = g.offset /\ x.result = g.result /\ x.bits = g.bits
          /\ x.threshold = g.threshold /\ x.width = g.width
      BY <2>3, <3>2 DEF assign_integer_random_from, Bound
    <3>4. CASE v # INT64_MIN
      <4>1. Covers(x, Least, Greatest)
        BY <2>8, <3>3, <3>4 DEF Assigned, Covers, Reach
      <4>2. ~ZeroSpan => Even(x)
        <5>1. ~ZeroSpan => v # INT32_MIN
          BY <1>3, <2>1, <2>6 DEF ZeroSpan
        <5> QED
          BY <2>8, <3>3, <3>4, <5>1 DEF EvenBoth, Even
      <4>3. Room(x)
        BY <2>8, <3>3, <3>4 DEF RoomBoth, Room
      <4>4. Gives(x)
        BY <4>1, <4>2, <4>3, CoversGives
      <4> QED
        BY <2>5, <2>6, <3>2, <3>6, <4>4
    <3>5. CASE v = INT64_MIN
      <4>1. PICK p \in Nat \ {0} : p = Pow("bigint") /\ INT64_MAX - v + 1 = p /\ v < INT32_MIN
        BY <1>1, <3>5 DEF TypeLimits
      <4>2. p % p = 0 /\ 0 % p = 0
        BY Remainder
      <4>3. x.span = 0
        BY <2>3, <3>3, <4>1, <4>2 DEF assign_integer_random_from, Bound
      <4>4. ZeroSpan
        BY <1>3, <2>1, <2>6, <3>5 DEF ZeroSpan
      <4>5. Gives(x)
        BY <4>3, <4>4 DEF Gives, Draws, Fits
      <4> QED
        BY <2>5, <2>6, <3>2, <3>6, <4>5
    <3> QED
      BY <3>4, <3>5
  <2>7. CASE ~(~ask.joined /\ ask.grouped)
    <3>1. v = INT32_MIN => Greatest = INT32_MAX
      BY <1>1, <2>2 DEF TypeLimits
    <3>2. v = INT64_MIN => Greatest = INT64_MAX /\ INT64_MIN # INT32_MIN
      BY <1>1, <2>2 DEF TypeLimits
    <3> QED
      BY <2>2, <2>4, <2>5, <2>7, <3>1, <3>2, WholeWidths
  <2> QED
    BY <2>6, <2>7
<1>4. CASE ask.how = "upto"
  <2>1. PICK v \in Signed : v = ask.values[1]
    BY <1>4, AskShape
  <2>2. /\ Least = IF v \in INT32_MIN..INT32_MAX THEN INT32_MIN ELSE INT64_MIN
        /\ Greatest = v
    BY <1>4, <2>1 DEF Least, Greatest, Narrow
  <2>3. PICK g : g = assign_integer_random_upto(v)
    OBVIOUS
  <2>4. v # INT64_MAX => Gives(g) /\ Gives(Joined(g))
    <3>1. ~NarrowUpto => v \notin INT32_MIN..INT32_MAX
      BY <1>4, <2>1 DEF NarrowUpto, Narrow
    <3>2. /\ Assigned(g, Least, Greatest) /\ RoomBoth(g)
          /\ v \notin INT32_MIN..INT32_MAX /\ v # INT64_MAX => EvenBoth(g)
      BY <2>2, <2>3, IntegerUpto
    <3> QED
      BY <3>1, <3>2, AssignedGives
  <2>5. SetColumn(ask).gen = CASE v = INT32_MAX -> I32
                               [] v = INT64_MAX -> I64
                               [] OTHER -> IF ask.joined THEN Joined(g) ELSE g
    BY <1>4, <2>1, <2>3, SetGen, AskShape
    DEF SetColumn, column_integer_random_upto, join_integer_random_upto,
        assign_join_integer_random_upto
  <2>6. v = INT32_MAX => Least = INT32_MIN
    BY <1>1, <2>2 DEF TypeLimits
  <2>7. v = INT64_MAX => Least = INT64_MIN /\ INT64_MAX # INT32_MAX
    BY <1>1, <2>2 DEF TypeLimits
  <2> QED
    BY <2>2, <2>4, <2>5, <2>6, <2>7, WholeWidths
<1>5. CASE ask.how = "range"
  <2>1. PICK v, u \in Signed : v = ask.values[1] /\ u = ask.values[2] /\ v <= u
    BY <1>5, AskShape
  <2>2. Least = v /\ Greatest = u
    BY <1>5, <2>1 DEF Least, Greatest
  <2>3. PICK g : g = assign_integer_random_range(v, u)
    OBVIOUS
  <2>5. u - v # UINT32_MAX
    BY <1>5, <2>1 DEF WideRange
  <2>4. u - v # UINT64_MAX => Gives(g) /\ Gives(Joined(g))
    <3>1. /\ Assigned(g, Least, Greatest) /\ RoomBoth(g)
          /\ u - v # UINT64_MAX => EvenBoth(g)
      BY <2>1, <2>2, <2>3, <2>5, IntegerRange
    <3> QED
      BY <3>1, AssignedGives
  <2>6. SetColumn(ask).gen = IF u - v = UINT64_MAX THEN I64
                             ELSE IF ask.joined THEN Joined(g) ELSE g
    BY <1>5, <2>1, <2>3, <2>5, SetGen, AskShape
    DEF SetColumn, column_integer_random_range, join_integer_random_range,
        assign_join_integer_random_range
  <2>7. u - v = UINT64_MAX => v = INT64_MIN /\ u = INT64_MAX
    BY <1>1, <2>1 DEF TypeLimits, Signed
  <2> QED
    BY <2>2, <2>4, <2>6, <2>7, WholeWidths
<1> QED
  BY <1>2, <1>3, <1>4, <1>5, AskShape

(* Unsigned columns. *)
LEMMA UnsignedGives ==
    ASSUME ask \in Asks, ask.col = "u_integer", ~WideRange
    PROVE  Gives(SetColumn(ask).gen)
<1>1. PICK a, b \in Nat : TypeLimits(a, b)
  BY Limits
<1>2. CASE ask.how = "default"
  <2>1. SetColumn(ask).gen = U32
    BY <1>2, SetGen
    DEF SetColumn, column_u_integer_random_default, join_u_integer_random_default
  <2>2. Least = 0 /\ Greatest = UINT32_MAX
    BY <1>2 DEF Least, Greatest
  <2> QED
    BY <2>1, <2>2, WholeWidths
<1>3. CASE ask.how = "from"
  <2>1. PICK v \in Unsigned : v = ask.values[1]
    BY <1>3, AskShape
  <2>2. Least = v /\ Greatest = IF v <= UINT32_MAX THEN UINT32_MAX ELSE UINT64_MAX
    <3>1. Least = v
      BY <1>3, <2>1 DEF Least
    <3>2. Narrow(v) <=> v <= UINT32_MAX
      BY <1>1 DEF Narrow, Unsigned, TypeLimits
    <3>3. Greatest = IF Narrow(v) THEN UINT32_MAX ELSE UINT64_MAX
      BY <1>3, <2>1 DEF Greatest
    <3> QED
      BY <3>1, <3>2, <3>3
  <2>3. PICK g : g = assign_u_integer_random_from(v)
    OBVIOUS
  <2>4. v # 0 => Gives(g) /\ Gives(Joined(g))
    <3>1. Assigned(g, Least, Greatest) /\ RoomBoth(g) /\ (v # 0 => EvenBoth(g))
      BY <2>2, <2>3, UnsignedFrom
    <3> QED
      BY <3>1, AssignedGives
  <2>5. SetColumn(ask).gen = IF v = 0 THEN U32 ELSE IF ask.joined THEN Joined(g) ELSE g
    BY <1>3, <2>1, <2>3, SetGen, AskShape
    DEF SetColumn, column_u_integer_random_from, join_u_integer_random_from,
        assign_join_u_integer_random_from
  <2>6. v = 0 => Greatest = UINT32_MAX
    BY <1>1, <2>2 DEF TypeLimits
  <2> QED
    BY <2>2, <2>4, <2>5, <2>6, WholeWidths
<1>4. CASE ask.how = "upto"
  <2>1. PICK v \in Unsigned : v = ask.values[1]
    BY <1>4, AskShape
  <2>2. Least = 0 /\ Greatest = v
    BY <1>4, <2>1 DEF Least, Greatest
  <2>3. PICK g : g = assign_u_integer_random_upto(v)
    OBVIOUS
  <2>4. v # UINT32_MAX /\ v # UINT64_MAX => Gives(g) /\ Gives(Joined(g))
    <3>1. /\ Assigned(g, Least, Greatest) /\ RoomBoth(g)
          /\ v # UINT32_MAX /\ v # UINT64_MAX => EvenBoth(g)
      BY <2>2, <2>3, UnsignedUpto
    <3> QED
      BY <3>1, AssignedGives
  <2>5. SetColumn(ask).gen = CASE v = UINT32_MAX -> U32
                               [] v = UINT64_MAX -> U64
                               [] OTHER -> IF ask.joined THEN Joined(g) ELSE g
    BY <1>4, <2>1, <2>3, SetGen, AskShape
    DEF SetColumn, column_u_integer_random_upto, join_u_integer_random_upto,
        assign_join_u_integer_random_upto
  <2>6. UINT32_MAX # UINT64_MAX
    BY <1>1 DEF TypeLimits
  <2> QED
    BY <2>2, <2>4, <2>5, <2>6, WholeWidths
<1>5. CASE ask.how = "range"
  <2>1. PICK v, u \in Unsigned : v = ask.values[1] /\ u = ask.values[2] /\ v <= u
    BY <1>5, AskShape
  <2>2. Least = v /\ Greatest = u
    <3>1. Least = v
      BY <1>5, <2>1 DEF Least
    <3>2. Greatest = u
      BY <1>5, <2>1 DEF Greatest
    <3> QED
      BY <3>1, <3>2
  <2>3. PICK g : g = assign_u_integer_random_range(v, u)
    OBVIOUS
  <2>4. u - v < UINT32_MAX /\ u - v # UINT32_MAX /\ u - v # UINT64_MAX
    BY <1>1, <1>5, <2>1 DEF WideRange, TypeLimits, Unsigned
  <2>5. Gives(g) /\ Gives(Joined(g))
    <3>1. Assigned(g, Least, Greatest) /\ RoomBoth(g) /\ EvenBoth(g)
      BY <2>1, <2>2, <2>3, <2>4, UnsignedRange
    <3> QED
      BY <3>1, AssignedGives
  <2>6. SetColumn(ask).gen = IF ask.joined THEN Joined(g) ELSE g
    BY <1>5, <2>1, <2>3, <2>4, SetGen, AskShape
    DEF SetColumn, column_u_integer_random_range, join_u_integer_random_range,
        assign_join_u_integer_random_range
  <2> QED
    BY <2>5, <2>6
<1> QED
  BY <1>2, <1>3, <1>4, <1>5, AskShape

(* A wide range is drawn with the wrong generator, but its cells fit. *)
LEMMA WideFits ==
    ASSUME ask \in Asks, WideRange
    PROVE  Fits(SetColumn(ask).gen)
<1>1. ask.how = "range"
  BY DEF WideRange
<1>2. CASE ask.col = "integer"
  <2>1. ask.values[2] - ask.values[1] = UINT32_MAX
    BY <1>2 DEF WideRange
  <2>3. UINT32_MAX # UINT64_MAX
    BY Limits DEF TypeLimits
  <2>2. SetColumn(ask).gen = I32
    BY <1>1, <1>2, <2>1, <2>3, SetGen, AskShape
    DEF SetColumn, column_integer_random_range, join_integer_random_range
  <2> QED
    BY <1>2, <2>2, WholeFits
<1>3. CASE ask.col = "u_integer"
  <2>1. PICK v, u \in Unsigned : v = ask.values[1] /\ u = ask.values[2] /\ v <= u
    BY <1>1, <1>3, AskShape
  <2>2. PICK g : g = assign_u_integer_random_range(v, u)
    OBVIOUS
  <2>3. SetColumn(ask).gen = CASE u - v = UINT32_MAX -> U32
                               [] u - v = UINT64_MAX -> U64
                               [] OTHER -> IF ask.joined THEN Joined(g) ELSE g
    BY <1>1, <1>3, <2>1, <2>2, SetGen, AskShape
    DEF SetColumn, column_u_integer_random_range, join_u_integer_random_range,
        assign_join_u_integer_random_range
  <2>4. Fits(g) /\ Fits(Joined(g))
    BY <1>3, <2>1, <2>2, UnsignedRangeRoom
  <2> QED
    BY <1>3, <2>3, <2>4, WholeFits
<1> QED
  BY <1>2, <1>3, AskShape

(* The type of a column is the one its generator's sums have, the length   *)
(* of a JOIN leaves out the end of the text.                               *)
Typed(g) == g.type = g.result

(* Whatever the values asked for, the generator has a type of its kind. *)
LEMMA AllTyped ==
    /\ Typed(I32) /\ Typed(I64) /\ Typed(U32) /\ Typed(U64)
    /\ \A v : /\ Typed(assign_integer_random_from(v)) /\ Typed(assign_integer_random_upto(v))
             /\ Typed(assign_u_integer_random_from(v)) /\ Typed(assign_u_integer_random_upto(v))
    /\ \A v, u : /\ Typed(assign_integer_random_range(v, u))
                /\ Typed(assign_u_integer_random_range(v, u))
<1>1. Typed(I32) /\ Typed(I64) /\ Typed(U32) /\ Typed(U64)
  BY DEF Typed, I32, I64, U32, U64, Unbound
<1>2. ASSUME NEW t, NEW bits, NEW span, NEW wide, NEW offset, NEW width
      PROVE  Typed(Bound(t, bits, span, wide, t, offset, width))
  BY DEF Typed, Bound
<1>3. ASSUME NEW v
      PROVE  /\ Typed(assign_integer_random_from(v)) /\ Typed(assign_integer_random_upto(v))
             /\ Typed(assign_u_integer_random_from(v)) /\ Typed(assign_u_integer_random_upto(v))
  <2>1. Typed(assign_integer_random_from(v))
    BY <1>2, Zenon DEF assign_integer_random_from
  <2>2. Typed(assign_integer_random_upto(v))
    BY <1>2, Zenon DEF assign_integer_random_upto
  <2>3. Typed(assign_u_integer_random_from(v))
    BY <1>2, Zenon DEF assign_u_integer_random_from
  <2>4. Typed(assign_u_integer_random_upto(v))
    BY <1>2, Zenon DEF assign_u_integer_random_upto
  <2> QED
    BY <2>1, <2>2, <2>3, <2>4
<1>4. ASSUME NEW v, NEW u
      PROVE  /\ Typed(assign_integer_random_range(v, u))
             /\ Typed(assign_u_integer_random_range(v, u))
  <2>1. Typed(assign_integer_random_range(v, u))
    BY <1>2, Zenon DEF assign_integer_random_range
  <2>2. Typed(assign_u_integer_random_range(v, u))
    BY <1>2, Zenon DEF assign_u_integer_random_range
  <2> QED
    BY <2>1, <2>2
<1> QED
  BY <1>1, <1>3, <1>4

Placed(c) == IF ask.joined THEN c.length = c.gen.width - 1 ELSE c.type = c.gen.result

(* A column with such a generator is a column of its kind. *)
LEMMA SetPlaced ==
    ASSUME NEW g
    PROVE  /\ ask.joined => Placed(JoinRandom(ask, g))
           /\ ~ask.joined /\ Typed(g) => Placed(SetRandom(ask, g))
<1>1. PICK c : c = SetRandom(ask, g)
  OBVIOUS
<1>2. c.gen = g /\ c.type = g.type
  BY <1>1 DEF SetRandom
<1>3. PICK j : j = JoinRandom(ask, g)
  OBVIOUS
<1>4. j.gen = g /\ j.length = g.width - 1
  BY <1>3 DEF JoinRandom, SetRandom
<1> QED
  BY <1>1, <1>2, <1>3, <1>4 DEF Placed, Typed

(* Every RAND_SPEC gives a column of the kind it asks for. *)
LEMMA ColumnPlaced ==
    ASSUME ask \in Asks
    PROVE  Placed(SetColumn(ask))
<1>1. CASE ask.joined
  <2>1. \E g : SetColumn(ask) = JoinRandom(ask, g)
    BY <1>1, AskShape
    DEF SetColumn, join_integer_random_default, join_integer_random_from,
        join_integer_random_upto, join_integer_random_range,
        join_u_integer_random_default, join_u_integer_random_from,
        join_u_integer_random_upto, join_u_integer_random_range
  <2> QED
    BY <1>1, <2>1, SetPlaced
<1>2. CASE ~ask.joined
  <2>1. \E g : SetColumn(ask) = SetRandom(ask, g) /\ Typed(g)
    <3>1. PICK v : v = ask.values[1]
      OBVIOUS
    <3>2. PICK u : u = ask.values[2]
      OBVIOUS
    <3>3. INT32_MIN # INT64_MIN /\ INT32_MAX # INT64_MAX /\ UINT32_MAX # UINT64_MAX
      BY Limits DEF TypeLimits
    <3>4. CASE ask.how = "default"
      BY <1>2, <3>4, AllTyped, AskShape
      DEF SetColumn, column_integer_random_default, column_u_integer_random_default
    <3>5. CASE ask.how = "from" /\ ask.col = "u_integer"
      BY <1>2, <3>5, AllTyped DEF SetColumn, column_u_integer_random_from
    <3>6. CASE ask.how = "from" /\ ask.col = "integer" /\ ~ask.grouped
      BY <1>2, <3>3, <3>6, AllTyped DEF SetColumn, column_integer_random_from
    <3>7. CASE ask.how = "from" /\ ask.col = "integer" /\ ask.grouped
      <4>1. PICK g : g = assign_integer_random_from(v)
        OBVIOUS
      <4>2. \E f : SetColumn(ask) = SetRandom(ask, [g EXCEPT !.flags = f])
        BY <1>2, <3>1, <3>7, <4>1 DEF SetColumn, column_integer_random_from_group
      <4>3. PICK f : SetColumn(ask) = SetRandom(ask, [g EXCEPT !.flags = f])
        BY <4>2
      <4>4. Typed([g EXCEPT !.flags = f])
        <5>1. Typed(g)
          BY <4>1, AllTyped
        <5> QED
          BY <4>1, <5>1 DEF Typed, assign_integer_random_from, Bound
      <4> QED
        BY <4>3, <4>4
    <3>8. CASE ask.how = "upto" /\ ask.col = "u_integer"
      BY <1>2, <3>3, <3>8, AllTyped DEF SetColumn, column_u_integer_random_upto
    <3>9. CASE ask.how = "upto" /\ ask.col = "integer"
      BY <1>2, <3>3, <3>9, AllTyped DEF SetColumn, column_integer_random_upto
    <3>10. CASE ask.how = "range" /\ ask.col = "u_integer"
      BY <1>2, <3>3, <3>10, AllTyped DEF SetColumn, column_u_integer_random_range
    <3>11. CASE ask.how = "range" /\ ask.col = "integer"
      BY <1>2, <3>3, <3>11, AllTyped DEF SetColumn, column_integer_random_range
    <3> QED
      BY <3>4, <3>5, <3>6, <3>7, <3>8, <3>9, <3>10, <3>11, AskShape
  <2> QED
    BY <1>2, <2>1, SetPlaced
<1> QED
  BY <1>1, <1>2

(* The generator of a column as it was set: it gives what may be expected  *)
(* unless the range is a wide one, and always fits.                        *)
LEMMA ColumnGives ==
    ASSUME ask \in Asks
    PROVE  (~WideRange => Gives(SetColumn(ask).gen)) /\ Fits(SetColumn(ask).gen)
<1>1. ~WideRange => Gives(SetColumn(ask).gen)
  BY IntegerGives, UnsignedGives, AskShape
<1> QED
  BY <1>1, WideFits DEF Gives

(* The interval asked for is not empty. *)
LEMMA LeastAsked ==
    ASSUME ask \in Asks
    PROVE  Least \in Least..Greatest
<1>1. PICK a, b \in Nat : TypeLimits(a, b)
  BY Limits
<1>2. Least \in Int /\ Greatest \in Int /\ Least <= Greatest
  <2>1. CASE ask.how = "default"
    BY <1>1, <2>1, AskShape DEF Least, Greatest, TypeLimits
  <2>2. CASE ask.how = "from"
    <3>1. PICK v \in Int : v = ask.values[1]
      BY <2>2, AskShape DEF Signed, Unsigned
    <3>2. CASE ask.col = "integer"
      BY <1>1, <2>2, <3>1, <3>2, AskShape DEF Least, Greatest, Narrow, TypeLimits, Signed
    <3>3. CASE ask.col = "u_integer"
      BY <1>1, <2>2, <3>1, <3>3, AskShape DEF Least, Greatest, Narrow, TypeLimits, Unsigned
    <3> QED
      BY <3>2, <3>3, AskShape
  <2>3. CASE ask.how = "upto"
    <3>1. PICK v \in Int : v = ask.values[1]
      BY <2>3, AskShape DEF Signed, Unsigned
    <3>2. CASE ask.col = "integer"
      BY <1>1, <2>3, <3>1, <3>2, AskShape DEF Least, Greatest, Narrow, TypeLimits, Signed
    <3>3. CASE ask.col = "u_integer"
      BY <1>1, <2>3, <3>1, <3>3, AskShape DEF Least, Greatest, Narrow, TypeLimits, Unsigned
    <3> QED
      BY <3>2, <3>3, AskShape
  <2>4. CASE ask.how = "range"
    <3>1. PICK v, u \in Int : v = ask.values[1] /\ u = ask.values[2] /\ v <= u
      BY <2>4, AskShape DEF Signed, Unsigned
    <3>2. Least = v
      BY <2>4, <3>1 DEF Least
    <3>3. Greatest = u
      BY <2>4, <3>1 DEF Greatest
    <3> QED
      BY <3>1, <3>2, <3>3
  <2> QED
    BY <2>1, <2>2, <2>3, <2>4, AskShape
<1> QED
  BY <1>2

-----------------------------------------------------------------------------
(* The column stays as the command line set it. *)
AsSet == ask \in Asks /\ col = SetColumn(ask)

RangeInv == AsSet /\ InRequestedRange

(* Only an accepted draw puts a value in the cell. *)
LEMMA RangeInvStep == RangeInv /\ [Next]_vars => RangeInv'
<1> SUFFICES ASSUME RangeInv, [Next]_vars PROVE RangeInv'
  OBVIOUS
<1>1. ask' = ask /\ col' = col
  BY DEF Next, Reject, Accept, NextCell, vars
<1>2. WideRange' = WideRange /\ Least' = Least /\ Greatest' = Greatest
  BY <1>1 DEF WideRange, Least, Greatest, Narrow
<1>3. CASE value' \in {value, {}}
  BY <1>1, <1>2, <1>3 DEF RangeInv, AsSet, InRequestedRange
<1>4. ASSUME NEW r \in random_uint(Gen.bits), Accept(r) PROVE RangeInv'
  <2>1. r \in Nat
    BY DEF random_uint
  <2>2. value' = {generate(Gen, r)} /\ Gen.span > 0
    BY <1>4 DEF Accept, CanDraw
  <2>3. ~WideRange => Draws(Gen)
    BY ColumnGives DEF RangeInv, AsSet, Gen, Gives
  <2>4. ~WideRange => generate(Gen, r) \in Least..Greatest
    BY <2>1, <2>2, <2>3 DEF Draws
  <2> QED
    BY <1>1, <1>2, <2>2, <2>4 DEF RangeInv, AsSet, InRequestedRange
<1>5. CASE UNCHANGED vars
  BY <1>3, <1>5 DEF vars
<1>6. ASSUME NEW r \in random_uint(Gen.bits), Reject(r) PROVE RangeInv'
  BY <1>3, <1>6 DEF Reject
<1>7. CASE NextCell
  BY <1>3, <1>7 DEF NextCell
<1> QED
  BY <1>4, <1>5, <1>6, <1>7 DEF Next

(* Whatever the widths of the integer types, whatever RAND_SPEC was given  *)
(* and whatever the generators draw, a cell of a random column holds a     *)
(* value of the interval asked for, except where WideRange says so         *)
(* (mysql_seed_generate.h, random.h).                                      *)
THEOREM RandomValuesInRange == Spec => []InRequestedRange
<1>1. Init => RangeInv
  BY DEF Init, RangeInv, AsSet, InRequestedRange
<1>2. RangeInv => InRequestedRange
  BY DEF RangeInv
<1> QED
  BY <1>1, <1>2, RangeInvStep, PTL DEF Spec

(* No step changes what was asked for or the generator it set.             *)
LEMMA AsSetStep == AsSet /\ [Next]_vars => AsSet'
<1> SUFFICES ASSUME AsSet, [Next]_vars PROVE AsSet'
  OBVIOUS
<1>1. ask' = ask /\ col' = col
  BY DEF Next, Reject, Accept, NextCell, vars
<1> QED
  BY <1>1 DEF AsSet, SetColumn

(* The threshold makes the remainder fair: of the draws of 32 or 64 bits   *)
(* that are accepted, as many give each value of the interval asked for    *)
(* (random_uint32_bound and random_uint64_bound of random.h with the spans *)
(* and thresholds of mysql_seed_generate.h), whatever the widths and       *)
(* whatever the RAND_SPEC, three kinds excepted.                           *)
THEOREM RandomValuesUnbiased == Spec => []Unbiased
<1>1. Init => AsSet
  BY DEF Init, AsSet
<1>2. AsSet => Unbiased
  <2> SUFFICES ASSUME AsSet, ~WideRange, ~ZeroSpan, ~NarrowUpto
               PROVE  LET n == Cardinality(Share(Least))
                      IN  n > 0 /\ \A v \in Least..Greatest : Cardinality(Share(v)) = n
    BY DEF Unbiased
  <2>1. Fair(Gen)
    BY ColumnGives DEF AsSet, Gen, Gives
  <2>2. PICK n \in Nat \ {0} : \A v \in Least..Greatest : Cardinality(Draw(Gen, v)) = n
    BY <2>1 DEF Fair
  <2>3. \A v \in Least..Greatest : Share(v) = Draw(Gen, v)
    BY DEF Share, Draw
  <2>4. Least \in Least..Greatest
    BY LeastAsked DEF AsSet
  <2> QED
    BY <2>2, <2>3, <2>4
<1> QED
  BY <1>1, <1>2, AsSetStep, PTL DEF Spec

(* What a generator that fits leaves in the cell. *)
FitInv == AsSet /\ CellFits

(* No draw changes that. *)
LEMMA FitInvStep == FitInv /\ [Next]_vars => FitInv'
<1> SUFFICES ASSUME FitInv, [Next]_vars PROVE FitInv'
  OBVIOUS
<1>1. ask' = ask /\ col' = col /\ Gen' = Gen
  BY DEF Next, Reject, Accept, NextCell, vars, Gen
<1>2. AsSet'
  BY AsSetStep DEF FitInv
<1>3. CASE value' \in {value, {}}
  BY <1>1, <1>2, <1>3 DEF FitInv, CellFits
<1>4. ASSUME NEW r \in random_uint(Gen.bits), Accept(r) PROVE FitInv'
  <2>1. r \in Nat
    BY DEF random_uint
  <2>2. value' = {generate(Gen, r)} /\ Gen.span > 0
    BY <1>4 DEF Accept, CanDraw
  <2>3. Fits(Gen) /\ Placed(col)
    BY ColumnGives, ColumnPlaced DEF FitInv, AsSet, Gen
  <2>4. PICK v : v = generate(Gen, r)
    OBVIOUS
  <2>5. /\ Text(v) \in Int /\ Gen.width \in Int /\ Text(v) <= Gen.width
        /\ v \in WidthLeast(Gen.result)..WidthGreatest(Gen.result)
    BY <2>1, <2>2, <2>3, <2>4 DEF Fits
  <2>6. CASE ask.joined
    <3>1. Text(v) - 1 <= col.length
      BY <2>3, <2>5, <2>6 DEF Placed, Gen
    <3> QED
      BY <1>1, <1>2, <2>2, <2>4, <2>5, <2>6, <3>1 DEF FitInv, CellFits
  <2>7. CASE ~ask.joined
    <3>1. v \in IF ask.col = "integer" THEN IMin(col.type)..IMax(col.type)
                ELSE 0..UMax(col.type)
      BY <2>3, <2>5, <2>7 DEF Placed, Gen, WidthLeast, WidthGreatest
    <3> QED
      BY <1>1, <1>2, <2>2, <2>4, <2>5, <2>7, <3>1 DEF FitInv, CellFits
  <2> QED
    BY <2>6, <2>7
<1>5. CASE UNCHANGED vars
  BY <1>3, <1>5 DEF vars
<1>6. ASSUME NEW r \in random_uint(Gen.bits), Reject(r) PROVE FitInv'
  BY <1>3, <1>6 DEF Reject
<1>7. CASE NextCell
  BY <1>3, <1>7 DEF NextCell
<1> QED
  BY <1>4, <1>5, <1>6, <1>7 DEF Next

(* A random value is never longer than the bytes generate_X writes it to,  *)
(* nor than the length it adds to a JOIN, and the MySQL type of its column *)
(* can hold it (random_generator.c with the types and DIGIT_COUNTs of      *)
(* mysql_seed_generate.h), even when the wrong generator draws it.         *)
THEOREM RandomCellsFit == Spec => []CellFits
<1>1. Init => FitInv
  BY DEF Init, FitInv, AsSet, CellFits
<1>2. FitInv => CellFits
  BY DEF FitInv
<1> QED
  BY <1>1, <1>2, FitInvStep, PTL DEF Spec

-----------------------------------------------------------------------------
(* struct GenerateParseState, and the part of it that the functions of a   *)
(* column's qualifier and of a name change.                                *)
Own == {"node", "due", "set", "may", "grp", "grouped", "values", "text", "name"}

Fields == Own \union
    {"from", "spec", "db", "tbl", "col", "top", "kept", "clobbered", "tables", "valid",
     "database", "generator", "told", "status", "overrun", "declared", "join"}

(* t differs from s in the fields changed at most. *)
Keeps(t, s, changed) ==
    DOMAIN t = Fields /\ \A f \in Fields \ changed : t[f] = s[f]

(* The functions entered while a column is parsed. *)
ColumnNodes ==
    {"integer_qualifier", "integer_fixed", "integer_random", "integer_random_from",
     "integer_random_upto", "integer_random_range_min", "integer_random_range_max",
     "u_integer_qualifier", "u_integer_fixed", "u_integer_random", "u_integer_random_from",
     "u_integer_random_upto", "u_integer_random_range_min", "u_integer_random_range_max",
     "string_qualifier", "string_unique", "string_fixed", "string_hash",
     "timestamp_qualifier", "datetime_qualifier", "complete", "grp_count", "grp_part",
     "join_spec"}

(* Those entered when the qualifier of the column is known, and the        *)
(* qualifiers that need a number.                                          *)
SetNodes == {"complete", "grp_count", "grp_part", "close"}
NumberSets == {"integer_fixed", "u_integer_fixed", "string_hash"}

(* What has been read of the qualifier. *)
Qualified(s) ==
    /\ s.values \in Seq(Int) /\ s.text \in Nat /\ s.grp \in Nat /\ s.grouped \in BOOLEAN
    /\ s.name \in Nat
    /\ s.node \in SetNodes /\ s.set \in NumberSets => Len(s.values) >= 1

(* A message that fits the argument it is about. *)
Refuses(e, a) ==
    /\ e.error \notin {"", "no_db_specs"}
    /\ e.skip \in {0, 1} /\ e.quote \in {-1, 0} /\ e.stop \in BOOLEAN
    /\ a = END => e.quote = -1 /\ e.stop /\ e.skip = 0
    /\ a # END /\ e.stop => e.error = "random_range_max_lt_min"

Failed(t, a) == t.node = "fail" /\ Refuses(t.due, a)

(* What a function of a column makes of state s and argument a: an error,  *)
(* the end of the column, or another function for the next argument.       *)
Outcome(t, s, a) ==
    /\ Keeps(t, s, Own) /\ Qualified(t)
    /\ \/ Failed(t, a)
       \/ t.node = "close" /\ t.due = a /\ a \in JoinClosers
       \/ t.node \in ColumnNodes /\ a # END

(* A record of these fields, before a function reads argument a. *)
Entered(s) == DOMAIN s = Fields /\ Qualified(s)

Argument(a) == a \in Arguments \/ a = END

(* END is no argument, and no numeral is a flag or a word. *)
LEMMA EndIsNone ==
    /\ END \notin DOMAIN Numerals /\ END \notin Arguments
    /\ \A f \in Flags \union Words \union {"+"} : f \notin DOMAIN Numerals
<1>1. \A f \in Flags \union Words \union {END, "+"} : f \notin DOMAIN Numerals
  BY NumeralsAssumption
<1>2. END \notin Flags \union Words \union {"+"}
  BY DEF END, Flags, Words, DbFlag, TblFlag, ColFlag, GrpFlag
<1> QED
  BY <1>1, <1>2 DEF Arguments

(* What two steps in turn leave alone. *)
LEMMA KeepsTwice ==
    ASSUME NEW s, NEW u, NEW t, NEW few, NEW more, Keeps(t, u, few), Keeps(u, s, more)
    PROVE  Keeps(t, s, few \union more)
BY DEF Keeps

(* A message about an argument. *)
LEMMA FailOutcome ==
    ASSUME NEW s, Entered(s), NEW a, NEW e, Refuses(e, a)
    PROVE  Outcome(Fail(s, e), s, a)
<1>1. PICK t : t = Fail(s, e)
  OBVIOUS
<1>2. /\ DOMAIN t = Fields /\ t.node = "fail" /\ t.due = e
      /\ \A f \in Fields \ {"node", "due"} : t[f] = s[f]
  BY <1>1 DEF Fail, Entered, Fields, Own
<1>3. Keeps(t, s, Own)
  BY <1>2 DEF Keeps, Own
<1>4. /\ t.values = s.values /\ t.text = s.text /\ t.grp = s.grp /\ t.grouped = s.grouped
      /\ t.name = s.name
  BY <1>2 DEF Fields, Own
<1>5. Qualified(t)
  BY <1>2, <1>4 DEF Qualified, Entered, SetNodes
<1> QED
  BY <1>1, <1>2, <1>3, <1>5 DEF Outcome, Failed

(* An argument that is wrong, or missing. *)
LEMMA RejectedRefuses ==
    ASSUME NEW a, a # END, NEW error, error \notin {"", "no_db_specs"}
    PROVE  Refuses(Rejected(error), a)
  BY DEF Refuses, Rejected

(* The messages about a missing argument are told at the end only. *)
LEMMA MissingRefuses ==
    ASSUME NEW error, error \notin {"", "no_db_specs"}
    PROVE  Refuses(Missing(error), END)
  BY DEF Refuses, Missing

(* The end of a column. *)
LEMMA CloseOutcome ==
    ASSUME NEW s, Entered(s), NEW a \in JoinClosers, s.set \in NumberSets => Len(s.values) >= 1
    PROVE  Outcome(Close(s, a), s, a)
<1>1. PICK t : t = Close(s, a)
  OBVIOUS
<1>2. /\ DOMAIN t = Fields /\ t.node = "close" /\ t.due = a
      /\ \A f \in Fields \ {"node", "due"} : t[f] = s[f]
  BY <1>1 DEF Close, Entered, Fields, Own
<1>3. Keeps(t, s, Own)
  BY <1>2 DEF Keeps, Own
<1>4. /\ t.values = s.values /\ t.text = s.text /\ t.grp = s.grp /\ t.grouped = s.grouped
      /\ t.set = s.set /\ t.name = s.name
  BY <1>2 DEF Fields, Own
<1>5. Qualified(t)
  BY <1>2, <1>4 DEF Qualified, Entered
<1> QED
  BY <1>1, <1>2, <1>3, <1>5 DEF Outcome

(* What each qualifier's flag leads on to needs no number yet. *)
Leads(to) ==
    to.node \in ColumnNodes /\ (to.node \in SetNodes => to.set \notin NumberSets)

(* The next function is entered, with the setting so far. *)
LEMMA TakeOutcome ==
    ASSUME NEW s, Entered(s), NEW a, a # END, NEW to, Leads(to)
    PROVE  Outcome(Take(s, to), s, a)
<1>1. PICK t : t = Take(s, to)
  OBVIOUS
<1>2. /\ DOMAIN t = Fields /\ t.node = to.node /\ t.set = to.set
      /\ \A f \in Fields \ {"node", "set", "may"} : t[f] = s[f]
  BY <1>1 DEF Take, Entered, Fields, Own
<1>3. Keeps(t, s, Own)
  BY <1>2 DEF Keeps, Own
<1>4. /\ t.values = s.values /\ t.text = s.text /\ t.grp = s.grp /\ t.grouped = s.grouped
      /\ t.name = s.name
  BY <1>2 DEF Fields, Own
<1>5. Qualified(t)
  BY <1>2, <1>4 DEF Qualified, Entered, Leads
<1> QED
  BY <1>1, <1>2, <1>3, <1>5 DEF Outcome, Leads

(* The part of a GRP_SPEC that is read next. *)
LEMMA GroupOutcome ==
    ASSUME NEW s, Entered(s), NEW a, a # END, NEW n \in {"complete", "grp_count"},
           s.set \in NumberSets => Len(s.values) >= 1
    PROVE  Outcome([s EXCEPT !.node = n], s, a)
<1>1. PICK t : t = [s EXCEPT !.node = n]
  OBVIOUS
<1>2. /\ DOMAIN t = Fields /\ t.node = n
      /\ \A f \in Fields \ {"node"} : t[f] = s[f]
  BY <1>1 DEF Entered, Fields, Own
<1>3. Keeps(t, s, Own)
  BY <1>2 DEF Keeps, Own
<1>4. /\ t.values = s.values /\ t.text = s.text /\ t.grp = s.grp /\ t.grouped = s.grouped
      /\ t.set = s.set /\ t.name = s.name
  BY <1>2 DEF Fields, Own
<1>5. Qualified(t)
  BY <1>2, <1>4 DEF Qualified, Entered
<1> QED
  BY <1>1, <1>2, <1>3, <1>5 DEF Outcome, ColumnNodes

(* A change of the column's own fields before. *)
LEMMA OutcomeTwice ==
    ASSUME NEW s, NEW d, NEW a, NEW t, Outcome(t, d, a), Keeps(d, s, Own)
    PROVE  Outcome(t, s, a)
BY KeepsTwice DEF Outcome

(* The default setting of a qualifier is set. *)
LEMMA DefaultEntered ==
    ASSUME NEW s, Entered(s), NEW set, set \notin NumberSets
    PROVE  LET d == [s EXCEPT !.set = set] IN Entered(d) /\ Keeps(d, s, Own) /\ d.set = set
<1>1. PICK d : d = [s EXCEPT !.set = set]
  OBVIOUS
<1>2. /\ DOMAIN d = Fields /\ d.set = set
      /\ \A f \in Fields \ {"set"} : d[f] = s[f]
  BY <1>1 DEF Entered, Fields, Own
<1>3. Keeps(d, s, Own)
  BY <1>2 DEF Keeps, Own
<1>4. /\ d.values = s.values /\ d.text = s.text /\ d.grp = s.grp /\ d.grouped = s.grouped
      /\ d.name = s.name
  BY <1>2 DEF Fields, Own
<1> QED
  BY <1>1, <1>2, <1>3, <1>4 DEF Entered, Qualified

AllLead(flags) == END \notin DOMAIN flags /\ \A f \in DOMAIN flags : Leads(flags[f])

(* A qualifier: the column ends, a group follows, a flag, or a message. *)
LEMMA QualifierOutcome ==
    ASSUME NEW s, Entered(s), NEW a, NEW default, default \notin NumberSets,
           NEW flags, AllLead(flags), NEW error, a # END => Refuses(error, a)
    PROVE  /\ Outcome(Qualifier(s, a, default, flags, error), s, a)
           /\ Outcome(JoinQualifier(s, a, default, flags, error), s, a)
<1>1. PICK d : d = [s EXCEPT !.set = default]
  OBVIOUS
<1>2. Entered(d) /\ Keeps(d, s, Own) /\ d.set = default
  BY <1>1, DefaultEntered
<1>3. a \in JoinClosers => Outcome(Close(d, a), s, a)
  BY <1>2, CloseOutcome, OutcomeTwice
<1>4. a # END => Outcome([d EXCEPT !.node = "grp_count"], s, a)
  BY <1>2, GroupOutcome, OutcomeTwice
<1>5. a \in DOMAIN flags => Outcome(Take(s, flags[a]), s, a)
  BY TakeOutcome DEF AllLead
<1>6. a # END => Outcome(Fail(s, error), s, a)
  BY FailOutcome
<1>7. END \in Closers /\ Closers \subseteq JoinClosers /\ GrpFlag # END
  BY DEF Closers, JoinClosers, GrpFlag, END
<1>8. Outcome(Qualifier(s, a, default, flags, error), s, a)
  <2>1. CASE a \in Closers
    <3>1. GrpFlag \notin Closers
      BY DEF Closers, GrpFlag, END, ColFlag, TblFlag, DbFlag
    <3>2. a \notin DOMAIN flags \/ Outcome(Take(s, flags[a]), s, a)
      BY <1>5
    <3> QED
      BY <1>1, <1>3, <1>5, <1>7, <2>1, <3>1 DEF Qualifier
  <2>2. CASE a \notin Closers
    BY <1>1, <1>4, <1>5, <1>6, <1>7, <2>2 DEF Qualifier
  <2> QED
    BY <2>1, <2>2
<1>9. Outcome(JoinQualifier(s, a, default, flags, error), s, a)
  <2>1. CASE a \in JoinClosers
    <3>1. GrpFlag \notin JoinClosers
      BY DEF JoinClosers, Closers, GrpFlag, END, ColFlag, TblFlag, DbFlag
    <3> QED
      BY <1>1, <1>3, <1>5, <1>7, <2>1, <3>1 DEF JoinQualifier
  <2>2. CASE a \notin JoinClosers
    BY <1>1, <1>4, <1>5, <1>6, <1>7, <2>2 DEF JoinQualifier
  <2> QED
    BY <2>1, <2>2
<1> QED
  BY <1>8, <1>9

(* The flags of every type. *)
LEMMA FlagsLead ==
    /\ AllLead(IntegerFlags) /\ AllLead(UIntegerFlags)
    /\ AllLead(IntegerRandomFlags) /\ AllLead(UIntegerRandomFlags)
    /\ AllLead(StringFlags) /\ AllLead(ColumnStringFlags)
    /\ \A type \in {"timestamp", "datetime"} : AllLead(TimeFlags(type))
<1>1. ASSUME NEW n \in ColumnNodes \ SetNodes PROVE Leads(On(n))
  BY DEF Leads, On
<1>2. ASSUME NEW set, set \notin NumberSets, NEW may PROVE Leads(Completed(set, may))
  <2>1. Completed(set, may).node = "complete" /\ Completed(set, may).set = set
    BY DEF Completed
  <2>2. "complete" \in ColumnNodes
    BY DEF ColumnNodes
  <2> QED
    BY <1>2, <2>1, <2>2 DEF Leads
<1>3. /\ {"integer_fixed", "integer_random", "integer_random_from", "integer_random_upto",
          "integer_random_range_min", "u_integer_fixed", "u_integer_random",
          "u_integer_random_from", "u_integer_random_upto", "u_integer_random_range_min",
          "string_unique", "string_fixed", "string_hash", "join_spec"}
             \subseteq ColumnNodes \ SetNodes
      /\ \A set \in {"integer_unique", "u_integer_unique", "string_uuid", "first", "last",
                     "full", "timestamp", "datetime"} : set \notin NumberSets
  BY DEF ColumnNodes, SetNodes, NumberSets
<1>4. AllLead(IntegerFlags)
  BY <1>1, <1>2, <1>3 DEF AllLead, IntegerFlags, END
<1>5. AllLead(UIntegerFlags)
  BY <1>1, <1>2, <1>3 DEF AllLead, UIntegerFlags, END
<1>6. AllLead(IntegerRandomFlags)
  BY <1>1, <1>3 DEF AllLead, IntegerRandomFlags, END
<1>7. AllLead(UIntegerRandomFlags)
  BY <1>1, <1>3 DEF AllLead, UIntegerRandomFlags, END
<1>8. AllLead(NameFlags) /\ DOMAIN NameFlags = {"-n1", "-nl", "-nf"}
  BY <1>2, <1>3 DEF AllLead, NameFlags, END
<1>9. AllLead(StringFlags)
  BY <1>1, <1>2, <1>3, <1>8 DEF AllLead, StringFlags, END
<1>10. AllLead(ColumnStringFlags)
  BY <1>1, <1>3, <1>9 DEF AllLead, ColumnStringFlags, END
<1>11. ASSUME NEW type \in {"timestamp", "datetime"} PROVE AllLead(TimeFlags(type))
  BY <1>2, <1>3 DEF AllLead, TimeFlags, END
<1> QED
  BY <1>4, <1>5, <1>6, <1>7, <1>9, <1>10, <1>11

-----------------------------------------------------------------------------
(* The messages about a column fit their arguments. *)
LEMMA WrongRefuses ==
    ASSUME NEW a, a # END
    PROVE  /\ \A e \in {TypeQErrors.integer, TypeQErrors.u_integer, TypeQErrors.string,
                        TypeQErrors.timestamp, TypeQErrors.datetime} : Refuses(e, a)
           /\ \A e \in {RandSpecErrors.invalid, MinIntegerErrors, MaxIntegerErrors,
                        MinUIntegerErrors, MaxUIntegerErrors, FixedIntegerErrors.invalid,
                        FixedUIntegerErrors.invalid} : Refuses(e, a)
           /\ \A e \in {CloseErrors.join, CloseErrors.col_spec, CloseErrors.grp_spec,
                        CloseErrors.join_grp_spec, ColTypeErrors.invalid} : Refuses(e, a)
<1>1. \A e \in {TypeQErrors.integer, TypeQErrors.u_integer, TypeQErrors.string,
                TypeQErrors.timestamp, TypeQErrors.datetime} : Refuses(e, a)
  BY RejectedRefuses DEF TypeQErrors
<1>2. \A e \in {RandSpecErrors.invalid, MinIntegerErrors, MaxIntegerErrors,
                MinUIntegerErrors, MaxUIntegerErrors, FixedIntegerErrors.invalid,
                FixedUIntegerErrors.invalid} : Refuses(e, a)
  BY RejectedRefuses DEF RandSpecErrors, MinIntegerErrors, MaxIntegerErrors, MinUIntegerErrors,
     MaxUIntegerErrors, FixedIntegerErrors, FixedUIntegerErrors
<1>3. \A e \in {CloseErrors.join, CloseErrors.col_spec, CloseErrors.grp_spec,
                CloseErrors.join_grp_spec, ColTypeErrors.invalid} : Refuses(e, a)
  BY RejectedRefuses DEF CloseErrors, ColTypeErrors
<1> QED
  BY <1>1, <1>2, <1>3

(* All messages about a missing argument. *)
LEMMA LackingRefuses ==
    \A e \in {ColTypeErrors.none, RandSpecErrors.from, RandSpecErrors.upto, RandRangeErrors.min,
              RandRangeErrors.max, FixedIntegerErrors.none, FixedUIntegerErrors.none,
              BaseStringErrors.none, FixedStringErrors.none, HashLengthErrors.none,
              JoinErrors.none, JoinErrors.next, GroupErrors.none} : Refuses(e, END)
BY MissingRefuses DEF ColTypeErrors, RandSpecErrors, RandRangeErrors, FixedIntegerErrors,
   FixedUIntegerErrors, BaseStringErrors, FixedStringErrors, HashLengthErrors, JoinErrors,
   GroupErrors

(* The messages about the third kinds: a superfluous GRP_SPEC, and a range *)
(* that ends before it begins.                                             *)
LEMMA OtherRefuses ==
    ASSUME NEW a, a # END
    PROVE  /\ Refuses(FixedGroupErrors, a) /\ Refuses(GroupErrors.multiple, a)
           /\ Refuses(RandRangeErrors.order, a)
<1>1. Refuses(FixedGroupErrors, a)
  BY DEF Refuses, FixedGroupErrors
<1>2. Refuses(GroupErrors.multiple, a)
  BY DEF Refuses, GroupErrors
<1>3. Refuses(RandRangeErrors.order, a)
  BY DEF Refuses, RandRangeErrors
<1> QED
  BY <1>1, <1>2, <1>3

(* Numbers are parsed to a result that has its message. *)
LEMMA CountingParsed ==
    ASSUME NEW a, NEW max
    PROVE  /\ Counting(a, max) \in {"invalid", "zero", "large", "ok"}
           /\ Counting(a, max) = "ok" => a \in DOMAIN Numerals /\ Numerals[a] \in Nat
BY NumeralsAssumption DEF Counting, IsUint

(* The results of parsing names and strings. *)
LEMMA NamesParsed ==
    ASSUME NEW a
    PROVE  /\ parse_db_name(a) \in {"ok", "empty", "invalid", "long"}
           /\ parse_base_string(a) \in {"ok", "invalid", "long"}
           /\ parse_fixed_string(a) \in {"ok", "invalid", "long"}
BY DEF parse_db_name, parse_base_string, parse_fixed_string

(* The messages about those that are wrong, by result. *)
LEMMA ParsedRefuses ==
    ASSUME NEW a, a # END
    PROVE  /\ \A p \in {"invalid", "zero", "large"} :
                 /\ Refuses(GrpCountErrors[p], a) /\ Refuses(HashLengthErrors[p], a)
                 /\ Refuses(RowCountErrors[p], a)
           /\ \A p \in {"invalid", "long"} :
                 Refuses(BaseStringErrors[p], a) /\ Refuses(FixedStringErrors[p], a)
           /\ \A p \in {"empty", "invalid", "long"} :
                 /\ Refuses(DbNameErrors[p], a) /\ Refuses(TblNameErrors[p], a)
                 /\ Refuses(ColNameErrors[p], a)
<1>1. \A p \in {"invalid", "zero", "large"} :
         /\ Refuses(GrpCountErrors[p], a)
         /\ Refuses(HashLengthErrors[p], a)
         /\ Refuses(RowCountErrors[p], a)
  <2>1. /\ Refuses(GrpCountErrors.invalid, a)
        /\ Refuses(GrpCountErrors.zero, a)
        /\ Refuses(GrpCountErrors.large, a)
    BY RejectedRefuses DEF GrpCountErrors
  <2>2. /\ Refuses(HashLengthErrors.invalid, a)
        /\ Refuses(HashLengthErrors.zero, a)
        /\ Refuses(HashLengthErrors.large, a)
    BY RejectedRefuses DEF HashLengthErrors
  <2>3. /\ Refuses(RowCountErrors.invalid, a)
        /\ Refuses(RowCountErrors.zero, a)
        /\ Refuses(RowCountErrors.large, a)
    BY RejectedRefuses DEF RowCountErrors
  <2> QED
    BY <2>1, <2>2, <2>3
<1>2. \A p \in {"invalid", "long"} :
         /\ Refuses(BaseStringErrors[p], a)
         /\ Refuses(FixedStringErrors[p], a)
  <2>1. Refuses(BaseStringErrors.invalid, a) /\ Refuses(BaseStringErrors.long, a)
    BY RejectedRefuses DEF BaseStringErrors
  <2>2. Refuses(FixedStringErrors.invalid, a) /\ Refuses(FixedStringErrors.long, a)
    BY RejectedRefuses DEF FixedStringErrors
  <2> QED
    BY <2>1, <2>2
<1>3. \A p \in {"empty", "invalid", "long"} :
         /\ Refuses(DbNameErrors[p], a)
         /\ Refuses(TblNameErrors[p], a)
         /\ Refuses(ColNameErrors[p], a)
  <2>1. /\ Refuses(DbNameErrors.empty, a)
        /\ Refuses(DbNameErrors.invalid, a)
        /\ Refuses(DbNameErrors.long, a)
    BY RejectedRefuses DEF DbNameErrors
  <2>2. /\ Refuses(TblNameErrors.empty, a)
        /\ Refuses(TblNameErrors.invalid, a)
        /\ Refuses(TblNameErrors.long, a)
    BY RejectedRefuses DEF TblNameErrors
  <2>3. /\ Refuses(ColNameErrors.empty, a)
        /\ Refuses(ColNameErrors.invalid, a)
        /\ Refuses(ColNameErrors.long, a)
    BY RejectedRefuses DEF ColNameErrors
  <2> QED
    BY <2>1, <2>2, <2>3
<1> QED
  BY <1>1, <1>2, <1>3

-----------------------------------------------------------------------------
(* The functions for the values of a qualifier. *)

(* An argument that must be a number. *)
LEMMA NumberOutcome ==
    ASSUME NEW s, Entered(s), NEW a, NEW is \in BOOLEAN, is => a \in DOMAIN Numerals,
           NEW missing, Refuses(missing, END), NEW invalid, a # END => Refuses(invalid, a),
           NEW to, to.node \in ColumnNodes
    PROVE  Outcome(Number(s, a, is, missing, invalid, to), s, a)
<1>1. CASE a = END
  BY <1>1, FailOutcome DEF Number
<1>2. CASE a # END /\ ~is
  BY <1>2, FailOutcome DEF Number
<1>3. CASE a # END /\ is
  <2>1. PICK t : t = [Take(s, to) EXCEPT !.values = Append(@, Numerals[a])]
    OBVIOUS
  <2>2. /\ DOMAIN t = Fields /\ t.node = to.node /\ t.values = Append(s.values, Numerals[a])
        /\ \A f \in Fields \ {"node", "set", "may", "values"} : t[f] = s[f]
    BY <2>1 DEF Take, Entered, Fields, Own
  <2>3. Keeps(t, s, Own)
    BY <2>2 DEF Keeps, Own
  <2>4. t.text = s.text /\ t.grp = s.grp /\ t.grouped = s.grouped /\ t.name = s.name
    BY <2>2 DEF Fields, Own
  <2>5. t.values \in Seq(Int) /\ Len(t.values) >= 1
    <3>1. Numerals[a] \in Int /\ s.values \in Seq(Int)
      BY <1>3, NumeralsAssumption DEF Entered, Qualified
    <3> QED
      BY <2>2, <3>1
  <2>6. Qualified(t)
    BY <2>2, <2>4, <2>5 DEF Qualified, Entered
  <2>7. Number(s, a, is, missing, invalid, to) = t
    BY <1>3, <2>1 DEF Number
  <2> QED
    BY <1>3, <2>2, <2>3, <2>6, <2>7 DEF Outcome
<1> QED
  BY <1>1, <1>2, <1>3

(* A MAX that must not be less than its MIN. *)
LEMMA OrderedOutcome ==
    ASSUME NEW s, Entered(s), NEW a, NEW t, Outcome(t, s, a), a = END => t.node = "fail"
    PROVE  Outcome(Ordered(s, t), s, a)
<1>1. CASE a = END
  BY <1>1 DEF Ordered
<1>2. CASE a # END
  BY <1>2, FailOutcome, OtherRefuses DEF Ordered
<1> QED
  BY <1>1, <1>2

(* At the end of the arguments a number is missing. *)
LEMMA NumberEnds ==
    ASSUME NEW s, Entered(s), NEW is, NEW missing, NEW invalid, NEW to
    PROVE  Number(s, END, is, missing, invalid, to).node = "fail"
<1>1. Number(s, END, is, missing, invalid, to) = Fail(s, missing)
  BY DEF Number
<1> QED
  BY <1>1 DEF Fail, Entered, Fields, Own

(* A length, or a number alone, completes the column. *)
LEMMA TextOutcome ==
    ASSUME NEW s, Entered(s), NEW a, a # END, NEW to, to.node \in ColumnNodes,
           to.node \in SetNodes => to.set \notin NumberSets
    PROVE  Outcome([Take(s, to) EXCEPT !.text = Length(a)], s, a)
<1>1. PICK t : t = [Take(s, to) EXCEPT !.text = Length(a)]
  OBVIOUS
<1>2. /\ DOMAIN t = Fields /\ t.node = to.node /\ t.set = to.set /\ t.text = Length(a)
      /\ \A f \in Fields \ {"node", "set", "may", "text"} : t[f] = s[f]
  BY <1>1 DEF Take, Entered, Fields, Own
<1>3. Keeps(t, s, Own)
  BY <1>2 DEF Keeps, Own
<1>4. t.values = s.values /\ t.grp = s.grp /\ t.grouped = s.grouped /\ t.name = s.name
  BY <1>2 DEF Fields, Own
<1>5. t.text \in Nat
  <2>1. Length(a) = 0 \/ Length(a) = 1
    BY Zenon DEF Length
  <2> QED
    BY <1>2, <2>1
<1>6. Qualified(t)
  BY <1>2, <1>4, <1>5 DEF Qualified, Entered
<1> QED
  BY <1>1, <1>2, <1>3, <1>6 DEF Outcome

(* The base string of a unique string. *)
LEMMA UniqueStringOutcome ==
    ASSUME NEW s, Entered(s), NEW a
    PROVE  Outcome(parse_string_unique(s, a), s, a)
<1>1. PICK to : to = Completed("string_unique", "group")
  OBVIOUS
<1>2. to.node = "complete" /\ to.set = "string_unique"
  BY <1>1 DEF Completed
<1>3. to.node \in ColumnNodes /\ to.set \notin NumberSets
  BY <1>2 DEF ColumnNodes, NumberSets
<1>4. CASE a = END
  BY <1>4, FailOutcome, LackingRefuses DEF parse_string_unique
<1>5. CASE a # END /\ parse_base_string(a) = "ok"
  <2>1. parse_string_unique(s, a) = [Take(s, to) EXCEPT !.text = Length(a)]
    BY <1>1, <1>5 DEF parse_string_unique
  <2> QED
    BY <1>3, <1>5, <2>1, TextOutcome
<1>6. CASE a # END /\ parse_base_string(a) # "ok"
  <2>1. parse_base_string(a) \in {"invalid", "long"}
    BY <1>6, NamesParsed
  <2>2. Refuses(BaseStringErrors[parse_base_string(a)], a)
    BY <1>6, <2>1, ParsedRefuses
  <2> QED
    BY <1>6, <2>2, FailOutcome DEF parse_string_unique
<1> QED
  BY <1>4, <1>5, <1>6

(* The text of a fixed string. *)
LEMMA FixedStringOutcome ==
    ASSUME NEW s, Entered(s), NEW a, a # END
    PROVE  Outcome(FixedString(s, a), s, a)
<1>1. PICK to : to = Completed("string_fixed", "fixed")
  OBVIOUS
<1>2. to.node = "complete" /\ to.set = "string_fixed"
  BY <1>1 DEF Completed
<1>3. to.node \in ColumnNodes /\ to.set \notin NumberSets
  BY <1>2 DEF ColumnNodes, NumberSets
<1>4. CASE parse_fixed_string(a) = "ok"
  <2>1. FixedString(s, a) = [Take(s, to) EXCEPT !.text = Length(a)]
    BY <1>1, <1>4 DEF FixedString
  <2> QED
    BY <1>3, <2>1, TextOutcome
<1>5. CASE parse_fixed_string(a) # "ok"
  <2>1. parse_fixed_string(a) \in {"invalid", "long"}
    BY <1>5, NamesParsed
  <2>2. Refuses(FixedStringErrors[parse_fixed_string(a)], a)
    BY <2>1, ParsedRefuses
  <2> QED
    BY <1>5, <2>2, FailOutcome DEF FixedString
<1> QED
  BY <1>4, <1>5

(* The length of a hash. *)
LEMMA HashOutcome ==
    ASSUME NEW s, Entered(s), NEW a
    PROVE  Outcome(parse_string_hash(s, a), s, a)
<1>1. CASE a = END
  BY <1>1, FailOutcome, LackingRefuses DEF parse_string_hash
<1>2. CASE a # END /\ parse_hash_length(a) = "ok"
  <2>1. PICK t : t = [Take(s, Completed("string_hash", "group")) EXCEPT
                         !.values = <<Numerals[a]>>]
    OBVIOUS
  <2>2. /\ DOMAIN t = Fields /\ t.node = "complete" /\ t.values = <<Numerals[a]>>
        /\ \A f \in Fields \ {"node", "set", "may", "values"} : t[f] = s[f]
    BY <2>1 DEF Take, Completed, Entered, Fields, Own
  <2>3. Keeps(t, s, Own)
    BY <2>2 DEF Keeps, Own
  <2>4. t.text = s.text /\ t.grp = s.grp /\ t.grouped = s.grouped /\ t.name = s.name
    BY <2>2 DEF Fields, Own
  <2>5. Numerals[a] \in Int
    BY <1>2, CountingParsed DEF parse_hash_length
  <2>6. Qualified(t)
    BY <2>2, <2>4, <2>5 DEF Qualified, Entered
  <2> QED
    BY <1>2, <2>1, <2>2, <2>3, <2>6 DEF Outcome, parse_string_hash, ColumnNodes
<1>3. CASE a # END /\ parse_hash_length(a) # "ok"
  <2>1. parse_hash_length(a) \in {"invalid", "zero", "large"}
    BY <1>3, CountingParsed DEF parse_hash_length
  <2>2. Refuses(HashLengthErrors[parse_hash_length(a)], a)
    BY <1>3, <2>1, ParsedRefuses
  <2> QED
    BY <1>3, <2>2, FailOutcome DEF parse_string_hash
<1> QED
  BY <1>1, <1>2, <1>3

-----------------------------------------------------------------------------
(* The functions that end a column. *)

(* After a complete column: it ends, or a GRP_SPEC follows. *)
LEMMA CompleteOutcome ==
    ASSUME NEW s, Entered(s), NEW a, s.set \in NumberSets => Len(s.values) >= 1
    PROVE  /\ Outcome(parse_column_complete(s, a), s, a)
           /\ Outcome(parse_join_complete(s, a), s, a)
<1>1. END \in Closers /\ Closers \subseteq JoinClosers /\ GrpFlag \notin JoinClosers
  BY DEF Closers, JoinClosers, GrpFlag, END, ColFlag, TblFlag, DbFlag
<1>2. a \in JoinClosers => Outcome(Close(s, a), s, a)
  BY CloseOutcome
<1>3. a # END => Outcome([s EXCEPT !.node = "grp_count"], s, a)
  BY GroupOutcome
<1>4. a # END => /\ Outcome(Fail(s, FixedGroupErrors), s, a)
                 /\ Outcome(Fail(s, GroupErrors.multiple), s, a)
                 /\ Outcome(Fail(s, CloseErrors.col_spec), s, a)
                 /\ Outcome(Fail(s, CloseErrors.join), s, a)
  BY FailOutcome, OtherRefuses, WrongRefuses
<1>5. Outcome(parse_column_complete(s, a), s, a)
  <2>1. CASE a \in Closers
    BY <1>1, <1>2, <2>1 DEF parse_column_complete
  <2>2. CASE a = GrpFlag
    BY <1>1, <1>3, <1>4, <2>2 DEF parse_column_complete
  <2>3. CASE a \notin Closers /\ a # GrpFlag
    BY <1>1, <1>4, <2>3 DEF parse_column_complete
  <2> QED
    BY <2>1, <2>2, <2>3
<1>6. Outcome(parse_join_complete(s, a), s, a)
  <2>1. CASE a \in JoinClosers
    BY <1>1, <1>2, <2>1 DEF parse_join_complete
  <2>2. CASE a = GrpFlag
    BY <1>1, <1>3, <1>4, <2>2 DEF parse_join_complete
  <2>3. CASE a \notin JoinClosers /\ a # GrpFlag
    BY <1>1, <1>4, <2>3 DEF parse_join_complete
  <2> QED
    BY <2>1, <2>2, <2>3
<1> QED
  BY <1>5, <1>6

(* GRP_COUNT. *)
LEMMA GrpCountOutcome ==
    ASSUME NEW s, Entered(s), NEW a, s.set \in NumberSets => Len(s.values) >= 1
    PROVE  Outcome(GrpCount(s, a), s, a)
<1>1. PICK parsed : parsed = parse_grp_count(a, s.tables[Len(s.tables)].rows)
  OBVIOUS
<1>2. /\ parsed \in {"invalid", "zero", "large", "ok"}
      /\ parsed = "ok" => Numerals[a] \in Nat
  BY <1>1, CountingParsed DEF parse_grp_count
<1>3. CASE a = END
  BY <1>3, FailOutcome, LackingRefuses DEF GrpCount
<1>4. CASE a # END /\ parsed = "ok"
  <2>1. PICK t : t = [s EXCEPT !.grp = Numerals[a], !.grouped = TRUE, !.may = "multiple",
                               !.node = "grp_part"]
    OBVIOUS
  <2>2. /\ DOMAIN t = Fields /\ t.node = "grp_part" /\ t.grp = Numerals[a] /\ t.grouped = TRUE
        /\ \A f \in Fields \ {"grp", "grouped", "may", "node"} : t[f] = s[f]
    BY <2>1 DEF Entered, Fields, Own
  <2>3. Keeps(t, s, Own)
    BY <2>2 DEF Keeps, Own
  <2>4. t.text = s.text /\ t.values = s.values /\ t.set = s.set /\ t.name = s.name
    BY <2>2 DEF Fields, Own
  <2>5. Qualified(t)
    BY <1>2, <1>4, <2>2, <2>4 DEF Qualified, Entered
  <2>6. GrpCount(s, a) = t
    BY <1>1, <1>4, <2>1 DEF GrpCount
  <2> QED
    BY <1>4, <2>2, <2>3, <2>5, <2>6 DEF Outcome, ColumnNodes
<1>5. CASE a # END /\ parsed # "ok"
  <2>1. Refuses(GrpCountErrors[parsed], a)
    BY <1>2, <1>5, ParsedRefuses
  <2>2. GrpCount(s, a) = Fail(s, GrpCountErrors[parsed])
    BY <1>1, <1>5 DEF GrpCount
  <2> QED
    BY <2>1, <2>2, FailOutcome
<1> QED
  BY <1>3, <1>4, <1>5

(* The partition of a GRP_SPEC, or the end of the column. *)
LEMMA GrpSpecOutcome ==
    ASSUME NEW s, Entered(s), NEW a, s.set \in NumberSets => Len(s.values) >= 1
    PROVE  Outcome(parse_grp_spec(s, a), s, a) /\ Outcome(parse_join_grp_spec(s, a), s, a)
<1>1. END \in Closers /\ Closers \subseteq JoinClosers
  BY DEF Closers, JoinClosers
<1>2. a \in JoinClosers => Outcome(Close(s, a), s, a)
  BY CloseOutcome
<1>3. a # END => Outcome([s EXCEPT !.node = "complete"], s, a)
  BY GroupOutcome
<1>4. a # END => /\ Outcome(Fail(s, GroupErrors.multiple), s, a)
                 /\ Outcome(Fail(s, CloseErrors.grp_spec), s, a)
                 /\ Outcome(Fail(s, CloseErrors.join_grp_spec), s, a)
  BY FailOutcome, OtherRefuses, WrongRefuses
<1>5. GrpFlag \notin JoinClosers /\ {"-e", "-l"} \intersect JoinClosers = {}
  BY DEF JoinClosers, Closers, GrpFlag, END, ColFlag, TblFlag, DbFlag
<1>6. Outcome(parse_grp_spec(s, a), s, a)
  <2>1. CASE a \in Closers
    BY <1>1, <1>2, <1>5, <2>1 DEF parse_grp_spec
  <2>2. CASE a \notin Closers
    BY <1>1, <1>3, <1>4, <2>2 DEF parse_grp_spec
  <2> QED
    BY <2>1, <2>2
<1>7. Outcome(parse_join_grp_spec(s, a), s, a)
  <2>1. CASE a \in JoinClosers
    BY <1>1, <1>2, <1>5, <2>1 DEF parse_join_grp_spec
  <2>2. CASE a \notin JoinClosers
    BY <1>1, <1>3, <1>4, <2>2 DEF parse_join_grp_spec
  <2> QED
    BY <2>1, <2>2
<1> QED
  BY <1>6, <1>7

-----------------------------------------------------------------------------
(* Every function of a column. *)

(* The qualifiers of a column. *)
LEMMA QualifierFunctions ==
    ASSUME NEW s, Entered(s), NEW a
    PROVE  /\ Outcome(parse_integer_qualifier(s, a), s, a)
           /\ Outcome(parse_u_integer_qualifier(s, a), s, a)
           /\ Outcome(parse_integer_random(s, a), s, a)
           /\ Outcome(parse_u_integer_random(s, a), s, a)
           /\ Outcome(parse_string_qualifier(s, a), s, a)
           /\ Outcome(parse_timestamp_qualifier(s, a), s, a)
           /\ Outcome(parse_datetime_qualifier(s, a), s, a)
<1>1. \A set \in {"integer_unique", "u_integer_unique", "integer_random_default",
                  "u_integer_random_default", "string_default", "timestamp", "datetime"} :
         set \notin NumberSets
  BY DEF NumberSets
<1>2. a # END => /\ Refuses(TypeQErrors.integer, a) /\ Refuses(TypeQErrors.u_integer, a)
                 /\ Refuses(TypeQErrors.string, a) /\ Refuses(TypeQErrors.timestamp, a)
                 /\ Refuses(TypeQErrors.datetime, a) /\ Refuses(RandSpecErrors.invalid, a)
  BY WrongRefuses
<1>3. Outcome(parse_integer_qualifier(s, a), s, a)
  BY <1>1, <1>2, FlagsLead, QualifierOutcome DEF parse_integer_qualifier
<1>4. Outcome(parse_u_integer_qualifier(s, a), s, a)
  BY <1>1, <1>2, FlagsLead, QualifierOutcome DEF parse_u_integer_qualifier
<1>5. Outcome(parse_integer_random(s, a), s, a)
  BY <1>1, <1>2, FlagsLead, QualifierOutcome DEF parse_integer_random
<1>6. Outcome(parse_u_integer_random(s, a), s, a)
  BY <1>1, <1>2, FlagsLead, QualifierOutcome DEF parse_u_integer_random
<1>7. Outcome(parse_string_qualifier(s, a), s, a)
  BY <1>1, <1>2, FlagsLead, QualifierOutcome DEF parse_string_qualifier
<1>8. AllLead(TimeFlags("timestamp")) /\ AllLead(TimeFlags("datetime"))
  BY FlagsLead
<1>9. Outcome(parse_timestamp_qualifier(s, a), s, a)
  BY <1>1, <1>2, <1>8, QualifierOutcome DEF parse_timestamp_qualifier
<1>10. Outcome(parse_datetime_qualifier(s, a), s, a)
  BY <1>1, <1>2, <1>8, QualifierOutcome DEF parse_datetime_qualifier
<1> QED
  BY <1>3, <1>4, <1>5, <1>6, <1>7, <1>9, <1>10

(* The qualifiers of a JOIN. *)
LEMMA JoinQualifierFunctions ==
    ASSUME NEW s, Entered(s), NEW a
    PROVE  /\ Outcome(parse_join_integer_qualifier(s, a), s, a)
           /\ Outcome(parse_join_u_integer_qualifier(s, a), s, a)
           /\ Outcome(parse_join_integer_random(s, a), s, a)
           /\ Outcome(parse_join_u_integer_random(s, a), s, a)
           /\ Outcome(parse_join_string_qualifier(s, a), s, a)
           /\ Outcome(parse_join_timestamp_qualifier(s, a), s, a)
           /\ Outcome(parse_join_datetime_qualifier(s, a), s, a)
<1>1. \A set \in {"integer_unique", "u_integer_unique", "integer_random_default",
                  "u_integer_random_default", "string_default", "timestamp", "datetime"} :
         set \notin NumberSets
  BY DEF NumberSets
<1>2. a # END => /\ Refuses(TypeQErrors.integer, a) /\ Refuses(TypeQErrors.u_integer, a)
                 /\ Refuses(TypeQErrors.string, a) /\ Refuses(TypeQErrors.timestamp, a)
                 /\ Refuses(TypeQErrors.datetime, a) /\ Refuses(RandSpecErrors.invalid, a)
  BY WrongRefuses
<1>3. Outcome(parse_join_integer_qualifier(s, a), s, a)
  BY <1>1, <1>2, FlagsLead, QualifierOutcome DEF parse_join_integer_qualifier
<1>4. Outcome(parse_join_u_integer_qualifier(s, a), s, a)
  BY <1>1, <1>2, FlagsLead, QualifierOutcome DEF parse_join_u_integer_qualifier
<1>5. Outcome(parse_join_integer_random(s, a), s, a)
  BY <1>1, <1>2, FlagsLead, QualifierOutcome DEF parse_join_integer_random
<1>6. Outcome(parse_join_u_integer_random(s, a), s, a)
  BY <1>1, <1>2, FlagsLead, QualifierOutcome DEF parse_join_u_integer_random
<1>7. Outcome(parse_join_string_qualifier(s, a), s, a)
  BY <1>1, <1>2, FlagsLead, QualifierOutcome DEF parse_join_string_qualifier
<1>8. AllLead(TimeFlags("timestamp")) /\ AllLead(TimeFlags("datetime"))
  BY FlagsLead
<1>9. Outcome(parse_join_timestamp_qualifier(s, a), s, a)
  <2>1. PICK e : e = IF Dashed(a) THEN TypeQErrors.timestamp ELSE TypeQErrors.integer
    OBVIOUS
  <2>2. a # END => Refuses(e, a)
    BY <1>2, <2>1
  <2> QED
    BY <1>1, <1>8, <2>1, <2>2, QualifierOutcome DEF parse_join_timestamp_qualifier
<1>10. Outcome(parse_join_datetime_qualifier(s, a), s, a)
  <2>1. PICK e : e = IF Dashed(a) THEN TypeQErrors.datetime ELSE TypeQErrors.integer
    OBVIOUS
  <2>2. a # END => Refuses(e, a)
    BY <1>2, <2>1
  <2> QED
    BY <1>1, <1>8, <2>1, <2>2, QualifierOutcome DEF parse_join_datetime_qualifier
<1> QED
  BY <1>3, <1>4, <1>5, <1>6, <1>7, <1>9, <1>10

(* The values of an integer column. *)
LEMMA IntegerFunctions ==
    ASSUME NEW s, Entered(s), NEW a
    PROVE  /\ Outcome(parse_integer_fixed(s, a), s, a)
           /\ Outcome(parse_integer_random_from(s, a), s, a)
           /\ Outcome(parse_integer_random_upto(s, a), s, a)
           /\ Outcome(parse_integer_random_range_min(s, a), s, a)
           /\ Outcome(parse_integer_random_range(s, a), s, a)
<1>1. IsInt(a) \in BOOLEAN /\ (IsInt(a) => a \in DOMAIN Numerals)
  BY DEF IsInt
<1>2. /\ \A set, may : Completed(set, may).node \in ColumnNodes
      /\ On("integer_random_range_max").node \in ColumnNodes
  BY DEF Completed, On, ColumnNodes
<1>3. /\ Refuses(FixedIntegerErrors.none, END) /\ Refuses(RandSpecErrors.from, END)
      /\ Refuses(RandSpecErrors.upto, END) /\ Refuses(RandRangeErrors.min, END)
      /\ Refuses(RandRangeErrors.max, END)
  BY LackingRefuses
<1>4. a # END => /\ Refuses(FixedIntegerErrors.invalid, a) /\ Refuses(MinIntegerErrors, a)
                 /\ Refuses(MaxIntegerErrors, a)
  BY WrongRefuses
<1>5. Outcome(parse_integer_fixed(s, a), s, a)
  BY <1>1, <1>2, <1>3, <1>4, NumberOutcome DEF parse_integer_fixed
<1>6. Outcome(parse_integer_random_from(s, a), s, a)
  BY <1>1, <1>2, <1>3, <1>4, NumberOutcome DEF parse_integer_random_from
<1>7. Outcome(parse_integer_random_upto(s, a), s, a)
  BY <1>1, <1>2, <1>3, <1>4, NumberOutcome DEF parse_integer_random_upto
<1>8. Outcome(parse_integer_random_range_min(s, a), s, a)
  BY <1>1, <1>2, <1>3, <1>4, NumberOutcome DEF parse_integer_random_range_min
<1>9. Outcome(parse_integer_random_range(s, a), s, a)
  <2>1. PICK t : t = Number(s, a, IsInt(a), RandRangeErrors.max, MaxIntegerErrors,
                            Completed("integer_random_range", "group"))
    OBVIOUS
  <2>2. Outcome(t, s, a)
    BY <1>1, <1>2, <1>3, <1>4, <2>1, NumberOutcome
  <2>3. a = END => t.node = "fail"
    BY <2>1, NumberEnds
  <2> QED
    BY <2>1, <2>2, <2>3, OrderedOutcome DEF parse_integer_random_range
<1> QED
  BY <1>5, <1>6, <1>7, <1>8, <1>9

(* The values of an unsigned integer column. *)
LEMMA UIntegerFunctions ==
    ASSUME NEW s, Entered(s), NEW a
    PROVE  /\ Outcome(parse_u_integer_fixed(s, a), s, a)
           /\ Outcome(parse_u_integer_random_from(s, a), s, a)
           /\ Outcome(parse_u_integer_random_upto(s, a), s, a)
           /\ Outcome(parse_u_integer_random_range_min(s, a), s, a)
           /\ Outcome(parse_u_integer_random_range(s, a), s, a)
<1>1. IsUint(a) \in BOOLEAN /\ (IsUint(a) => a \in DOMAIN Numerals)
  BY DEF IsUint
<1>2. /\ \A set, may : Completed(set, may).node \in ColumnNodes
      /\ On("u_integer_random_range_max").node \in ColumnNodes
  BY DEF Completed, On, ColumnNodes
<1>3. /\ Refuses(FixedUIntegerErrors.none, END) /\ Refuses(RandSpecErrors.from, END)
      /\ Refuses(RandSpecErrors.upto, END) /\ Refuses(RandRangeErrors.min, END)
      /\ Refuses(RandRangeErrors.max, END)
  BY LackingRefuses
<1>4. a # END => /\ Refuses(FixedUIntegerErrors.invalid, a) /\ Refuses(MinUIntegerErrors, a)
                 /\ Refuses(MaxUIntegerErrors, a)
  BY WrongRefuses
<1>5. Outcome(parse_u_integer_fixed(s, a), s, a)
  BY <1>1, <1>2, <1>3, <1>4, NumberOutcome DEF parse_u_integer_fixed
<1>6. Outcome(parse_u_integer_random_from(s, a), s, a)
  BY <1>1, <1>2, <1>3, <1>4, NumberOutcome DEF parse_u_integer_random_from
<1>7. Outcome(parse_u_integer_random_upto(s, a), s, a)
  BY <1>1, <1>2, <1>3, <1>4, NumberOutcome DEF parse_u_integer_random_upto
<1>8. Outcome(parse_u_integer_random_range_min(s, a), s, a)
  BY <1>1, <1>2, <1>3, <1>4, NumberOutcome DEF parse_u_integer_random_range_min
<1>9. Outcome(parse_u_integer_random_range(s, a), s, a)
  <2>1. PICK t : t = Number(s, a, IsUint(a), RandRangeErrors.max, MaxUIntegerErrors,
                            Completed("u_integer_random_range", "group"))
    OBVIOUS
  <2>2. Outcome(t, s, a)
    BY <1>1, <1>2, <1>3, <1>4, <2>1, NumberOutcome
  <2>3. a = END => t.node = "fail"
    BY <2>1, NumberEnds
  <2> QED
    BY <2>1, <2>2, <2>3, OrderedOutcome DEF parse_u_integer_random_range
<1> QED
  BY <1>5, <1>6, <1>7, <1>8, <1>9

(* The values of a string column. *)
LEMMA StringFunctions ==
    ASSUME NEW s, Entered(s), NEW a
    PROVE  /\ Outcome(parse_string_unique(s, a), s, a)
           /\ Outcome(parse_string_fixed(s, a), s, a)
           /\ Outcome(parse_string_hash(s, a), s, a)
<1>1. Outcome(parse_string_fixed(s, a), s, a)
  BY FailOutcome, LackingRefuses, FixedStringOutcome DEF parse_string_fixed
<1> QED
  BY <1>1, UniqueStringOutcome, HashOutcome

-----------------------------------------------------------------------------
(* Column types and JOINs: another function is entered, the column does    *)
(* not end.                                                                *)

Begins(t, s, a) == Outcome(t, s, a) /\ t.node # "close"

(* A column type leads to its qualifiers. *)
LEMMA TypeBegins ==
    ASSUME NEW s, Entered(s), NEW a, a # END
    PROVE  Begins(parse_col_type(s, a), s, a)
<1>1. CASE a \in DOMAIN ColTypes
  <2>1. ColTypes[a] \in ColumnNodes \ SetNodes
    BY <1>1 DEF ColTypes, ColumnNodes, SetNodes
  <2>2. PICK t : t = parse_col_type(s, a)
    OBVIOUS
  <2>3. /\ DOMAIN t = Fields /\ t.node = ColTypes[a]
        /\ \A f \in Fields \ {"node"} : t[f] = s[f]
    BY <1>1, <2>2 DEF parse_col_type, Entered, Fields, Own
  <2>4. Keeps(t, s, Own)
    BY <2>3 DEF Keeps, Own
  <2>5. /\ t.values = s.values /\ t.text = s.text /\ t.grp = s.grp /\ t.grouped = s.grouped
        /\ t.name = s.name
    BY <2>3 DEF Fields, Own
  <2>6. Qualified(t)
    BY <2>1, <2>3, <2>5 DEF Qualified, Entered
  <2> QED
    BY <2>1, <2>2, <2>3, <2>4, <2>6 DEF Begins, Outcome, SetNodes
<1>2. CASE a \notin DOMAIN ColTypes
  <2>1. parse_col_type(s, a) = Fail(s, ColTypeErrors.invalid)
    BY <1>2 DEF parse_col_type
  <2>2. Fail(s, ColTypeErrors.invalid).node = "fail"
    BY DEF Fail, Entered, Fields, Own
  <2> QED
    BY <2>1, <2>2, FailOutcome, WrongRefuses DEF Begins
<1> QED
  BY <1>1, <1>2

(* So does a JOIN, which may be a word instead. *)
LEMMA JoinBegins ==
    ASSUME NEW s, Entered(s), NEW a, a # END
    PROVE  Begins(parse_join(s, a), s, a)
<1>1. FixedString(s, a).node # "close"
  <2>1. CASE parse_fixed_string(a) = "ok"
    BY <2>1 DEF FixedString, Take, Completed, Entered, Fields, Own
  <2>2. CASE parse_fixed_string(a) # "ok"
    BY <2>2 DEF FixedString, Fail, Entered, Fields, Own
  <2> QED
    BY <2>1, <2>2
<1> QED
  BY <1>1, TypeBegins, FixedStringOutcome DEF parse_join, Begins

(* t is u, but that the argument is wrong, or node comes next.             *)
Reaches(t, u, a, node) ==
    /\ Keeps(t, u, Own) /\ Qualified(t)
    /\ Failed(t, a) \/ (t.node = node /\ a # END)

Stops(t, u, a) == Keeps(t, u, Own) /\ Qualified(t) /\ Failed(t, a)

(* A message stops the parsing of a spec. *)
LEMMA FailStops ==
    ASSUME NEW s, Entered(s), NEW a, NEW e, Refuses(e, a)
    PROVE  Stops(Fail(s, e), s, a)
<1>1. Fail(s, e).node = "fail" /\ Fail(s, e).due = e
  BY DEF Fail, Entered, Fields, Own
<1> QED
  BY <1>1, FailOutcome DEF Outcome, Stops, Failed

(* A function that stops reaches nothing more. *)
LEMMA StopsReaches ==
    ASSUME NEW t, NEW u, NEW a, Stops(t, u, a), NEW node
    PROVE  Reaches(t, u, a, node)
BY DEF Stops, Reaches

(* A function may enter another one at once. *)
LEMMA NodeReaches ==
    ASSUME NEW u, Entered(u), NEW a, a # END, NEW node, node \notin SetNodes
    PROVE  Reaches([u EXCEPT !.node = node], u, a, node)
<1>1. PICK t : t = [u EXCEPT !.node = node]
  OBVIOUS
<1>2. /\ DOMAIN t = Fields /\ t.node = node
      /\ \A f \in Fields \ {"node"} : t[f] = u[f]
  BY <1>1 DEF Entered, Fields, Own
<1>3. Keeps(t, u, Own)
  BY <1>2 DEF Keeps, Own
<1>4. /\ t.values = u.values /\ t.text = u.text /\ t.grp = u.grp /\ t.grouped = u.grouped
      /\ t.name = u.name
  BY <1>2 DEF Fields, Own
<1>5. Qualified(t)
  BY <1>2, <1>4 DEF Qualified, Entered
<1> QED
  BY <1>1, <1>2, <1>3, <1>5 DEF Reaches

(* Or after a name that is correct. *)
LEMMA NamedReaches ==
    ASSUME NEW u, Entered(u), NEW a, a # END, NEW node, node \notin SetNodes,
           NEW parsed \in {"ok", "empty", "invalid", "long"}, NEW errors,
           \A p \in {"empty", "invalid", "long"} : Refuses(errors[p], a)
    PROVE  Reaches(Named(u, a, parsed, errors, node), u, a, node)
<1>1. CASE parsed = "ok"
  <2>1. PICK t : t = Named(u, a, parsed, errors, node)
    OBVIOUS
  <2>2. /\ DOMAIN t = Fields /\ t.node = node /\ t.name = Length(a)
        /\ \A f \in Fields \ {"node", "name"} : t[f] = u[f]
    BY <1>1, <2>1 DEF Named, Entered, Fields, Own
  <2>3. Keeps(t, u, Own)
    BY <2>2 DEF Keeps, Own
  <2>4. /\ t.values = u.values /\ t.text = u.text /\ t.grp = u.grp /\ t.grouped = u.grouped
    BY <2>2 DEF Fields, Own
  <2>5. Length(a) = 0 \/ Length(a) = 1
    BY Zenon DEF Length
  <2>6. Qualified(t)
    BY <2>2, <2>4, <2>5 DEF Qualified, Entered
  <2> QED
    BY <2>1, <2>2, <2>3, <2>6 DEF Reaches
<1>2. CASE parsed # "ok"
  <2>1. Named(u, a, parsed, errors, node) = Fail(u, errors[parsed])
    BY <1>2 DEF Named
  <2>2. Refuses(errors[parsed], a)
    BY <1>2
  <2> QED
    BY <2>1, <2>2, FailStops, StopsReaches
<1> QED
  BY <1>1, <1>2

(* A struct is written. *)
LEMMA WriteKeeps ==
    ASSUME NEW s, Entered(s), NEW at, NEW size
    PROVE  LET w == Write(s, at, size)
           IN  /\ Keeps(w, s, {"top", "clobbered"}) /\ Entered(w)
               /\ w.top = Larger(s.top, at + size)
               /\ w.clobbered = (s.clobbered \/ at < s.kept)
<1>1. PICK w : w = Write(s, at, size)
  OBVIOUS
<1>2. /\ DOMAIN w = Fields /\ w.top = Larger(s.top, at + size)
      /\ w.clobbered = (s.clobbered \/ at < s.kept)
      /\ \A f \in Fields \ {"top", "clobbered"} : w[f] = s[f]
  BY <1>1 DEF Write, Entered, Fields, Own
<1>3. Keeps(w, s, {"top", "clobbered"})
  BY <1>2 DEF Keeps
<1>4. /\ w.values = s.values /\ w.text = s.text /\ w.grp = s.grp /\ w.grouped = s.grouped
      /\ w.name = s.name /\ w.node = s.node /\ w.set = s.set
  BY <1>2 DEF Fields, Own
<1> QED
  BY <1>1, <1>2, <1>3, <1>4 DEF Entered, Qualified

-----------------------------------------------------------------------------
(* What the functions of a DB_SPEC, a TBL_SPEC and a COL_SPEC change.      *)

Goes(t, r, changed, a, node) ==
    /\ Keeps(t, r, Own \union changed) /\ Qualified(t)
    /\ Failed(t, a) \/ (t.node = node /\ a # END)

Starts(t, r, changed, a) ==
    /\ Keeps(t, r, Own \union changed) /\ Qualified(t)
    /\ Failed(t, a) \/ (t.node \in ColumnNodes /\ a # END)

Wrote(t, r, at, size) ==
    /\ t.top = Larger(r.top, at + size)
    /\ t.clobbered = (r.clobbered \/ at < r.kept)

NewColumn(t, r, at, a, node) ==
    /\ Goes(t, r, {"top", "clobbered", "col", "join"}, a, node)
    /\ Wrote(t, r, at, ColSize) /\ t.col = at /\ t.join = [r.join EXCEPT !.on = FALSE]

NewTable(rows) == [rows |-> rows, cols |-> <<>>]

(* A table that joins the counts. *)
Counted(d, rows) ==
    [d EXCEPT !.rows = @ + rows, !.rowsMax = Larger(@, rows), !.tables = @ + 1]

OneMore(d) == [d EXCEPT !.columns = @ + 1]

(* What is reached after a spec was written. *)
LEMMA ReachesGoes ==
    ASSUME NEW t, NEW u, NEW r, NEW a, NEW node, Reaches(t, u, a, node),
           NEW changed, Keeps(u, r, changed)
    PROVE  /\ Goes(t, r, changed, a, node)
           /\ t.spec = u.spec /\ t.top = u.top /\ t.clobbered = u.clobbered /\ t.tbl = u.tbl
           /\ t.col = u.col /\ t.join = u.join /\ t.tables = u.tables /\ t.database = u.database
<1>1. Keeps(t, u, Own) /\ Keeps(t, r, Own \union changed)
  BY KeepsTwice DEF Reaches
<1>2. {"spec", "top", "clobbered", "tbl", "col", "join", "tables", "database"} \subseteq Fields \ Own
  BY DEF Fields, Own
<1>3. /\ t.spec = u.spec /\ t.top = u.top /\ t.clobbered = u.clobbered /\ t.tbl = u.tbl
      /\ t.col = u.col /\ t.join = u.join /\ t.tables = u.tables /\ t.database = u.database
  BY <1>1, <1>2 DEF Keeps
<1> QED
  BY <1>1, <1>3 DEF Goes, Reaches

(* A change outside the column's own fields. *)
LEMMA KeepsEntered ==
    ASSUME NEW u, NEW r, Entered(r), NEW changed, Keeps(u, r, changed),
           changed \intersect Own = {}
    PROVE  Entered(u)
<1>1. Own \subseteq Fields \ changed
  BY DEF Fields
<1>2. /\ u.values = r.values /\ u.text = r.text /\ u.grp = r.grp /\ u.grouped = r.grouped
      /\ u.name = r.name /\ u.node = r.node /\ u.set = r.set
  BY <1>1 DEF Own, Keeps
<1> QED
  BY <1>2 DEF Entered, Qualified, Keeps

(* parse_db_specs: a DATABASE flag, or an error that quotes nothing more. *)
LEMMA DbSpecsReads ==
    ASSUME NEW r, Entered(r), NEW a, a # END
    PROVE  LET t == parse_db_specs(r, a)
           IN  /\ Goes(t, r, {"spec"}, a, "db_name") /\ t.spec = r.from
               /\ t.node = "fail" => t.due.quote = 0
<1>1. PICK u : u = [r EXCEPT !.spec = r.from]
  OBVIOUS
<1>2. Keeps(u, r, {"spec"}) /\ u.spec = r.from
  BY <1>1 DEF Keeps, Entered, Fields, Own
<1>3. Entered(u)
  BY <1>2, KeepsEntered DEF Own
<1>4. Reaches([u EXCEPT !.node = "db_name"], u, a, "db_name")
  BY <1>3, NodeReaches DEF SetNodes
<1>5. [r EXCEPT !.spec = r.from, !.node = "db_name"] = [u EXCEPT !.node = "db_name"]
  BY <1>1
<1>6. Refuses(DbSpecErrors.flag, a)
  BY RejectedRefuses DEF DbSpecErrors
<1>7. Reaches(parse_db_specs(r, a), u, a, "db_name")
  BY <1>1, <1>3, <1>4, <1>5, <1>6, FailStops, StopsReaches DEF parse_db_specs
<1>8. parse_db_specs(r, a).node = "fail" => parse_db_specs(r, a).due.quote = 0
  <2>1. CASE a = DbFlag
    BY <2>1 DEF parse_db_specs, Entered, Fields, Own
  <2>2. CASE a # DbFlag
    <3>1. parse_db_specs(r, a) = Fail(u, DbSpecErrors.flag)
      BY <1>1, <2>2 DEF parse_db_specs
    <3>2. Fail(u, DbSpecErrors.flag).due = DbSpecErrors.flag
      BY <1>2 DEF Fail, Keeps, Fields, Own
    <3> QED
      BY <3>1, <3>2 DEF DbSpecErrors, Rejected
  <2> QED
    BY <2>1, <2>2
<1> QED
  BY <1>2, <1>7, <1>8, ReachesGoes

(* parse_first_db_spec writes the DbSpec. *)
LEMMA DbNameReads ==
    ASSUME NEW r, Entered(r), NEW a, a # END
    PROVE  LET t == parse_first_db_spec(r, a)
           IN  Goes(t, r, {"top", "clobbered"}, a, "tbl_flag") /\ Wrote(t, r, r.db, DbSize)
<1>1. PICK u : u = Write(r, r.db, DbSize)
  OBVIOUS
<1>2. /\ Keeps(u, r, {"top", "clobbered"}) /\ Entered(u)
      /\ u.top = Larger(r.top, r.db + DbSize) /\ u.clobbered = (r.clobbered \/ r.db < r.kept)
  BY <1>1, WriteKeeps
<1>3. Reaches(parse_first_db_spec(r, a), u, a, "tbl_flag")
  BY <1>1, <1>2, NamedReaches, NamesParsed, ParsedRefuses DEF parse_first_db_spec, SetNodes
<1> QED
  BY <1>2, <1>3, ReachesGoes DEF Wrote

(* The flags of the first table and of the first column. *)
LEMMA FlagReads ==
    ASSUME NEW r, Entered(r), NEW a, a # END
    PROVE  /\ Goes(first_tbl_flag(r, a), r, {}, a, "tbl_name")
           /\ Goes(first_col_flag(r, a), r, {}, a, "col_name")
<1>1. Refuses(TblNameErrors.flag, a) /\ Refuses(ColNameErrors.flag, a)
  BY RejectedRefuses DEF TblNameErrors, ColNameErrors
<1>2. Reaches(first_tbl_flag(r, a), r, a, "tbl_name")
  BY <1>1, NodeReaches, FailStops, StopsReaches DEF first_tbl_flag, SetNodes
<1>3. Reaches(first_col_flag(r, a), r, a, "col_name")
  BY <1>1, NodeReaches, FailStops, StopsReaches DEF first_col_flag, SetNodes
<1>4. Keeps(r, r, {})
  BY DEF Keeps, Entered
<1> QED
  BY <1>2, <1>3, <1>4, ReachesGoes

(* first_tbl_name writes the TblSpec behind the DbSpec. *)
LEMMA TblNameReads ==
    ASSUME NEW r, Entered(r), NEW a, a # END
    PROVE  LET t == first_tbl_name(r, a)
           IN  /\ Goes(t, r, {"top", "clobbered"}, a, "row_count")
               /\ Wrote(t, r, r.db + DbSize, TblSize)
<1>1. PICK u : u = Write(r, r.db + DbSize, TblSize)
  OBVIOUS
<1>2. /\ Keeps(u, r, {"top", "clobbered"}) /\ Entered(u)
      /\ u.top = Larger(r.top, r.db + DbSize + TblSize)
      /\ u.clobbered = (r.clobbered \/ r.db + DbSize < r.kept)
  BY <1>1, WriteKeeps
<1>3. Reaches(first_tbl_name(r, a), u, a, "row_count")
  BY <1>1, <1>2, NamedReaches, NamesParsed, ParsedRefuses
     DEF first_tbl_name, parse_tbl_name, SetNodes
<1> QED
  BY <1>2, <1>3, ReachesGoes DEF Wrote

(* A ROW_COUNT is a number. *)
LEMMA RowCountReads ==
    ASSUME NEW r, Entered(r), NEW a, a # END, NEW table
    PROVE  \/ Stops(RowCount(r, a, table), r, a)
           \/ RowCount(r, a, table) = table /\ a \in DOMAIN Numerals /\ Numerals[a] \in Nat
<1>1. CASE parse_row_count(a) = "ok"
  BY <1>1, CountingParsed DEF RowCount, parse_row_count
<1>2. CASE parse_row_count(a) # "ok"
  <2>1. parse_row_count(a) \in {"invalid", "zero", "large"}
    BY <1>2, CountingParsed DEF parse_row_count
  <2>2. Refuses(RowCountErrors[parse_row_count(a)], a)
    BY <2>1, ParsedRefuses
  <2> QED
    BY <1>2, <2>2, FailStops DEF RowCount
<1> QED
  BY <1>1, <1>2

(* parse_first_tbl_spec starts the counts of the database. *)
LEMMA FirstTblReads ==
    ASSUME NEW r, Entered(r), NEW a, a # END
    PROVE  LET t == parse_first_tbl_spec(r, a)
           IN  \/ Stops(t, r, a)
               \/ /\ Goes(t, r, {"tbl", "tables", "database"}, a, "col_flag")
                  /\ t.tbl = r.db + DbSize
                  /\ \E n \in Nat : /\ t.tables = <<NewTable(n)>>
                                    /\ t.database = database_counter_init(n)
<1>1. PICK n : n = Numerals[a]
  OBVIOUS
<1>2. PICK u : u = [r EXCEPT !.tbl = r.db + DbSize, !.tables = <<NewTable(n)>>,
                             !.database = database_counter_init(n)]
  OBVIOUS
<1>3. /\ Keeps(u, r, {"tbl", "tables", "database"}) /\ u.tbl = r.db + DbSize
      /\ u.tables = <<NewTable(n)>> /\ u.database = database_counter_init(n)
  BY <1>2 DEF Keeps, Entered, Fields, Own
<1>4. Entered(u)
  BY <1>3, KeepsEntered DEF Own
<1>5. Reaches([u EXCEPT !.node = "col_flag"], u, a, "col_flag")
  BY <1>4, NodeReaches DEF SetNodes
<1>6. PICK table : table = [u EXCEPT !.node = "col_flag"]
  OBVIOUS
<1>7. parse_first_tbl_spec(r, a) = RowCount(r, a, table)
  BY <1>1, <1>2, <1>6 DEF parse_first_tbl_spec, NewTable
<1>8. /\ Goes(table, r, {"tbl", "tables", "database"}, a, "col_flag")
      /\ table.tbl = r.db + DbSize /\ table.tables = <<NewTable(n)>>
      /\ table.database = database_counter_init(n)
  BY <1>3, <1>5, <1>6, ReachesGoes
<1>9. \/ Stops(RowCount(r, a, table), r, a)
      \/ RowCount(r, a, table) = table /\ n \in Nat
  BY <1>1, RowCountReads
<1> QED
  BY <1>7, <1>8, <1>9

(* A column's name, for which a ColSpec is written. *)
LEMMA ColumnReads ==
    ASSUME NEW r, Entered(r), r.node \notin SetNodes, NEW a, a # END, NEW at,
           NEW node, node \notin SetNodes
    PROVE  NewColumn(Named(ColumnAt(r, at), a, parse_col_name(a), ColNameErrors, node),
                     r, at, a, node)
<1>1. PICK u : u = ColumnAt(r, at)
  OBVIOUS
<1>2. PICK w : w = Write(r, at, ColSize)
  OBVIOUS
<1>3. /\ Keeps(w, r, {"top", "clobbered"}) /\ Entered(w)
      /\ w.top = Larger(r.top, at + ColSize) /\ w.clobbered = (r.clobbered \/ at < r.kept)
  BY <1>2, WriteKeeps
<1>4. /\ DOMAIN u = Fields /\ u.col = at /\ u.join = [w.join EXCEPT !.on = FALSE]
      /\ u.grouped = FALSE /\ u.values = <<>> /\ u.text = 0
      /\ \A f \in Fields \ {"col", "join", "grouped", "values", "text"} : u[f] = w[f]
  BY <1>1, <1>2, <1>3 DEF ColumnAt, Entered, Fields, Own
<1>5. u.top = w.top /\ u.clobbered = w.clobbered /\ w.join = r.join
  BY <1>3, <1>4 DEF Keeps, Fields
<1>6. Keeps(u, r, {"top", "clobbered", "col", "join", "grouped", "values", "text"})
  BY <1>3, <1>4 DEF Keeps
<1>7. u.grp = r.grp /\ u.name = r.name /\ u.node = r.node
  BY <1>6 DEF Keeps, Fields, Own
<1>8. Entered(u)
  <2>1. r.grp \in Nat /\ r.name \in Nat
    BY DEF Entered, Qualified
  <2>2. u.values \in Seq(Int) /\ u.text \in Nat /\ u.grouped \in BOOLEAN
    <3>1. <<>> \in Seq(Int) /\ 0 \in Nat /\ FALSE \in BOOLEAN
      OBVIOUS
    <3> QED
      BY <1>4, <3>1
  <2>3. u.node \notin SetNodes /\ u.grp \in Nat /\ u.name \in Nat
    BY <1>7, <2>1
  <2> QED
    BY <1>4, <2>2, <2>3 DEF Entered, Qualified
<1>9. PICK t : t = Named(u, a, parse_col_name(a), ColNameErrors, node)
  OBVIOUS
<1>10. parse_col_name(a) \in {"ok", "empty", "invalid", "long"}
  BY NamesParsed DEF parse_col_name
<1>11. Reaches(t, u, a, node)
  BY <1>8, <1>9, <1>10, NamedReaches, ParsedRefuses
<1>12. /\ Goes(t, r, {"top", "clobbered", "col", "join", "grouped", "values", "text"}, a, node)
       /\ t.top = u.top /\ t.clobbered = u.clobbered /\ t.col = u.col /\ t.join = u.join
  BY <1>6, <1>11, ReachesGoes
<1>13. Own \union {"top", "clobbered", "col", "join", "grouped", "values", "text"}
          = Own \union {"top", "clobbered", "col", "join"}
  BY DEF Own
<1>14. Goes(t, r, {"top", "clobbered", "col", "join"}, a, node)
  BY <1>12, <1>13 DEF Goes
<1> QED
  BY <1>1, <1>3, <1>4, <1>5, <1>9, <1>12, <1>14 DEF NewColumn, Wrote

(* next_tbl_name writes the TblSpec behind the last column. *)
LEMMA NextTblReads ==
    ASSUME NEW r, Entered(r), NEW a
    PROVE  LET t == next_tbl_name(r, a)
           IN  \/ Stops(t, r, a)
               \/ /\ Goes(t, r, {"top", "clobbered", "tbl"}, a, "next_row_count") /\ a # END
                  /\ Wrote(t, r, r.col + ColSize, TblSize) /\ t.tbl = r.col + ColSize
<1>1. CASE a = END
  <2>1. Refuses(IncompleteErrors.tbl_name, END)
    BY MissingRefuses DEF IncompleteErrors
  <2> QED
    BY <1>1, <2>1, FailStops DEF next_tbl_name
<1>2. CASE a # END
  <2>1. PICK w : w = Write(r, r.col + ColSize, TblSize)
    OBVIOUS
  <2>2. /\ Keeps(w, r, {"top", "clobbered"}) /\ Entered(w)
        /\ w.top = Larger(r.top, r.col + ColSize + TblSize)
        /\ w.clobbered = (r.clobbered \/ r.col + ColSize < r.kept)
    BY <2>1, WriteKeeps
  <2>3. PICK u : u = [w EXCEPT !.tbl = r.col + ColSize]
    OBVIOUS
  <2>4. /\ Keeps(u, w, {"tbl"}) /\ u.tbl = r.col + ColSize
        /\ u.top = w.top /\ u.clobbered = w.clobbered
    BY <2>2, <2>3 DEF Keeps, Entered, Fields, Own
  <2>5. Entered(u) /\ Keeps(u, r, {"top", "clobbered", "tbl"})
    <3>1. Entered(u)
      BY <2>2, <2>4, KeepsEntered DEF Own
    <3> QED
      BY <2>2, <2>4, <3>1 DEF Keeps
  <2>6. next_tbl_name(r, a) = Named(u, a, parse_tbl_name(a), TblNameErrors, "next_row_count")
    BY <1>2, <2>1, <2>3 DEF next_tbl_name
  <2>7. Reaches(next_tbl_name(r, a), u, a, "next_row_count")
    BY <1>2, <2>5, <2>6, NamedReaches, NamesParsed, ParsedRefuses DEF parse_tbl_name, SetNodes
  <2> QED
    BY <1>2, <2>2, <2>4, <2>5, <2>7, ReachesGoes DEF Wrote
<1> QED
  BY <1>1, <1>2

(* next_row_count adds the table. *)
LEMMA NextRowCountReads ==
    ASSUME NEW r, Entered(r), NEW a
    PROVE  LET t == next_row_count(r, a)
           IN  \/ Stops(t, r, a)
               \/ /\ Goes(t, r, {"tables"}, a, "tbl_col_flag")
                  /\ \E n \in Nat : t.tables = Append(r.tables, NewTable(n))
<1>1. CASE a = END
  <2>1. Refuses(IncompleteErrors.row_count, END)
    BY MissingRefuses DEF IncompleteErrors
  <2> QED
    BY <1>1, <2>1, FailStops DEF next_row_count
<1>2. CASE a # END
  <2>1. PICK n : n = Numerals[a]
    OBVIOUS
  <2>2. PICK u : u = [r EXCEPT !.tables = Append(r.tables, NewTable(n))]
    OBVIOUS
  <2>3. Keeps(u, r, {"tables"}) /\ u.tables = Append(r.tables, NewTable(n))
    BY <2>2 DEF Keeps, Entered, Fields, Own
  <2>4. Entered(u)
    BY <2>3, KeepsEntered DEF Own
  <2>5. PICK table : table = [u EXCEPT !.node = "tbl_col_flag"]
    OBVIOUS
  <2>6. Goes(table, r, {"tables"}, a, "tbl_col_flag") /\ table.tables = u.tables
    <3>1. Reaches(table, u, a, "tbl_col_flag")
      BY <1>2, <2>4, <2>5, NodeReaches DEF SetNodes
    <3> QED
      BY <2>3, <3>1, ReachesGoes
  <2>7. next_row_count(r, a) = RowCount(r, a, table)
    BY <1>2, <2>1, <2>2, <2>5 DEF next_row_count, NewTable
  <2>8. \/ Stops(RowCount(r, a, table), r, a)
        \/ RowCount(r, a, table) = table /\ n \in Nat
    BY <1>2, <2>1, RowCountReads
  <2> QED
    BY <2>3, <2>6, <2>7, <2>8
<1> QED
  BY <1>1, <1>2

(* parse_next_tbl_spec counts it. *)
LEMMA TblColFlagReads ==
    ASSUME NEW r, Entered(r), NEW a
    PROVE  LET t == parse_next_tbl_spec(r, a)
           IN  \/ Stops(t, r, a)
               \/ /\ Goes(t, r, {"database"}, a, "tbl_col_name")
                  /\ t.database = Counted(r.database, r.tables[Len(r.tables)].rows)
<1>1. CASE a = END
  <2>1. Refuses(IncompleteErrors.col_flag, END)
    BY MissingRefuses DEF IncompleteErrors
  <2> QED
    BY <1>1, <2>1, FailStops DEF parse_next_tbl_spec, END, ColFlag
<1>2. CASE a # END
  <2>1. PICK u : u = [r EXCEPT !.database = Counted(r.database, r.tables[Len(r.tables)].rows)]
    OBVIOUS
  <2>2. /\ Keeps(u, r, {"database"})
        /\ u.database = Counted(r.database, r.tables[Len(r.tables)].rows)
    BY <2>1 DEF Keeps, Entered, Fields, Own
  <2>3. Entered(u)
    BY <2>2, KeepsEntered DEF Own
  <2>4. Reaches([u EXCEPT !.node = "tbl_col_name"], u, a, "tbl_col_name")
    BY <1>2, <2>3, NodeReaches DEF SetNodes
  <2>5. Reaches(Fail(u, ColNameErrors.flag), u, a, "tbl_col_name")
    <3>1. Refuses(ColNameErrors.flag, a)
      BY <1>2, RejectedRefuses DEF ColNameErrors
    <3> QED
      BY <2>3, <3>1, FailStops, StopsReaches
  <2>6. u = [r EXCEPT !.database.rows = @ + r.tables[Len(r.tables)].rows,
                      !.database.rowsMax = Larger(@, r.tables[Len(r.tables)].rows),
                      !.database.tables = @ + 1]
    BY <2>1 DEF Counted
  <2>7. PICK t : t = parse_next_tbl_spec(r, a)
    OBVIOUS
  <2>8. Reaches(t, u, a, "tbl_col_name")
    BY <1>2, <2>4, <2>5, <2>6, <2>7 DEF parse_next_tbl_spec
  <2>9. Goes(t, r, {"database"}, a, "tbl_col_name") /\ t.database = u.database
    BY <2>2, <2>8, ReachesGoes
  <2> QED
    BY <2>2, <2>7, <2>9
<1> QED
  BY <1>1, <1>2

(* The next column, behind its table or behind the last column. *)
LEMMA NextColReads ==
    ASSUME NEW r, Entered(r), r.node \notin SetNodes, NEW a
    PROVE  /\ \/ Stops(parse_first_col_spec(r, a), r, a)
              \/ /\ a # END
                 /\ NewColumn(parse_first_col_spec(r, a), r, r.tbl + TblSize, a, "next_col_type")
           /\ \/ Stops(parse_next_col_spec(r, a), r, a)
              \/ /\ a # END
                 /\ NewColumn(parse_next_col_spec(r, a), r, r.col + ColSize, a, "next_col_type")
<1>1. CASE a = END
  <2>1. Refuses(IncompleteErrors.col_name, END)
    BY MissingRefuses DEF IncompleteErrors
  <2> QED
    BY <1>1, <2>1, FailStops DEF parse_first_col_spec, parse_next_col_spec
<1>2. CASE a # END
  BY <1>2, ColumnReads DEF parse_first_col_spec, parse_next_col_spec, SetNodes
<1> QED
  BY <1>1, <1>2

(* What the column's first function makes of its record.                   *)
LEMMA BeginsStarts ==
    ASSUME NEW t, NEW u, NEW r, NEW a, a # END, Begins(t, u, a),
           NEW changed, Keeps(u, r, changed)
    PROVE  /\ Starts(t, r, changed, a)
           /\ t.top = u.top /\ t.clobbered = u.clobbered
           /\ t.col = u.col /\ t.join = u.join /\ t.database = u.database
<1>1. Keeps(t, u, Own) /\ Keeps(t, r, Own \union changed)
  BY KeepsTwice DEF Begins, Outcome
<1>2. {"top", "clobbered", "col", "join", "database"} \subseteq Fields \ Own
  BY DEF Fields, Own
<1>3. /\ t.top = u.top /\ t.clobbered = u.clobbered
      /\ t.col = u.col /\ t.join = u.join /\ t.database = u.database
  BY <1>1, <1>2 DEF Keeps
<1> QED
  BY <1>1, <1>3 DEF Starts, Begins, Outcome

(* next_col_type counts the column. *)
LEMMA NextColTypeReads ==
    ASSUME NEW r, Entered(r), NEW a
    PROVE  LET t == next_col_type(r, a)
           IN  \/ Stops(t, r, a)
               \/ Starts(t, r, {"database"}, a) /\ t.database = OneMore(r.database)
<1>1. CASE a = END
  BY <1>1, LackingRefuses, FailStops DEF next_col_type
<1>2. CASE a # END
  <2>1. PICK u : u = [r EXCEPT !.database = OneMore(r.database)]
    OBVIOUS
  <2>2. Keeps(u, r, {"database"}) /\ u.database = OneMore(r.database)
    BY <2>1 DEF Keeps, Entered, Fields, Own
  <2>3. Entered(u)
    BY <2>2, KeepsEntered DEF Own
  <2>4. u = [r EXCEPT !.database.columns = @ + 1]
    BY <2>1 DEF OneMore
  <2>5. PICK t : t = next_col_type(r, a)
    OBVIOUS
  <2>6. Begins(t, u, a)
    BY <1>2, <2>3, <2>4, <2>5, TypeBegins DEF next_col_type
  <2>7. Starts(t, r, {"database"}, a) /\ t.database = u.database
    BY <1>2, <2>2, <2>6, BeginsStarts
  <2> QED
    BY <2>2, <2>5, <2>7
<1> QED
  BY <1>1, <1>2

(* parse_next_join writes and counts another ColSpec. *)
LEMMA NextJoinReads ==
    ASSUME NEW r, Entered(r), NEW a
    PROVE  LET t == parse_next_join(r, a)
           IN  \/ Stops(t, r, a)
               \/ /\ Starts(t, r, {"top", "clobbered", "col", "database"}, a) /\ a # END
                  /\ Wrote(t, r, r.col + ColSize, ColSize)
                  /\ t.col = r.col + ColSize /\ t.database = OneMore(r.database)
<1>1. CASE a = END
  BY <1>1, LackingRefuses, FailStops DEF parse_next_join
<1>2. CASE a # END
  <2>1. PICK w : w = Write(r, r.col + ColSize, ColSize)
    OBVIOUS
  <2>2. /\ Keeps(w, r, {"top", "clobbered"}) /\ Entered(w)
        /\ w.top = Larger(r.top, r.col + ColSize + ColSize)
        /\ w.clobbered = (r.clobbered \/ r.col + ColSize < r.kept)
    BY <2>1, WriteKeeps
  <2>3. w.col = r.col /\ w.database = r.database
    BY <2>2 DEF Keeps, Fields
  <2>4. PICK u : u = [w EXCEPT !.col = @ + ColSize, !.database.columns = @ + 1]
    OBVIOUS
  <2>5. /\ DOMAIN u = Fields /\ u.col = r.col + ColSize /\ u.database = OneMore(r.database)
        /\ \A f \in Fields \ {"col", "database"} : u[f] = w[f]
    BY <2>2, <2>3, <2>4 DEF OneMore, Entered, Fields, Own
  <2>6. Keeps(u, w, {"col", "database"}) /\ u.top = w.top /\ u.clobbered = w.clobbered
    BY <2>5 DEF Keeps, Fields
  <2>7. Entered(u) /\ Keeps(u, r, {"top", "clobbered", "col", "database"})
    <3>1. Entered(u)
      BY <2>2, <2>6, KeepsEntered DEF Own
    <3> QED
      BY <2>2, <2>6, <3>1 DEF Keeps
  <2>8. PICK t : t = parse_next_join(r, a)
    OBVIOUS
  <2>9. Begins(t, u, a)
    BY <1>2, <2>1, <2>4, <2>7, <2>8, JoinBegins DEF parse_next_join
  <2>10. /\ Starts(t, r, {"top", "clobbered", "col", "database"}, a)
         /\ t.top = u.top /\ t.clobbered = u.clobbered /\ t.col = u.col
         /\ t.database = u.database
    BY <1>2, <2>7, <2>9, BeginsStarts
  <2> QED
    BY <1>2, <2>2, <2>5, <2>6, <2>8, <2>10 DEF Wrote
<1> QED
  BY <1>1, <1>2

(* parse_join_spec makes the current column the first JOIN. *)
LEMMA JoinSpecReads ==
    ASSUME NEW r, Entered(r), NEW a
    PROVE  LET t == parse_join_spec(r, a)
           IN  \/ Stops(t, r, a)
               \/ Starts(t, r, {"join"}, a) /\ t.join = join_spec_state_init(r).join
<1>1. CASE a = END
  BY <1>1, LackingRefuses, FailStops DEF parse_join_spec
<1>2. CASE a # END
  <2>1. PICK u : u = join_spec_state_init(r)
    OBVIOUS
  <2>2. Keeps(u, r, {"join"})
    BY <2>1 DEF join_spec_state_init, Keeps, Entered, Fields, Own
  <2>3. Entered(u)
    BY <2>2, KeepsEntered DEF Own
  <2>4. PICK t : t = parse_join_spec(r, a)
    OBVIOUS
  <2>5. Begins(t, u, a)
    BY <1>2, <2>1, <2>3, <2>4, JoinBegins DEF parse_join_spec
  <2>6. Starts(t, r, {"join"}, a) /\ t.join = u.join
    BY <1>2, <2>2, <2>5, BeginsStarts
  <2> QED
    BY <2>1, <2>4, <2>6
<1> QED
  BY <1>1, <1>2

-----------------------------------------------------------------------------
(* The state of the parser is such a record, about one of the inputs.      *)
Shape == Entered(state) /\ input \in Inputs

(* The record when the next argument has been read, and that argument.     *)
Advanced == [state EXCEPT !.from = @ + 1]
NextArguments == IF state.from + 1 = argc THEN {END} ELSE input.args

(* Reading an argument only advances the parser. *)
LEMMA AdvancedKeeps ==
    ASSUME Shape
    PROVE  /\ Keeps(Advanced, state, {"from"}) /\ Advanced.from = state.from + 1
           /\ Entered(Advanced) /\ Advanced.node = state.node
<1>1. PICK r : r = Advanced
  OBVIOUS
<1>2. Keeps(r, state, {"from"}) /\ r.from = state.from + 1
  BY <1>1 DEF Advanced, Shape, Entered, Keeps, Fields, Own
<1>3. Entered(r)
  BY <1>2, KeepsEntered DEF Shape, Own
<1> QED
  BY <1>1, <1>2, <1>3 DEF Keeps, Fields, Own

(* The functions of a column. *)
LEMMA ColumnCases ==
    ASSUME Shape, NEW r, r = Advanced, ParseColumn
    PROVE  /\ UNCHANGED input
           /\ \E a \in NextArguments : state.node \in ColumnNodes /\ Outcome(state', r, a)
<1>1. Entered(r) /\ r.node = state.node
  BY AdvancedKeeps
<1>2. r.node \in SetNodes => (r.set \in NumberSets => Len(r.values) >= 1)
  BY <1>1 DEF Entered, Qualified
<1>3. CASE InColumn("integer_qualifier", parse_integer_qualifier)
  BY <1>1, <1>3, QualifierFunctions
     DEF InColumn, Checked, Advanced, NextArguments, ColumnNodes
<1>4. CASE InColumn("integer_fixed", parse_integer_fixed)
  BY <1>1, <1>4, IntegerFunctions
     DEF InColumn, Checked, Advanced, NextArguments, ColumnNodes
<1>5. CASE InColumn("integer_random", parse_integer_random)
  BY <1>1, <1>5, QualifierFunctions
     DEF InColumn, Checked, Advanced, NextArguments, ColumnNodes
<1>6. CASE InColumn("integer_random_from", parse_integer_random_from)
  BY <1>1, <1>6, IntegerFunctions
     DEF InColumn, Checked, Advanced, NextArguments, ColumnNodes
<1>7. CASE InColumn("integer_random_upto", parse_integer_random_upto)
  BY <1>1, <1>7, IntegerFunctions
     DEF InColumn, Checked, Advanced, NextArguments, ColumnNodes
<1>8. CASE InColumn("integer_random_range_min", parse_integer_random_range_min)
  BY <1>1, <1>8, IntegerFunctions
     DEF InColumn, Checked, Advanced, NextArguments, ColumnNodes
<1>9. CASE InColumn("integer_random_range_max", parse_integer_random_range)
  BY <1>1, <1>9, IntegerFunctions
     DEF InColumn, Checked, Advanced, NextArguments, ColumnNodes
<1>10. CASE InColumn("u_integer_qualifier", parse_u_integer_qualifier)
  BY <1>1, <1>10, QualifierFunctions
     DEF InColumn, Checked, Advanced, NextArguments, ColumnNodes
<1>11. CASE InColumn("u_integer_fixed", parse_u_integer_fixed)
  BY <1>1, <1>11, UIntegerFunctions
     DEF InColumn, Checked, Advanced, NextArguments, ColumnNodes
<1>12. CASE InColumn("u_integer_random", parse_u_integer_random)
  BY <1>1, <1>12, QualifierFunctions
     DEF InColumn, Checked, Advanced, NextArguments, ColumnNodes
<1>13. CASE InColumn("u_integer_random_from", parse_u_integer_random_from)
  BY <1>1, <1>13, UIntegerFunctions
     DEF InColumn, Checked, Advanced, NextArguments, ColumnNodes
<1>14. CASE InColumn("u_integer_random_upto", parse_u_integer_random_upto)
  BY <1>1, <1>14, UIntegerFunctions
     DEF InColumn, Checked, Advanced, NextArguments, ColumnNodes
<1>15. CASE InColumn("u_integer_random_range_min", parse_u_integer_random_range_min)
  BY <1>1, <1>15, UIntegerFunctions
     DEF InColumn, Checked, Advanced, NextArguments, ColumnNodes
<1>16. CASE InColumn("u_integer_random_range_max", parse_u_integer_random_range)
  BY <1>1, <1>16, UIntegerFunctions
     DEF InColumn, Checked, Advanced, NextArguments, ColumnNodes
<1>17. CASE InColumn("string_qualifier", parse_string_qualifier)
  BY <1>1, <1>17, QualifierFunctions
     DEF InColumn, Checked, Advanced, NextArguments, ColumnNodes
<1>18. CASE InColumn("string_unique", parse_string_unique)
  BY <1>1, <1>18, StringFunctions
     DEF InColumn, Checked, Advanced, NextArguments, ColumnNodes
<1>19. CASE InColumn("string_fixed", parse_string_fixed)
  BY <1>1, <1>19, StringFunctions
     DEF InColumn, Checked, Advanced, NextArguments, ColumnNodes
<1>20. CASE InColumn("string_hash", parse_string_hash)
  BY <1>1, <1>20, StringFunctions
     DEF InColumn, Checked, Advanced, NextArguments, ColumnNodes
<1>21. CASE InColumn("timestamp_qualifier", parse_timestamp_qualifier)
  BY <1>1, <1>21, QualifierFunctions
     DEF InColumn, Checked, Advanced, NextArguments, ColumnNodes
<1>22. CASE InColumn("datetime_qualifier", parse_datetime_qualifier)
  BY <1>1, <1>22, QualifierFunctions
     DEF InColumn, Checked, Advanced, NextArguments, ColumnNodes
<1>23. CASE InColumn("complete", parse_column_complete)
  BY <1>1, <1>2, <1>23, CompleteOutcome
     DEF InColumn, Checked, Advanced, NextArguments, ColumnNodes, SetNodes
<1>24. CASE InColumn("grp_count", parse_grp_spec_count)
  BY <1>1, <1>2, <1>24, GrpCountOutcome
     DEF InColumn, Checked, Advanced, NextArguments, ColumnNodes, parse_grp_spec_count, SetNodes
<1>25. CASE InColumn("grp_part", parse_grp_spec)
  BY <1>1, <1>2, <1>25, GrpSpecOutcome
     DEF InColumn, Checked, Advanced, NextArguments, ColumnNodes, SetNodes
<1> QED
  BY <1>3, <1>4, <1>5, <1>6, <1>7, <1>8, <1>9, <1>10, <1>11, <1>12, <1>13, <1>14, <1>15, <1>16,
     <1>17, <1>18, <1>19, <1>20, <1>21, <1>22, <1>23, <1>24, <1>25 DEF ParseColumn

(* Those of a JOIN. *)
LEMMA JoinCases ==
    ASSUME Shape, NEW r, r = Advanced, ParseJoin
    PROVE  \/ UNCHANGED input /\ \E a \in NextArguments :
                 state.node \in ColumnNodes /\ Outcome(state', r, a)
           \/ InColumn("join_spec", parse_join_spec)
           \/ InJoin("next_join", parse_next_join)
<1>1. Entered(r) /\ r.node = state.node
  BY AdvancedKeeps
<1>2. r.node \in SetNodes => (r.set \in NumberSets => Len(r.values) >= 1)
  BY <1>1 DEF Entered, Qualified
<1>3. CASE InJoin("integer_qualifier", parse_join_integer_qualifier)
  BY <1>1, <1>3, JoinQualifierFunctions
     DEF InJoin, Checked, Advanced, NextArguments, ColumnNodes
<1>4. CASE InJoin("integer_fixed", parse_join_integer_fixed)
  BY <1>1, <1>4, IntegerFunctions
     DEF InJoin, Checked, Advanced, NextArguments, ColumnNodes, parse_join_integer_fixed
<1>5. CASE InJoin("integer_random", parse_join_integer_random)
  BY <1>1, <1>5, JoinQualifierFunctions
     DEF InJoin, Checked, Advanced, NextArguments, ColumnNodes
<1>6. CASE InJoin("integer_random_from", parse_join_integer_random_from)
  BY <1>1, <1>6, IntegerFunctions
     DEF InJoin, Checked, Advanced, NextArguments, ColumnNodes, parse_join_integer_random_from
<1>7. CASE InJoin("integer_random_upto", parse_join_integer_random_upto)
  BY <1>1, <1>7, IntegerFunctions
     DEF InJoin, Checked, Advanced, NextArguments, ColumnNodes, parse_join_integer_random_upto
<1>8. CASE InJoin("integer_random_range_min", parse_join_integer_random_range_min)
  BY <1>1, <1>8, IntegerFunctions
     DEF InJoin, Checked, Advanced, NextArguments, ColumnNodes, parse_join_integer_random_range_min
<1>9. CASE InJoin("integer_random_range_max", parse_join_integer_random_range)
  BY <1>1, <1>9, IntegerFunctions
     DEF InJoin, Checked, Advanced, NextArguments, ColumnNodes, parse_join_integer_random_range
<1>10. CASE InJoin("u_integer_qualifier", parse_join_u_integer_qualifier)
  BY <1>1, <1>10, JoinQualifierFunctions
     DEF InJoin, Checked, Advanced, NextArguments, ColumnNodes
<1>11. CASE InJoin("u_integer_fixed", parse_join_u_integer_fixed)
  BY <1>1, <1>11, UIntegerFunctions
     DEF InJoin, Checked, Advanced, NextArguments, ColumnNodes, parse_join_u_integer_fixed
<1>12. CASE InJoin("u_integer_random", parse_join_u_integer_random)
  BY <1>1, <1>12, JoinQualifierFunctions
     DEF InJoin, Checked, Advanced, NextArguments, ColumnNodes
<1>13. CASE InJoin("u_integer_random_from", parse_join_u_integer_random_from)
  BY <1>1, <1>13, UIntegerFunctions
     DEF InJoin, Checked, Advanced, NextArguments, ColumnNodes, parse_join_u_integer_random_from
<1>14. CASE InJoin("u_integer_random_upto", parse_join_u_integer_random_upto)
  BY <1>1, <1>14, UIntegerFunctions
     DEF InJoin, Checked, Advanced, NextArguments, ColumnNodes, parse_join_u_integer_random_upto
<1>15. CASE InJoin("u_integer_random_range_min", parse_join_u_integer_random_range_min)
  BY <1>1, <1>15, UIntegerFunctions
     DEF InJoin, Checked, Advanced, NextArguments, ColumnNodes, parse_join_u_integer_random_range_min
<1>16. CASE InJoin("u_integer_random_range_max", parse_join_u_integer_random_range)
  BY <1>1, <1>16, UIntegerFunctions
     DEF InJoin, Checked, Advanced, NextArguments, ColumnNodes, parse_join_u_integer_random_range
<1>17. CASE InJoin("string_qualifier", parse_join_string_qualifier)
  BY <1>1, <1>17, JoinQualifierFunctions
     DEF InJoin, Checked, Advanced, NextArguments, ColumnNodes
<1>18. CASE InJoin("string_unique", parse_join_string_unique)
  BY <1>1, <1>18, StringFunctions
     DEF InJoin, Checked, Advanced, NextArguments, ColumnNodes, parse_join_string_unique
<1>19. CASE InJoin("string_fixed", parse_join_string_fixed)
  BY <1>1, <1>19, StringFunctions
     DEF InJoin, Checked, Advanced, NextArguments, ColumnNodes, parse_join_string_fixed
<1>20. CASE InJoin("string_hash", parse_join_string_hash)
  BY <1>1, <1>20, StringFunctions
     DEF InJoin, Checked, Advanced, NextArguments, ColumnNodes, parse_join_string_hash
<1>21. CASE InJoin("timestamp_qualifier", parse_join_timestamp_qualifier)
  BY <1>1, <1>21, JoinQualifierFunctions
     DEF InJoin, Checked, Advanced, NextArguments, ColumnNodes
<1>22. CASE InJoin("datetime_qualifier", parse_join_datetime_qualifier)
  BY <1>1, <1>22, JoinQualifierFunctions
     DEF InJoin, Checked, Advanced, NextArguments, ColumnNodes
<1>23. CASE InJoin("complete", parse_join_complete)
  BY <1>1, <1>2, <1>23, CompleteOutcome
     DEF InJoin, Checked, Advanced, NextArguments, ColumnNodes, SetNodes
<1>24. CASE InJoin("grp_count", parse_join_grp_spec_count)
  BY <1>1, <1>2, <1>24, GrpCountOutcome
     DEF InJoin, Checked, Advanced, NextArguments, ColumnNodes, parse_join_grp_spec_count, SetNodes
<1>25. CASE InJoin("grp_part", parse_join_grp_spec)
  BY <1>1, <1>2, <1>25, GrpSpecOutcome
     DEF InJoin, Checked, Advanced, NextArguments, ColumnNodes, SetNodes
<1> QED
  BY <1>3, <1>4, <1>5, <1>6, <1>7, <1>8, <1>9, <1>10, <1>11, <1>12, <1>13, <1>14, <1>15, <1>16,
     <1>17, <1>18, <1>19, <1>20, <1>21, <1>22, <1>23, <1>24, <1>25 DEF ParseJoin

-----------------------------------------------------------------------------
(* The functions that do not ask whether there is an argument.             *)
FirstNodes == {"db_specs", "db_name", "tbl_flag", "tbl_name", "row_count", "col_flag",
               "col_name", "col_type"}

(* Those that do. *)
LaterNodes == ColumnNodes \union
    {"next_tbl_name", "next_row_count", "tbl_col_flag", "tbl_col_name", "next_col_name",
     "next_col_type", "next_join"}

(* r is the record when argument a has been read. *)
Entering(r, a) ==
    /\ Entered(r) /\ Keeps(r, state, {"from", "overrun"}) /\ r.from = state.from + 1
    /\ \/ /\ state.node \in FirstNodes /\ a \in Arguments
          /\ r.overrun = (state.overrun \/ state.from + 1 >= argc)
       \/ /\ state.node \in LaterNodes /\ r.overrun = state.overrun
          /\ Argument(a) /\ (a = END) = (r.from = argc)

FirstReads(t, r, a) ==
    \/ /\ state.node = "db_specs" /\ Goes(t, r, {"spec"}, a, "db_name") /\ t.spec = r.from
       /\ t.node = "fail" => t.due.quote = 0
    \/ /\ state.node = "db_name" /\ Goes(t, r, {"top", "clobbered"}, a, "tbl_flag")
       /\ Wrote(t, r, r.db, DbSize)
    \/ state.node = "tbl_flag" /\ Goes(t, r, {}, a, "tbl_name")
    \/ /\ state.node = "tbl_name" /\ Goes(t, r, {"top", "clobbered"}, a, "row_count")
       /\ Wrote(t, r, r.db + DbSize, TblSize)
    \/ /\ state.node = "row_count" /\ Goes(t, r, {"tbl", "tables", "database"}, a, "col_flag")
       /\ t.tbl = r.db + DbSize
       /\ \E n \in Nat : t.tables = <<NewTable(n)>> /\ t.database = database_counter_init(n)
    \/ state.node = "col_flag" /\ Goes(t, r, {}, a, "col_name")
    \/ state.node = "col_name" /\ NewColumn(t, r, r.tbl + TblSize, a, "col_type")
    \/ state.node = "col_type" /\ Starts(t, r, {}, a)

LaterReads(t, r, a) ==
    \/ /\ state.node = "next_tbl_name"
       /\ Goes(t, r, {"top", "clobbered", "tbl"}, a, "next_row_count") /\ a # END
       /\ Wrote(t, r, r.col + ColSize, TblSize) /\ t.tbl = r.col + ColSize
    \/ /\ state.node = "next_row_count" /\ Goes(t, r, {"tables"}, a, "tbl_col_flag")
       /\ \E n \in Nat : t.tables = Append(r.tables, NewTable(n))
    \/ /\ state.node = "tbl_col_flag" /\ Goes(t, r, {"database"}, a, "tbl_col_name")
       /\ t.database = Counted(r.database, r.tables[Len(r.tables)].rows)
    \/ /\ state.node = "tbl_col_name" /\ NewColumn(t, r, r.tbl + TblSize, a, "next_col_type")
       /\ a # END
    \/ /\ state.node = "next_col_name" /\ NewColumn(t, r, r.col + ColSize, a, "next_col_type")
       /\ a # END
    \/ /\ state.node = "next_col_type" /\ Starts(t, r, {"database"}, a)
       /\ t.database = OneMore(r.database)
    \/ /\ state.node = "next_join" /\ Starts(t, r, {"top", "clobbered", "col", "database"}, a)
       /\ Wrote(t, r, r.col + ColSize, ColSize) /\ a # END
       /\ t.col = r.col + ColSize /\ t.database = OneMore(r.database)
    \/ /\ state.node = "join_spec" /\ Starts(t, r, {"join"}, a)
       /\ t.join = join_spec_state_init(r).join
    \/ state.node \in ColumnNodes /\ Outcome(t, r, a)

(* A function enters with argument a and state becomes t. *)
Reads(t, r, a) ==
    \/ state.node # "db_specs" /\ Stops(t, r, a)
    \/ FirstReads(t, r, a) \/ LaterReads(t, r, a)

(* The functions that ask whether there is an argument. *)
LEMMA ArgumentsRead ==
    ASSUME Shape, NEW a \in NextArguments, state.node \in LaterNodes
    PROVE  Entering(Advanced, a)
<1>1. input.args \subseteq Arguments /\ END \notin Arguments
  BY InputsAssumption, EndIsNone DEF Shape
<1>2. (a = END) = (state.from + 1 = argc) /\ Argument(a)
  BY <1>1 DEF NextArguments, Argument
<1>3. /\ Keeps(Advanced, state, {"from"}) /\ Advanced.from = state.from + 1
      /\ Entered(Advanced)
  BY AdvancedKeeps
<1>4. Keeps(Advanced, state, {"from", "overrun"}) /\ Advanced.overrun = state.overrun
  BY <1>3 DEF Keeps, Fields
<1> QED
  BY <1>2, <1>3, <1>4 DEF Entering

(* And those that do not. *)
LEMMA FirstRead ==
    ASSUME Shape, state.node \in FirstNodes, NEW a \in input.args, NEW r,
           r = [state EXCEPT !.from = @ + 1, !.overrun = @ \/ state.from + 1 >= argc]
    PROVE  Entering(r, a) /\ Entered(r) /\ a # END /\ r.node \notin SetNodes
<1>1. a \in Arguments /\ a # END
  BY InputsAssumption, EndIsNone DEF Shape
<1>2. /\ Keeps(r, state, {"from", "overrun"}) /\ r.from = state.from + 1
      /\ r.overrun = (state.overrun \/ state.from + 1 >= argc)
  BY DEF Shape, Entered, Keeps, Fields, Own
<1>3. Entered(r)
  BY <1>2, KeepsEntered DEF Shape, Own
<1>4. r.node = state.node
  BY <1>2 DEF Keeps, Fields, Own
<1>5. r.node \notin SetNodes
  BY <1>4 DEF FirstNodes, SetNodes
<1> QED
  BY <1>1, <1>2, <1>3, <1>5 DEF Entering

(* The functions of a DB_SPEC, a TBL_SPEC and a COL_SPEC. *)
LEMMA SpecsCases ==
    ASSUME Shape, ParseSpecs
    PROVE  UNCHANGED input /\ \E r, a : Entering(r, a) /\ Reads(state', r, a)
<1>1. PICK first : first = [state EXCEPT !.from = @ + 1, !.overrun = @ \/ state.from + 1 >= argc]
  OBVIOUS
<1>2. PICK r : r = Advanced
  OBVIOUS
<1>3. Entered(r) /\ r.node = state.node
  BY <1>2, AdvancedKeeps
<1>4. ASSUME state.node \in LaterNodes, NEW a \in NextArguments PROVE Entering(r, a)
  BY <1>2, <1>4, ArgumentsRead
<1>5. CASE Unchecked("db_specs", parse_db_specs)
  <2>1. PICK a \in input.args : state' = parse_db_specs(first, a)
    BY <1>1, <1>5 DEF Unchecked
  <2>2. state.node = "db_specs" /\ state.node \in FirstNodes /\ UNCHANGED input
    BY <1>5 DEF Unchecked, FirstNodes
  <2>3. Entering(first, a) /\ Entered(first) /\ a # END /\ first.node \notin SetNodes
    BY <1>1, <2>2, FirstRead
  <2>4. FirstReads(state', first, a)
    BY <2>1, <2>2, <2>3, DbSpecsReads DEF FirstReads
  <2> QED
    BY <2>2, <2>3, <2>4 DEF Reads, FirstReads
<1>6. CASE Unchecked("db_name", parse_first_db_spec)
  <2>1. PICK a \in input.args : state' = parse_first_db_spec(first, a)
    BY <1>1, <1>6 DEF Unchecked
  <2>2. state.node = "db_name" /\ state.node \in FirstNodes /\ UNCHANGED input
    BY <1>6 DEF Unchecked, FirstNodes
  <2>3. Entering(first, a) /\ Entered(first) /\ a # END /\ first.node \notin SetNodes
    BY <1>1, <2>2, FirstRead
  <2>4. Stops(state', first, a) \/ FirstReads(state', first, a)
    BY <2>1, <2>2, <2>3, DbNameReads DEF FirstReads
  <2> QED
    BY <2>2, <2>3, <2>4 DEF Reads, FirstReads
<1>7. CASE Unchecked("tbl_flag", first_tbl_flag)
  <2>1. PICK a \in input.args : state' = first_tbl_flag(first, a)
    BY <1>1, <1>7 DEF Unchecked
  <2>2. state.node = "tbl_flag" /\ state.node \in FirstNodes /\ UNCHANGED input
    BY <1>7 DEF Unchecked, FirstNodes
  <2>3. Entering(first, a) /\ Entered(first) /\ a # END /\ first.node \notin SetNodes
    BY <1>1, <2>2, FirstRead
  <2>4. Stops(state', first, a) \/ FirstReads(state', first, a)
    BY <2>1, <2>2, <2>3, FlagReads DEF FirstReads
  <2> QED
    BY <2>2, <2>3, <2>4 DEF Reads, FirstReads
<1>8. CASE Unchecked("tbl_name", first_tbl_name)
  <2>1. PICK a \in input.args : state' = first_tbl_name(first, a)
    BY <1>1, <1>8 DEF Unchecked
  <2>2. state.node = "tbl_name" /\ state.node \in FirstNodes /\ UNCHANGED input
    BY <1>8 DEF Unchecked, FirstNodes
  <2>3. Entering(first, a) /\ Entered(first) /\ a # END /\ first.node \notin SetNodes
    BY <1>1, <2>2, FirstRead
  <2>4. Stops(state', first, a) \/ FirstReads(state', first, a)
    BY <2>1, <2>2, <2>3, TblNameReads DEF FirstReads
  <2> QED
    BY <2>2, <2>3, <2>4 DEF Reads, FirstReads
<1>9. CASE Unchecked("row_count", parse_first_tbl_spec)
  <2>1. PICK a \in input.args : state' = parse_first_tbl_spec(first, a)
    BY <1>1, <1>9 DEF Unchecked
  <2>2. state.node = "row_count" /\ state.node \in FirstNodes /\ UNCHANGED input
    BY <1>9 DEF Unchecked, FirstNodes
  <2>3. Entering(first, a) /\ Entered(first) /\ a # END /\ first.node \notin SetNodes
    BY <1>1, <2>2, FirstRead
  <2>4. Stops(state', first, a) \/ FirstReads(state', first, a)
    BY <2>1, <2>2, <2>3, FirstTblReads DEF FirstReads
  <2> QED
    BY <2>2, <2>3, <2>4 DEF Reads, FirstReads
<1>10. CASE Unchecked("col_flag", first_col_flag)
  <2>1. PICK a \in input.args : state' = first_col_flag(first, a)
    BY <1>1, <1>10 DEF Unchecked
  <2>2. state.node = "col_flag" /\ state.node \in FirstNodes /\ UNCHANGED input
    BY <1>10 DEF Unchecked, FirstNodes
  <2>3. Entering(first, a) /\ Entered(first) /\ a # END /\ first.node \notin SetNodes
    BY <1>1, <2>2, FirstRead
  <2>4. Stops(state', first, a) \/ FirstReads(state', first, a)
    BY <2>1, <2>2, <2>3, FlagReads DEF FirstReads
  <2> QED
    BY <2>2, <2>3, <2>4 DEF Reads, FirstReads
<1>11. CASE Unchecked("col_name", parse_first_col_spec_safe)
  <2>1. PICK a \in input.args : state' = parse_first_col_spec_safe(first, a)
    BY <1>1, <1>11 DEF Unchecked
  <2>2. state.node = "col_name" /\ state.node \in FirstNodes /\ UNCHANGED input
    BY <1>11 DEF Unchecked, FirstNodes
  <2>3. Entering(first, a) /\ Entered(first) /\ a # END /\ first.node \notin SetNodes
    BY <1>1, <2>2, FirstRead
  <2>4. NewColumn(state', first, first.tbl + TblSize, a, "col_type")
    BY <2>1, <2>3, ColumnReads DEF parse_first_col_spec_safe, SetNodes
  <2> QED
    BY <2>2, <2>3, <2>4 DEF Reads, FirstReads
<1>12. CASE Unchecked("col_type", parse_col_type)
  <2>1. PICK a \in input.args : state' = parse_col_type(first, a)
    BY <1>1, <1>12 DEF Unchecked
  <2>2. state.node = "col_type" /\ state.node \in FirstNodes /\ UNCHANGED input
    BY <1>12 DEF Unchecked, FirstNodes
  <2>3. Entering(first, a) /\ Entered(first) /\ a # END /\ first.node \notin SetNodes
    BY <1>1, <2>2, FirstRead
  <2>4. Starts(state', first, {}, a)
    <3>1. Begins(state', first, a) /\ Keeps(first, first, {})
      BY <2>1, <2>3, TypeBegins DEF Keeps, Entered
    <3> QED
      BY <2>3, <3>1, BeginsStarts
  <2> QED
    BY <2>2, <2>3, <2>4 DEF Reads, FirstReads
<1>13. CASE Checked("next_tbl_name", next_tbl_name)
  <2>1. PICK a \in NextArguments : state' = next_tbl_name(r, a)
    BY <1>2, <1>13 DEF Checked, Advanced, NextArguments
  <2>2. state.node = "next_tbl_name" /\ state.node \in LaterNodes /\ UNCHANGED input
    BY <1>13 DEF Checked, LaterNodes
  <2>3. Stops(state', r, a) \/ LaterReads(state', r, a)
    BY <1>3, <2>1, <2>2, NextTblReads DEF LaterReads
  <2> QED
    BY <1>4, <2>2, <2>3 DEF Reads
<1>14. CASE Checked("next_row_count", next_row_count)
  <2>1. PICK a \in NextArguments : state' = next_row_count(r, a)
    BY <1>2, <1>14 DEF Checked, Advanced, NextArguments
  <2>2. state.node = "next_row_count" /\ state.node \in LaterNodes /\ UNCHANGED input
    BY <1>14 DEF Checked, LaterNodes
  <2>3. Stops(state', r, a) \/ LaterReads(state', r, a)
    BY <1>3, <2>1, <2>2, NextRowCountReads DEF LaterReads
  <2> QED
    BY <1>4, <2>2, <2>3 DEF Reads
<1>15. CASE Checked("tbl_col_flag", parse_next_tbl_spec)
  <2>1. PICK a \in NextArguments : state' = parse_next_tbl_spec(r, a)
    BY <1>2, <1>15 DEF Checked, Advanced, NextArguments
  <2>2. state.node = "tbl_col_flag" /\ state.node \in LaterNodes /\ UNCHANGED input
    BY <1>15 DEF Checked, LaterNodes
  <2>3. Stops(state', r, a) \/ LaterReads(state', r, a)
    BY <1>3, <2>1, <2>2, TblColFlagReads DEF LaterReads
  <2> QED
    BY <1>4, <2>2, <2>3 DEF Reads
<1>16. CASE Checked("tbl_col_name", parse_first_col_spec)
  <2>1. PICK a \in NextArguments : state' = parse_first_col_spec(r, a)
    BY <1>2, <1>16 DEF Checked, Advanced, NextArguments
  <2>2. state.node = "tbl_col_name" /\ state.node \in LaterNodes /\ UNCHANGED input
    BY <1>16 DEF Checked, LaterNodes
  <2>3. Stops(state', r, a) \/ LaterReads(state', r, a)
    BY <1>3, <2>1, <2>2, NextColReads DEF LaterReads, SetNodes
  <2> QED
    BY <1>4, <2>2, <2>3 DEF Reads
<1>17. CASE Checked("next_col_name", parse_next_col_spec)
  <2>1. PICK a \in NextArguments : state' = parse_next_col_spec(r, a)
    BY <1>2, <1>17 DEF Checked, Advanced, NextArguments
  <2>2. state.node = "next_col_name" /\ state.node \in LaterNodes /\ UNCHANGED input
    BY <1>17 DEF Checked, LaterNodes
  <2>3. Stops(state', r, a) \/ LaterReads(state', r, a)
    BY <1>3, <2>1, <2>2, NextColReads DEF LaterReads, SetNodes
  <2> QED
    BY <1>4, <2>2, <2>3 DEF Reads
<1>18. CASE Checked("next_col_type", next_col_type)
  <2>1. PICK a \in NextArguments : state' = next_col_type(r, a)
    BY <1>2, <1>18 DEF Checked, Advanced, NextArguments
  <2>2. state.node = "next_col_type" /\ state.node \in LaterNodes /\ UNCHANGED input
    BY <1>18 DEF Checked, LaterNodes
  <2>3. Stops(state', r, a) \/ LaterReads(state', r, a)
    BY <1>3, <2>1, <2>2, NextColTypeReads DEF LaterReads
  <2> QED
    BY <1>4, <2>2, <2>3 DEF Reads
<1> QED
  BY <1>5, <1>6, <1>7, <1>8, <1>9, <1>10, <1>11, <1>12, <1>13, <1>14, <1>15, <1>16, <1>17,
     <1>18 DEF ParseSpecs

(* Every function that reads an argument. *)
LEMMA ReadCases ==
    ASSUME Shape, ParseSpecs \/ ParseColumn \/ ParseJoin
    PROVE  UNCHANGED input /\ \E r, a : Entering(r, a) /\ Reads(state', r, a)
<1>1. PICK r : r = Advanced
  OBVIOUS
<1>2. Entered(r)
  BY <1>1, AdvancedKeeps
<1>3. CASE ParseSpecs
  BY <1>3, SpecsCases
<1>4. ASSUME UNCHANGED input, NEW a \in NextArguments, state.node \in ColumnNodes,
             Outcome(state', r, a)
      PROVE  UNCHANGED input /\ \E u, b : Entering(u, b) /\ Reads(state', u, b)
  <2>1. Entering(r, a)
    BY <1>1, <1>4, ArgumentsRead DEF LaterNodes
  <2> QED
    BY <1>4, <2>1 DEF Reads, LaterReads
<1>5. CASE ParseColumn
  BY <1>1, <1>4, <1>5, ColumnCases
<1>6. CASE InJoin("next_join", parse_next_join)
  <2>1. PICK a \in NextArguments : state' = parse_next_join(r, a)
    BY <1>1, <1>6 DEF InJoin, Checked, Advanced, NextArguments
  <2>2. state.node = "next_join" /\ state.node \in LaterNodes /\ UNCHANGED input
    BY <1>6 DEF InJoin, Checked, LaterNodes
  <2>3. Stops(state', r, a) \/ LaterReads(state', r, a)
    BY <1>2, <2>1, <2>2, NextJoinReads DEF LaterReads
  <2> QED
    BY <1>1, <2>2, <2>3, ArgumentsRead DEF Reads
<1>7. CASE InColumn("join_spec", parse_join_spec)
  <2>1. PICK a \in NextArguments : state' = parse_join_spec(r, a)
    BY <1>1, <1>7 DEF InColumn, Checked, Advanced, NextArguments
  <2>2. state.node = "join_spec" /\ state.node \in LaterNodes /\ UNCHANGED input
    BY <1>7 DEF InColumn, Checked, LaterNodes, ColumnNodes
  <2>3. Stops(state', r, a) \/ LaterReads(state', r, a)
    BY <1>2, <2>1, <2>2, JoinSpecReads DEF LaterReads
  <2> QED
    BY <1>1, <2>2, <2>3, ArgumentsRead DEF Reads
<1>8. CASE ParseJoin
  BY <1>1, <1>4, <1>6, <1>7, <1>8, JoinCases
<1> QED
  BY <1>3, <1>5, <1>8

-----------------------------------------------------------------------------
(* What a function that reads an argument leaves alone, and which comes    *)
(* next.                                                                   *)
Moving == Own \union {"from", "overrun", "spec", "top", "clobbered", "tbl", "col", "join",
                      "tables", "database"}

(* What leaves a field alone may be said to change it. *)
LEMMA KeepsMore ==
    ASSUME NEW t, NEW s, NEW few, Keeps(t, s, few), NEW more, few \subseteq more
    PROVE  Keeps(t, s, more)
BY DEF Keeps

PlaceFields == {"top", "clobbered", "tbl", "col", "join", "tables", "database"}

(* A function that reads an argument changes these fields only. *)
LEMMA ReadKept ==
    ASSUME NEW t, NEW r, NEW a, Reads(t, r, a)
    PROVE  /\ Qualified(t)
           /\ \/ state.node # "db_specs" /\ Keeps(t, r, Own \union PlaceFields)
              \/ state.node = "db_specs" /\ Keeps(t, r, Own \union {"spec"}) /\ t.spec = r.from
<1>1. CASE state.node # "db_specs" /\ Stops(t, r, a)
  BY <1>1, KeepsMore DEF Stops
<1>2. CASE FirstReads(t, r, a)
  <2>1. CASE state.node = "db_specs"
    BY <1>2, <2>1 DEF FirstReads, Goes
  <2>2. CASE state.node # "db_specs"
    <3>1. \/ Keeps(t, r, Own \union {}) \/ Keeps(t, r, Own \union {"top", "clobbered"})
          \/ Keeps(t, r, Own \union {"tbl", "tables", "database"})
          \/ Keeps(t, r, Own \union {"top", "clobbered", "col", "join"})
      BY <1>2, <2>2 DEF FirstReads, Goes, Starts, NewColumn
    <3>2. Keeps(t, r, Own \union PlaceFields)
      BY <3>1, KeepsMore DEF PlaceFields
    <3>3. Qualified(t)
      BY <1>2 DEF FirstReads, Goes, Starts, NewColumn
    <3> QED
      BY <2>2, <3>2, <3>3
  <2> QED
    BY <2>1, <2>2
<1>3. CASE LaterReads(t, r, a)
  <2>1. state.node # "db_specs"
    BY <1>3 DEF LaterReads, ColumnNodes
  <2>2. \/ Keeps(t, r, Own) \/ Keeps(t, r, Own \union {"top", "clobbered", "tbl"})
        \/ Keeps(t, r, Own \union {"tables"}) \/ Keeps(t, r, Own \union {"database"})
        \/ Keeps(t, r, Own \union {"top", "clobbered", "col", "join"})
        \/ Keeps(t, r, Own \union {"top", "clobbered", "col", "database"})
        \/ Keeps(t, r, Own \union {"join"})
    BY <1>3 DEF LaterReads, Goes, Starts, NewColumn, Outcome
  <2>3. Keeps(t, r, Own \union PlaceFields)
    BY <2>2, KeepsMore DEF PlaceFields
  <2>4. Qualified(t)
    BY <1>3 DEF LaterReads, Goes, Starts, NewColumn, Outcome
  <2> QED
    BY <2>1, <2>3, <2>4
<1> QED
  BY <1>1, <1>2, <1>3 DEF Reads

(* The same from the state before the argument was read. *)
LEMMA ReadKeeps ==
    ASSUME NEW t, NEW r, NEW a, Entering(r, a), Reads(t, r, a)
    PROVE  /\ Keeps(t, state, Moving) /\ Qualified(t)
           /\ t.from = state.from + 1 /\ t.overrun = r.overrun
           /\ t.spec = IF state.node = "db_specs" THEN t.from ELSE state.spec
<1>1. Keeps(r, state, {"from", "overrun"}) /\ r.from = state.from + 1
  BY DEF Entering
<1>2. r.spec = state.spec
  BY <1>1 DEF Keeps, Fields
<1>3. CASE state.node # "db_specs" /\ Keeps(t, r, Own \union PlaceFields)
  <2>1. {"from", "overrun", "spec"} \subseteq Fields \ (Own \union PlaceFields)
    BY DEF Fields, Own, PlaceFields
  <2>2. t.from = r.from /\ t.overrun = r.overrun /\ t.spec = r.spec
    BY <1>3, <2>1 DEF Keeps
  <2>3. Keeps(t, state, Moving)
    BY <1>1, <1>3 DEF Keeps, Moving, PlaceFields
  <2> QED
    BY <1>1, <1>2, <1>3, <2>2, <2>3, ReadKept
<1>4. CASE state.node = "db_specs" /\ Keeps(t, r, Own \union {"spec"}) /\ t.spec = r.from
  <2>1. {"from", "overrun"} \subseteq Fields \ (Own \union {"spec"})
    BY DEF Fields, Own
  <2>2. t.from = r.from /\ t.overrun = r.overrun
    BY <1>4, <2>1 DEF Keeps
  <2>3. Keeps(t, state, Moving)
    BY <1>1, <1>4 DEF Keeps, Moving
  <2> QED
    BY <1>1, <1>4, <2>2, <2>3, ReadKept
<1> QED
  BY <1>3, <1>4, ReadKept

(* The function after each that starts no column. *)
Successor ==
    [db_specs |-> "db_name", db_name |-> "tbl_flag", tbl_flag |-> "tbl_name",
     tbl_name |-> "row_count", row_count |-> "col_flag", col_flag |-> "col_name",
     col_name |-> "col_type",
     next_tbl_name |-> "next_row_count", next_row_count |-> "tbl_col_flag",
     tbl_col_flag |-> "tbl_col_name", tbl_col_name |-> "next_col_type",
     next_col_name |-> "next_col_type"]

(* The function it enters next. *)
LEMMA ReadNode ==
    ASSUME NEW t, NEW r, NEW a, Reads(t, r, a)
    PROVE  \/ Failed(t, a)
           \/ a # END /\ state.node \in DOMAIN Successor /\ t.node = Successor[state.node]
           \/ /\ a # END /\ t.node \in ColumnNodes
              /\ state.node \in ColumnNodes \union {"col_type", "next_col_type", "next_join"}
           \/ /\ state.node \in ColumnNodes /\ t.node = "close"
              /\ t.due = a /\ a \in JoinClosers
<1>1. CASE Stops(t, r, a)
  BY <1>1 DEF Stops
<1>2. CASE FirstReads(t, r, a)
  BY <1>2 DEF FirstReads, Goes, Starts, NewColumn, Successor
<1>3. CASE LaterReads(t, r, a)
  <2>1. "join_spec" \in ColumnNodes
    BY DEF ColumnNodes
  <2> QED
    BY <1>3, <2>1 DEF LaterReads, Goes, Starts, NewColumn, Successor, Outcome
<1> QED
  BY <1>1, <1>2, <1>3 DEF Reads

-----------------------------------------------------------------------------
(* The end of a column, and of its database. *)
JoinFields == {"on", "length", "type", "text", "odd", "name"}

(* What the column's function sets, and the column that is built so.       *)
Setting(s) ==
    IF s.join.on THEN set_join(Context(s), s.set) ELSE set_col_spec(Context(s), s.set)

Odd(s) == s.join.on /\ s.set = "string_default" /\ s.grouped

Column(s) ==
    [count |-> CountOf(Setting(s), Context(s)), draws |-> Drawn(Setting(s)), odd |-> Odd(s)]

(* The current column, its database and its JOIN after set_col_spec. *)
LEMMA SetSpecIs ==
    ASSUME NEW s, DOMAIN s = Fields, DOMAIN s.join = JoinFields
    PROVE  LET u == SetSpec(s)
           IN  /\ u.tables = [s.tables EXCEPT ![Len(s.tables)].cols = Append(@, Column(s))]
               /\ u.database = [s.database EXCEPT !.upto = Larger(@, Setting(s).upto),
                                                  !.flags = @ \union Setting(s).flags]
               /\ u.join = [s.join EXCEPT
                     !.length = @ + Setting(s).length,
                     !.type = IF Setting(s).type = "varchar" THEN "varchar" ELSE @,
                     !.text = @ + LongestText(Setting(s), Context(s), s.set),
                     !.odd = @ \/ Odd(s)]
<1>1. {"tables", "database", "join"} \subseteq DOMAIN s
  BY DEF Fields
<1>2. SetSpec(s).tables = [s.tables EXCEPT ![Len(s.tables)].cols = Append(@, Column(s))]
  BY <1>1 DEF SetSpec, Setting, Column, Odd
<1>3. SetSpec(s).database = [s.database EXCEPT !.upto = Larger(@, Setting(s).upto),
                                               !.flags = @ \union Setting(s).flags]
  BY <1>1 DEF SetSpec, Setting
<1>4. SetSpec(s).join = [s.join EXCEPT
         !.length = @ + Setting(s).length,
         !.type = IF Setting(s).type = "varchar" THEN "varchar" ELSE @,
         !.text = @ + LongestText(Setting(s), Context(s), s.set),
         !.odd = @ \/ Odd(s)]
  BY <1>1 DEF SetSpec, Setting, Odd
<1> QED
  BY <1>2, <1>3, <1>4

(* t is s with the column's settings. *)
LEMMA SetSpecKeeps ==
    ASSUME NEW s, DOMAIN s = Fields, DOMAIN s.join = JoinFields
    PROVE  LET u == SetSpec(s)
           IN  /\ Keeps(u, s, {"tables", "database", "join", "grouped", "values", "text"})
               /\ u.grouped = FALSE /\ u.values = <<>> /\ u.text = 0
               /\ DOMAIN u.join = JoinFields
               /\ u.join.on = s.join.on /\ u.join.name = s.join.name
<1>1. PICK u : u = SetSpec(s)
  OBVIOUS
<1>2. /\ DOMAIN u = Fields /\ u.grouped = FALSE /\ u.values = <<>> /\ u.text = 0
      /\ \A f \in Fields \ {"tables", "database", "join", "grouped", "values", "text"} :
            u[f] = s[f]
  BY <1>1 DEF SetSpec, Fields, Own
<1>3. /\ DOMAIN u.join = JoinFields /\ u.join.on = s.join.on /\ u.join.name = s.join.name
  BY <1>1, SetSpecIs DEF JoinFields
<1> QED
  BY <1>1, <1>2, <1>3 DEF Keeps

(* Closing a JOIN declares it. *)
LEMMA JoinCloseKeeps ==
    ASSUME NEW s, DOMAIN s = Fields, DOMAIN s.join = JoinFields
    PROVE  LET c == join_spec_state_close(s)
           IN  /\ Keeps(c, s, {"join", "declared"})
               /\ c.join = [s.join EXCEPT !.on = FALSE]
<1>1. PICK c : c = join_spec_state_close(s)
  OBVIOUS
<1>2. /\ DOMAIN c = Fields /\ c.join = [s.join EXCEPT !.on = FALSE]
      /\ \A f \in Fields \ {"join", "declared"} : c[f] = s[f]
  BY <1>1 DEF join_spec_state_close, Fields, Own
<1> QED
  BY <1>1, <1>2 DEF Keeps

(* parse_valid_complete adds the database to the list and to the totals. *)
LEMMA ValidKeeps ==
    ASSUME NEW s, DOMAIN s = Fields
    PROVE  LET v == parse_valid_complete(s)
           IN  /\ Keeps(v, s, {"valid", "kept", "generator"})
               /\ v.valid = Append(s.valid, s.tables) /\ v.kept = s.col + ColSize
               /\ v.generator = generator_counter_update(s.generator, s.database)
<1>1. PICK v : v = parse_valid_complete(s)
  OBVIOUS
<1>2. /\ DOMAIN v = Fields /\ v.valid = Append(s.valid, s.tables) /\ v.kept = s.col + ColSize
      /\ v.generator = generator_counter_update(s.generator, s.database)
      /\ \A f \in Fields \ {"valid", "kept", "generator"} : v[f] = s[f]
  BY <1>1 DEF parse_valid_complete, Fields, Own
<1> QED
  BY <1>1, <1>2 DEF Keeps

(* The next DB_SPEC is entered, or the arguments do not suffice for one. *)
NextDb(t, s) ==
    /\ Keeps(t, s, {"node", "spec", "status", "told"})
    /\ \/ /\ s.from < argc + 1 - DB_SPEC_LENGTH_MIN /\ t.node = "db_name"
          /\ t.spec = s.from /\ t.status = s.status /\ t.told = s.told
       \/ /\ ~(s.from < argc + 1 - DB_SPEC_LENGTH_MIN) /\ t.node = "done"
          /\ t.spec = s.spec /\ t.status = "failure"
          /\ t.told = IF s.from < argc
                      THEN [error |-> "short", spec |-> s.from, upto |-> argc - 1] ELSE s.told

(* parse_next_db_spec goes on to a DB_SPEC or ends the parsing. *)
LEMMA NextDbKeeps ==
    ASSUME NEW s, DOMAIN s = Fields
    PROVE  NextDb(parse_next_db_spec(s), s)
<1>1. PICK t : t = parse_next_db_spec(s)
  OBVIOUS
<1>2. CASE s.from < argc + 1 - DB_SPEC_LENGTH_MIN
  <2>1. /\ DOMAIN t = Fields /\ t.node = "db_name" /\ t.spec = s.from
        /\ \A f \in Fields \ {"node", "spec"} : t[f] = s[f]
    BY <1>1, <1>2 DEF parse_next_db_spec, Fields, Own
  <2>2. t.status = s.status /\ t.told = s.told
    BY <2>1 DEF Fields
  <2> QED
    BY <1>1, <1>2, <2>1, <2>2 DEF NextDb, Keeps
<1>3. CASE ~(s.from < argc + 1 - DB_SPEC_LENGTH_MIN)
  <2>1. /\ DOMAIN t = Fields /\ t.node = "done" /\ t.status = "failure"
        /\ t.told = IF s.from < argc
                    THEN [error |-> "short", spec |-> s.from, upto |-> argc - 1] ELSE s.told
        /\ \A f \in Fields \ {"node", "status", "told"} : t[f] = s[f]
    BY <1>1, <1>3 DEF parse_next_db_spec, Fields, Own
  <2>2. t.spec = s.spec
    BY <2>1 DEF Fields
  <2> QED
    BY <1>1, <1>3, <2>1, <2>2 DEF NextDb, Keeps
<1> QED
  BY <1>2, <1>3

(* t is s when its column has been set and its JOIN, if due, closed. *)
Closed(t, s) ==
    LET u == SetSpec(s)
    IN  /\ t.tables = u.tables /\ t.database = u.database
        /\ \/ t.join = u.join /\ t.declared = s.declared /\ (s.due = "+" \/ ~s.join.on)
           \/ /\ s.due # "+" /\ s.join.on /\ t.join = [u.join EXCEPT !.on = FALSE]
              /\ t.declared = join_spec_state_close(u).declared

Added(t, s) ==
    /\ t.valid = Append(s.valid, t.tables) /\ t.kept = s.col + ColSize
    /\ t.generator = generator_counter_update(s.generator, t.database)

NotAdded(t, s) == t.valid = s.valid /\ t.kept = s.kept /\ t.generator = s.generator

Closings == Own \union {"tables", "database", "join", "declared", "valid", "kept", "generator",
                        "db", "spec", "status", "told"}

(* The end of a column, by what comes after it. *)
LEMMA CloseCases ==
    ASSUME NEW s, Entered(s), DOMAIN s.join = JoinFields, s.due \in JoinClosers,
           NEW t, t = CloseSpec(s)
    PROVE  /\ Keeps(t, s, Closings) /\ Closed(t, s) /\ Qualified(t)
           /\ \/ /\ s.due = END /\ t.node = "done" /\ Added(t, s)
                 /\ t.db = s.db /\ t.spec = s.spec /\ t.status = s.status /\ t.told = s.told
              \/ /\ s.due = "+" /\ t.node = "next_join" /\ NotAdded(t, s)
                 /\ t.db = s.db /\ t.spec = s.spec /\ t.status = s.status /\ t.told = s.told
              \/ /\ s.due = ColFlag /\ t.node = "next_col_name" /\ NotAdded(t, s)
                 /\ t.db = s.db /\ t.spec = s.spec /\ t.status = s.status /\ t.told = s.told
              \/ /\ s.due = TblFlag /\ t.node = "next_tbl_name" /\ NotAdded(t, s)
                 /\ t.db = s.db /\ t.spec = s.spec /\ t.status = s.status /\ t.told = s.told
              \/ /\ s.due = DbFlag /\ Added(t, s) /\ t.db = s.col + ColSize
                 /\ \E p : NextDb(t, p) /\ p.from = s.from /\ p.spec = s.spec
                           /\ p.status = s.status /\ p.told = s.told
<1>1. PICK u : u = SetSpec(s)
  OBVIOUS
<1>2. /\ Keeps(u, s, {"tables", "database", "join", "grouped", "values", "text"})
      /\ u.grouped = FALSE /\ u.values = <<>> /\ u.text = 0
      /\ DOMAIN u.join = JoinFields /\ u.join.on = s.join.on
  BY <1>1, SetSpecKeeps DEF Entered
<1>3. PICK c : c = IF s.join.on THEN join_spec_state_close(u) ELSE u
  OBVIOUS
<1>4. /\ Keeps(c, u, {"join", "declared"})
      /\ \/ c = u /\ ~s.join.on
         \/ s.join.on /\ c.join = [u.join EXCEPT !.on = FALSE]
            /\ c.declared = join_spec_state_close(u).declared
  <2>1. CASE s.join.on
    BY <1>2, <1>3, <2>1, JoinCloseKeeps DEF Keeps
  <2>2. CASE ~s.join.on
    BY <1>2, <1>3, <2>2 DEF Keeps
  <2> QED
    BY <2>1, <2>2
<1>5. Keeps(c, s, {"tables", "database", "join", "grouped", "values", "text", "declared"})
  BY <1>2, <1>4 DEF Keeps
<1>6. /\ c.values = <<>> /\ c.text = 0 /\ c.grouped = FALSE
      /\ c.tables = u.tables /\ c.database = u.database
  BY <1>2, <1>4 DEF Keeps, Fields, Own
<1>7. /\ u.declared = s.declared /\ c.col = s.col /\ c.from = s.from /\ c.spec = s.spec
      /\ c.status = s.status /\ c.told = s.told /\ c.valid = s.valid /\ c.kept = s.kept
      /\ c.generator = s.generator /\ c.db = s.db
      /\ c.grp = s.grp /\ c.name = s.name /\ c.set = s.set
  BY <1>2, <1>5 DEF Keeps, Fields, Own
<1> DEFINE QClosed(x) ==
      /\ x.values = <<>> /\ x.text = 0 /\ x.grouped = FALSE /\ x.grp = s.grp /\ x.name = s.name
      /\ x.node \notin SetNodes
<1>8. ASSUME NEW x, QClosed(x) PROVE Qualified(x)
  <2>1. s.grp \in Nat /\ s.name \in Nat
    BY DEF Entered, Qualified
  <2>2. <<>> \in Seq(Int) /\ 0 \in Nat /\ FALSE \in BOOLEAN
    OBVIOUS
  <2> QED
    BY <1>8, <2>1, <2>2 DEF Qualified
<1>9. PICK v : v = parse_valid_complete(c)
  OBVIOUS
<1>10. /\ Keeps(v, c, {"valid", "kept", "generator"})
       /\ v.valid = Append(c.valid, c.tables) /\ v.kept = c.col + ColSize
       /\ v.generator = generator_counter_update(c.generator, c.database)
  BY <1>5, <1>9, ValidKeeps DEF Keeps
<1>11. /\ v.tables = u.tables /\ v.database = u.database
       /\ v.db = s.db /\ v.spec = s.spec /\ v.from = s.from /\ v.col = s.col
       /\ v.status = s.status /\ v.told = s.told
       /\ v.join = c.join /\ v.declared = c.declared
       /\ v.values = <<>> /\ v.text = 0 /\ v.grouped = FALSE /\ v.grp = s.grp
       /\ v.name = s.name
  BY <1>5, <1>6, <1>7, <1>10 DEF Keeps, Fields, Own
<1>12. /\ v.valid = Append(s.valid, v.tables) /\ v.kept = s.col + ColSize
       /\ v.generator = generator_counter_update(s.generator, v.database)
  BY <1>6, <1>7, <1>10, <1>11
<1>13. CASE s.due = END
  <2>1. t = [v EXCEPT !.node = "done"]
    <3>1. t = generate_parse_complete(c)
      BY <1>1, <1>3, <1>13 DEF CloseSpec, END, ColFlag, TblFlag, DbFlag
    <3> QED
      BY <1>9, <3>1 DEF generate_parse_complete
  <2>2. Keeps(t, v, {"node"}) /\ t.node = "done"
    BY <1>10, <2>1 DEF Keeps, Fields, Own
  <2>3. /\ t.tables = v.tables /\ t.database = v.database /\ t.valid = v.valid
        /\ t.kept = v.kept /\ t.generator = v.generator /\ t.db = s.db /\ t.spec = s.spec
        /\ t.status = s.status /\ t.told = s.told
        /\ t.join = c.join /\ t.declared = c.declared
    BY <1>11, <2>2 DEF Keeps, Fields, Own
  <2>4. QClosed(t)
    BY <1>11, <2>2 DEF Keeps, Fields, Own, SetNodes
  <2>5. Keeps(t, s, Closings)
    BY <1>5, <1>10, <2>2 DEF Keeps, Closings, Own
  <2>6. Closed(t, s)
    BY <1>1, <1>4, <1>7, <1>11, <1>13, <2>3 DEF Closed, END
  <2>7. Added(t, s)
    BY <1>12, <2>3 DEF Added
  <2> QED
    BY <1>8, <1>13, <2>2, <2>3, <2>4, <2>5, <2>6, <2>7
<1>14. CASE s.due = "+"
  <2>1. t = [u EXCEPT !.node = "next_join"]
    BY <1>1, <1>3, <1>14 DEF CloseSpec, END, ColFlag, TblFlag, DbFlag
  <2>2. /\ Keeps(t, u, {"node"}) /\ t.node = "next_join"
    BY <1>2, <1>5, <2>1 DEF Keeps, Fields, Own
  <2>3. /\ t.tables = u.tables /\ t.database = u.database /\ t.valid = s.valid
        /\ t.kept = s.kept /\ t.generator = s.generator /\ t.db = s.db /\ t.spec = s.spec
        /\ t.status = s.status /\ t.told = s.told
        /\ t.join = u.join /\ t.declared = u.declared
    BY <1>2, <1>6, <1>7, <2>2 DEF Keeps, Fields, Own
  <2>4. /\ t.values = <<>> /\ t.text = 0 /\ t.grouped = FALSE /\ t.grp = s.grp
        /\ t.name = s.name
    BY <1>2, <1>6, <1>7, <2>2 DEF Keeps, Fields, Own
  <2>5. Qualified(t)
    BY <1>8, <2>2, <2>4 DEF SetNodes
  <2>6. Keeps(t, s, Closings)
    BY <1>2, <1>5, <2>2 DEF Keeps, Closings, Own
  <2>7. Closed(t, s)
    BY <1>1, <1>4, <1>7, <1>14, <2>3 DEF Closed, END, ColFlag, TblFlag, DbFlag
  <2> QED
    BY <1>14, <2>2, <2>3, <2>5, <2>6, <2>7 DEF NotAdded
<1>15. CASE s.due = ColFlag
  <2>1. t = [c EXCEPT !.node = "next_col_name"]
    BY <1>1, <1>3, <1>15 DEF CloseSpec, END, ColFlag, TblFlag, DbFlag
  <2>2. /\ Keeps(t, c, {"node"}) /\ t.node = "next_col_name"
    BY <1>2, <1>5, <2>1 DEF Keeps, Fields, Own
  <2>3. /\ t.tables = u.tables /\ t.database = u.database /\ t.valid = s.valid
        /\ t.kept = s.kept /\ t.generator = s.generator /\ t.db = s.db /\ t.spec = s.spec
        /\ t.status = s.status /\ t.told = s.told
        /\ t.join = c.join /\ t.declared = c.declared
    BY <1>2, <1>6, <1>7, <2>2 DEF Keeps, Fields, Own
  <2>4. /\ t.values = <<>> /\ t.text = 0 /\ t.grouped = FALSE /\ t.grp = s.grp
        /\ t.name = s.name
    BY <1>2, <1>6, <1>7, <2>2 DEF Keeps, Fields, Own
  <2>5. Qualified(t)
    BY <1>8, <2>2, <2>4 DEF SetNodes
  <2>6. Keeps(t, s, Closings)
    BY <1>2, <1>5, <2>2 DEF Keeps, Closings, Own
  <2>7. Closed(t, s)
    BY <1>1, <1>4, <1>7, <1>15, <2>3 DEF Closed, END, ColFlag, TblFlag, DbFlag
  <2> QED
    BY <1>15, <2>2, <2>3, <2>5, <2>6, <2>7 DEF NotAdded
<1>16. CASE s.due = TblFlag
  <2>1. t = [c EXCEPT !.node = "next_tbl_name"]
    BY <1>1, <1>3, <1>16 DEF CloseSpec, END, ColFlag, TblFlag, DbFlag
  <2>2. /\ Keeps(t, c, {"node"}) /\ t.node = "next_tbl_name"
    BY <1>2, <1>5, <2>1 DEF Keeps, Fields, Own
  <2>3. /\ t.tables = u.tables /\ t.database = u.database /\ t.valid = s.valid
        /\ t.kept = s.kept /\ t.generator = s.generator /\ t.db = s.db /\ t.spec = s.spec
        /\ t.status = s.status /\ t.told = s.told
        /\ t.join = c.join /\ t.declared = c.declared
    BY <1>2, <1>6, <1>7, <2>2 DEF Keeps, Fields, Own
  <2>4. /\ t.values = <<>> /\ t.text = 0 /\ t.grouped = FALSE /\ t.grp = s.grp
        /\ t.name = s.name
    BY <1>2, <1>6, <1>7, <2>2 DEF Keeps, Fields, Own
  <2>5. Qualified(t)
    BY <1>8, <2>2, <2>4 DEF SetNodes
  <2>6. Keeps(t, s, Closings)
    BY <1>2, <1>5, <2>2 DEF Keeps, Closings, Own
  <2>7. Closed(t, s)
    BY <1>1, <1>4, <1>7, <1>16, <2>3 DEF Closed, END, ColFlag, TblFlag, DbFlag
  <2> QED
    BY <1>16, <2>2, <2>3, <2>5, <2>6, <2>7 DEF NotAdded
<1>17. CASE s.due = DbFlag
  <2>1. PICK p : p = parse_database_complete(c)
    OBVIOUS
  <2>2. p = [v EXCEPT !.db = s.col + ColSize]
    BY <1>7, <1>9, <2>1 DEF parse_database_complete
  <2>3. Keeps(p, v, {"db"}) /\ p.db = s.col + ColSize
    BY <1>10, <2>2 DEF Keeps, Fields, Own
  <2>4. t = parse_next_db_spec(p)
    BY <1>1, <1>3, <1>17, <2>1 DEF CloseSpec, END, ColFlag, TblFlag, DbFlag
  <2>5. NextDb(t, p)
    BY <2>3, <2>4, NextDbKeeps DEF Keeps
  <2>6. Keeps(t, p, {"node", "spec", "status", "told"}) /\ t.node \in {"db_name", "done"}
    BY <2>5 DEF NextDb
  <2>7. p.from = s.from /\ p.spec = s.spec /\ p.status = s.status /\ p.told = s.told
    BY <1>11, <2>3 DEF Keeps, Fields
  <2>8. Keeps(t, v, {"node", "spec", "status", "told", "db"}) /\ t.db = p.db
    BY <2>3, <2>6 DEF Keeps, Fields
  <2>9. /\ t.tables = v.tables /\ t.database = v.database /\ t.valid = v.valid
        /\ t.kept = v.kept /\ t.generator = v.generator
        /\ t.join = c.join /\ t.declared = c.declared
    BY <1>11, <2>8 DEF Keeps, Fields
  <2>10. QClosed(t)
    BY <1>11, <2>6, <2>8 DEF Keeps, Fields, Own, SetNodes
  <2>11. Keeps(t, s, Closings)
    BY <1>5, <1>10, <2>8 DEF Keeps, Closings, Own
  <2>12. Closed(t, s)
    BY <1>1, <1>4, <1>7, <1>11, <1>17, <2>9 DEF Closed, DbFlag
  <2>13. Added(t, s)
    BY <1>12, <2>9 DEF Added
  <2> QED
    BY <1>8, <1>17, <2>3, <2>5, <2>7, <2>8, <2>10, <2>11, <2>12, <2>13
<1> QED
  BY <1>13, <1>14, <1>15, <1>16, <1>17 DEF JoinClosers, Closers

-----------------------------------------------------------------------------
(* Where the parser is: which arguments are known to be there, which ones  *)
(* a message quotes, and what has been told at the end.                    *)
NoOverrun(s) == s.overrun = FALSE

(* Something has been reported. *)
Message(s) == s.told.error # ""

Told(s) ==
    /\ (s.status = "failure") = (s.told.error # "")
    /\ s.told.error \notin {"", "no_db_specs"} =>
          /\ s.told.spec \in 0..(argc - 1)
          /\ s.told.upto \in s.told.spec..(argc - 1)

Stopped(s) ==
    s.from >= argc \/ s.told.error \in {"short", "no_db_specs", "random_range_max_lt_min"}

(* The k-th argument of a DB_SPEC that is long enough has been read last. *)
Within(s, k) == s.from = s.spec + k /\ s.spec + 8 <= argc

(* The message due can be given. *)
Refused(s) ==
    /\ s.due.error \notin {"", "no_db_specs"}
    /\ s.due.quote \in {-1, 0} /\ s.due.skip \in {0, 1} /\ s.due.stop \in BOOLEAN
    /\ s.spec <= s.from + s.due.quote /\ s.from + s.due.quote < argc
    /\ s.from + s.due.skip <= argc
    /\ s.due.stop => s.from = argc \/ s.due.error = "random_range_max_lt_min"

AtClose(s) ==
    /\ s.due \in JoinClosers /\ s.spec + 7 <= s.from /\ s.from <= argc
    /\ (s.due = END) = (s.from = argc)

AtFirst(s) ==
    \/ s.node = "db_specs" /\ s.from = -1 /\ s.spec = 0 /\ 8 <= argc
    \/ s.node = "db_name" /\ Within(s, 0)
    \/ s.node = "tbl_flag" /\ Within(s, 1)
    \/ s.node = "tbl_name" /\ Within(s, 2)
    \/ s.node = "row_count" /\ Within(s, 3)
    \/ s.node = "col_flag" /\ Within(s, 4)
    \/ s.node = "col_name" /\ Within(s, 5)
    \/ s.node = "col_type" /\ Within(s, 6)

AtLater(s) == s.node \in LaterNodes /\ s.spec + 7 <= s.from /\ s.from < argc

AtEnd(s) ==
    \/ s.node = "close" /\ AtClose(s)
    \/ s.node = "fail" /\ Refused(s)
    \/ s.node = "error" /\ s.told.error # "" /\ s.spec <= s.from /\ s.from <= argc
    \/ s.node = "done" /\ Stopped(s) /\ (Len(s.valid) > 0 \/ s.told.error # "")
    \/ s.node \in {"exit", "generate"} /\ Stopped(s)

Place(s) ==
    /\ s.from \in Int /\ s.spec \in Nat /\ NoOverrun(s) /\ Told(s)
    /\ \/ s.node = "dispatch" /\ s.from = -1 /\ s.spec = 0
       \/ AtFirst(s) \/ AtLater(s) \/ AtEnd(s)

NodeKinds == /\ FirstNodes \intersect LaterNodes = {}
             /\ {"dispatch", "close", "fail", "error", "done", "exit", "generate"}
                   \intersect (FirstNodes \union LaterNodes) = {}

(* The kinds of functions have none in common. *)
LEMMA NodesApart == NodeKinds
  BY DEF NodeKinds, FirstNodes, LaterNodes, ColumnNodes

(* Where functions of the two kinds are among the arguments. *)
LEMMA PlaceKinds ==
    ASSUME NEW s, Place(s)
    PROVE  /\ s.node \in FirstNodes => AtFirst(s)
           /\ s.node \in LaterNodes => AtLater(s)
<1>1. AtFirst(s) => s.node \in FirstNodes
  BY DEF AtFirst, FirstNodes
<1>2. AtLater(s) => s.node \in LaterNodes
  BY DEF AtLater
<1>3. AtEnd(s) => s.node \in {"close", "fail", "error", "done", "exit", "generate"}
  BY DEF AtEnd
<1> QED
  BY <1>1, <1>2, <1>3, NodesApart DEF Place, NodeKinds

(* A message fits the argument it is about, and so it fits the place.      *)
LEMMA FailedRefused ==
    ASSUME argc \in Nat, NEW t, NEW a, Failed(t, a), t.from \in Int, t.spec \in Nat,
           a = END => t.from = argc, a # END => t.from < argc,
           t.spec <= t.from, t.due.quote = 0 \/ t.spec <= t.from - 1
    PROVE  AtEnd(t)
<1>1. t.node = "fail" /\ Refuses(t.due, a)
  BY DEF Failed
<1>2. PICK q, k : q = t.due.quote /\ k = t.due.skip
  OBVIOUS
<1>3. k \in {0, 1} /\ q \in {-1, 0} /\ (a = END => q = -1 /\ k = 0)
  BY <1>1, <1>2 DEF Refuses
<1>4. /\ t.due.error \notin {"", "no_db_specs"} /\ t.due.stop \in BOOLEAN
      /\ t.due.stop => a = END \/ t.due.error = "random_range_max_lt_min"
  BY <1>1 DEF Refuses
<1>5. PICK from \in Int, spec \in Nat, upto \in Nat :
         from = t.from /\ spec = t.spec /\ upto = argc
  OBVIOUS
<1>6. spec <= from + q /\ from + q < upto /\ from + k <= upto
  <2>1. spec <= from /\ (q = 0 \/ spec <= from - 1)
    BY <1>2, <1>5
  <2>2. (a = END => from = upto) /\ (a # END => from < upto)
    BY <1>5
  <2> QED
    BY <1>3, <1>5, <2>1, <2>2
<1>7. Refused(t)
  <2>1. /\ t.due.quote \in {-1, 0} /\ t.due.skip \in {0, 1}
        /\ t.spec <= t.from + t.due.quote /\ t.from + t.due.quote < argc
        /\ t.from + t.due.skip <= argc
    BY <1>2, <1>3, <1>5, <1>6
  <2> QED
    BY <1>4, <2>1 DEF Refused
<1> QED
  BY <1>1, <1>7 DEF AtEnd

(* A function that does not ask whether there is an argument. *)
LEMMA FirstPlace ==
    ASSUME argc \in Nat, AtFirst(state), state.from \in Int, state.spec \in Nat, NEW t, NEW a,
           a # END, t.from = state.from + 1,
           t.spec = IF state.node = "db_specs" THEN t.from ELSE state.spec,
           \/ Failed(t, a) /\ (state.node = "db_specs" => t.due.quote = 0)
           \/ state.node \in DOMAIN Successor /\ t.node = Successor[state.node]
           \/ state.node = "col_type" /\ t.node \in ColumnNodes
    PROVE  /\ t.from \in Int /\ t.spec \in Nat /\ state.from + 1 < argc
           /\ AtFirst(t) \/ AtLater(t) \/ AtEnd(t)
<1>1. /\ state.node \in FirstNodes
      /\ state.from + 1 < argc /\ t.from \in Int /\ t.spec \in Nat
      /\ t.spec <= t.from /\ t.from < argc
      /\ state.node # "db_specs" => t.spec <= t.from - 1
  BY DEF AtFirst, Within, FirstNodes
<1>2. CASE Failed(t, a) /\ (state.node = "db_specs" => t.due.quote = 0)
  BY <1>1, <1>2, FailedRefused
<1>3. CASE state.node = "col_type" /\ t.node \in ColumnNodes
  <2>1. t.spec + 7 <= t.from
    BY <1>3 DEF AtFirst, Within
  <2> QED
    BY <1>1, <1>3, <2>1 DEF AtLater, LaterNodes
<1>4. CASE state.node \in DOMAIN Successor /\ t.node = Successor[state.node]
  <2>1. CASE state.node = "db_specs"
    BY <1>1, <1>4, <2>1 DEF AtFirst, Within, Successor
  <2>2. CASE state.node = "db_name"
    BY <1>1, <1>4, <2>2 DEF AtFirst, Within, Successor
  <2>3. CASE state.node = "tbl_flag"
    BY <1>1, <1>4, <2>3 DEF AtFirst, Within, Successor
  <2>4. CASE state.node = "tbl_name"
    BY <1>1, <1>4, <2>4 DEF AtFirst, Within, Successor
  <2>5. CASE state.node = "row_count"
    BY <1>1, <1>4, <2>5 DEF AtFirst, Within, Successor
  <2>6. CASE state.node = "col_flag"
    BY <1>1, <1>4, <2>6 DEF AtFirst, Within, Successor
  <2>7. CASE state.node = "col_name"
    BY <1>1, <1>4, <2>7 DEF AtFirst, Within, Successor
  <2> QED
    BY <1>1, <1>4, <2>1, <2>2, <2>3, <2>4, <2>5, <2>6, <2>7 DEF FirstNodes, Successor
<1> QED
  BY <1>1, <1>2, <1>3, <1>4

(* A function that does. *)
LEMMA LaterPlace ==
    ASSUME argc \in Nat, AtLater(state), state.from \in Int, state.spec \in Nat, NEW t, NEW a,
           t.from = state.from + 1, t.spec = state.spec, (a = END) = (t.from = argc),
           \/ Failed(t, a)
           \/ a # END /\ t.node \in LaterNodes
           \/ t.node = "close" /\ t.due = a /\ a \in JoinClosers
    PROVE  /\ t.from \in Int /\ t.spec \in Nat
           /\ AtLater(t) \/ AtEnd(t)
<1>1. /\ t.from \in Int /\ t.spec \in Nat /\ t.from <= argc /\ t.spec + 8 <= t.from
  BY DEF AtLater
<1>2. CASE Failed(t, a)
  BY <1>1, <1>2, FailedRefused
<1>3. CASE a # END /\ t.node \in LaterNodes
  BY <1>1, <1>3 DEF AtLater
<1>4. CASE t.node = "close" /\ t.due = a /\ a \in JoinClosers
  BY <1>1, <1>4 DEF AtEnd, AtClose
<1> QED
  BY <1>1, <1>2, <1>3, <1>4

(* A function that reads an argument leaves the parser in its place. *)
LEMMA PlaceRead ==
    ASSUME Shape, Place(state), NEW t, NEW r, NEW a, Entering(r, a), Reads(t, r, a)
    PROVE  Place(t)
<1>1. argc \in Nat
  BY InputsAssumption DEF Shape, argc
<1>2. /\ Keeps(t, state, Moving) /\ t.from = state.from + 1 /\ t.overrun = r.overrun
      /\ t.spec = IF state.node = "db_specs" THEN t.from ELSE state.spec
  BY ReadKeeps
<1>3. state.from \in Int /\ state.spec \in Nat /\ NoOverrun(state) /\ Told(state)
  BY DEF Place
<1>4. Told(t)
  <2>1. t.told = state.told /\ t.status = state.status
    BY <1>2 DEF Keeps, Fields, Moving, Own
  <2> QED
    BY <1>3, <2>1 DEF Told
<1>5. CASE state.node \in FirstNodes
  <2>1. a # END /\ (state.from + 1 < argc => NoOverrun(r))
    <3>1. state.node \notin LaterNodes
      BY <1>5, NodesApart DEF NodeKinds
    <3>2. a \in Arguments /\ r.overrun = (state.overrun \/ state.from + 1 >= argc)
      BY <3>1 DEF Entering
    <3>3. state.from + 1 < argc => ~(state.from + 1 >= argc)
      BY <1>1, <1>3
    <3>4. ASSUME state.from + 1 < argc PROVE NoOverrun(r)
      <4>1. (state.overrun \/ state.from + 1 >= argc) = FALSE
        BY <1>3, <3>3, <3>4 DEF NoOverrun
      <4> QED
        BY <3>2, <4>1 DEF NoOverrun
    <3> QED
      BY <3>2, <3>4, EndIsNone
  <2>2. state.node \notin ColumnNodes \union {"next_col_type", "next_join"}
    BY <1>5, NodesApart DEF NodeKinds, LaterNodes
  <2>3. Failed(t, a) /\ state.node = "db_specs" => t.due.quote = 0
    <3>1. ASSUME Failed(t, a), state.node = "db_specs" PROVE t.due.quote = 0
      <4>1. t.node = "fail" /\ FirstReads(t, r, a)
        BY <2>2, <3>1 DEF Reads, LaterReads, Failed, ColumnNodes
      <4> QED
        BY <3>1, <4>1 DEF FirstReads
    <3> QED
      BY <3>1
  <2>4. AtFirst(state)
    BY <1>5, PlaceKinds
  <2>5. /\ t.from \in Int /\ t.spec \in Nat /\ state.from + 1 < argc
        /\ AtFirst(t) \/ AtLater(t) \/ AtEnd(t)
    <3>1. \/ Failed(t, a) /\ (state.node = "db_specs" => t.due.quote = 0)
          \/ state.node \in DOMAIN Successor /\ t.node = Successor[state.node]
          \/ state.node = "col_type" /\ t.node \in ColumnNodes
      BY <2>2, <2>3, ReadNode
    <3> QED
      BY <1>1, <1>2, <1>3, <2>1, <2>4, <3>1, FirstPlace
  <2>6. NoOverrun(t)
    BY <1>2, <2>1, <2>5 DEF NoOverrun
  <2> QED
    BY <1>4, <2>5, <2>6 DEF Place
<1>6. CASE state.node \in LaterNodes
  <2>1. state.node \notin FirstNodes
    BY <1>6, NodesApart DEF NodeKinds
  <2>2. NoOverrun(t) /\ (a = END) = (t.from = argc) /\ t.spec = state.spec
    BY <1>2, <1>3, <2>1 DEF Entering, FirstNodes, NoOverrun
  <2>3. \/ Failed(t, a) \/ (a # END /\ t.node \in LaterNodes)
        \/ (t.node = "close" /\ t.due = a /\ a \in JoinClosers)
    <3>1. CASE state.node \in DOMAIN Successor /\ t.node = Successor[state.node] /\ a # END
      BY <2>1, <3>1 DEF Successor, FirstNodes, LaterNodes
    <3> QED
      BY <3>1, ReadNode DEF LaterNodes
  <2>4. AtLater(state)
    BY <1>6, PlaceKinds
  <2> QED
    BY <1>1, <1>2, <1>3, <1>4, <2>2, <2>3, <2>4, LaterPlace DEF Place
<1> QED
  BY <1>5, <1>6 DEF Entering

-----------------------------------------------------------------------------
(* The steps that read no argument. *)
Reported(t, s) ==
    /\ Keeps(t, s, {"node", "status", "told", "from"})
    /\ t.status = "failure" /\ t.from = s.from + s.due.skip
    /\ t.told = [error |-> s.due.error, spec |-> s.spec, upto |-> s.from + s.due.quote]
    /\ t.node = IF s.due.stop THEN "done" ELSE "error"

Sought(t, s) ==
    \E p : /\ Keeps(p, s, {"from"}) /\ NextDb(t, p)
           /\ p.from \in {argc} \union (s.from + 1)..(argc - 1)

Dispatched(t, s) ==
    /\ Keeps(t, s, {"node", "status", "told"})
    /\ \/ /\ argc < DB_SPEC_LENGTH_MIN /\ t.node = "exit" /\ t.status = "failure"
          /\ t.told = [error |-> IF argc = 0 THEN "no_db_specs" ELSE "short",
                       spec |-> 0, upto |-> argc - 1]
       \/ /\ ~(argc < DB_SPEC_LENGTH_MIN) /\ t.node = "db_specs"
          /\ t.status = s.status /\ t.told = s.told

Decided(t, s) ==
    /\ Keeps(t, s, {"node", "status"})
    /\ \/ Len(s.valid) = 0 /\ t.node = "exit" /\ t.status = "failure"
       \/ Len(s.valid) # 0 /\ t.node = "generate" /\ t.status = s.status

(* A message changes what has been told, and the function to be entered. *)
LEMMA ReportKeeps ==
    ASSUME NEW s, DOMAIN s = Fields
    PROVE  Reported(Report(s), s)
<1>1. PICK t : t = Report(s)
  OBVIOUS
<1>2. /\ DOMAIN t = Fields /\ t.status = "failure" /\ t.from = s.from + s.due.skip
      /\ t.told = [error |-> s.due.error, spec |-> s.spec, upto |-> s.from + s.due.quote]
      /\ t.node = IF s.due.stop THEN "done" ELSE "error"
      /\ \A f \in Fields \ {"node", "status", "told", "from"} : t[f] = s[f]
  BY <1>1 DEF Report, Fields, Own
<1> QED
  BY <1>1, <1>2 DEF Reported, Keeps

(* generate_parse_error looks for a DATABASE flag further on. *)
LEMMA FindNextSeeks ==
    ASSUME DOMAIN state = Fields, FindNext
    PROVE  Sought(state', state) /\ UNCHANGED input
<1>1. PICK next \in {argc} \union (state.from + 1)..(argc - 1) :
         state' = generate_parse_error(state, next)
  BY DEF FindNext
<1>2. PICK p : p = [state EXCEPT !.from = next]
  OBVIOUS
<1>3. Keeps(p, state, {"from"}) /\ p.from = next
  BY <1>2 DEF Keeps, Fields, Own
<1>4. NextDb(state', p)
  BY <1>1, <1>2, <1>3, NextDbKeeps DEF generate_parse_error, Keeps
<1> QED
  BY <1>3, <1>4 DEF Sought, FindNext

(* generate_dispatch. *)
LEMMA DispatchKeeps ==
    ASSUME DOMAIN state = Fields, generate_dispatch
    PROVE  Dispatched(state', state) /\ UNCHANGED input /\ state.node = "dispatch"
<1>1. CASE argc < DB_SPEC_LENGTH_MIN
  <2>1. PICK t : t = state'
    OBVIOUS
  <2>2. /\ DOMAIN t = Fields /\ t.node = "exit" /\ t.status = "failure"
        /\ t.told = [error |-> IF argc = 0 THEN "no_db_specs" ELSE "short",
                     spec |-> 0, upto |-> argc - 1]
        /\ \A f \in Fields \ {"node", "status", "told"} : t[f] = state[f]
    BY <1>1, <2>1 DEF generate_dispatch, Fields, Own
  <2> QED
    BY <1>1, <2>1, <2>2 DEF Dispatched, Keeps, generate_dispatch
<1>2. CASE ~(argc < DB_SPEC_LENGTH_MIN)
  <2>1. PICK t : t = state'
    OBVIOUS
  <2>2. /\ DOMAIN t = Fields /\ t.node = "db_specs" /\ \A f \in Fields \ {"node"} : t[f] = state[f]
    BY <1>2, <2>1 DEF generate_dispatch, Fields, Own
  <2>3. t.status = state.status /\ t.told = state.told
    BY <2>2 DEF Fields
  <2> QED
    BY <1>2, <2>1, <2>2, <2>3 DEF Dispatched, Keeps, generate_dispatch
<1> QED
  BY <1>1, <1>2

(* generate_dispatch after parsing. *)
LEMMA DispatchEndKeeps ==
    ASSUME DOMAIN state = Fields, generate_dispatch_end
    PROVE  Decided(state', state) /\ UNCHANGED input /\ state.node = "done"
<1>1. CASE Len(state.valid) = 0
  <2>1. PICK t : t = state'
    OBVIOUS
  <2>2. /\ DOMAIN t = Fields /\ t.node = "exit" /\ t.status = "failure"
        /\ \A f \in Fields \ {"node", "status"} : t[f] = state[f]
    BY <1>1, <2>1 DEF generate_dispatch_end, Fields, Own
  <2> QED
    BY <1>1, <2>1, <2>2 DEF Decided, Keeps, generate_dispatch_end
<1>2. CASE Len(state.valid) # 0
  <2>1. PICK t : t = state'
    OBVIOUS
  <2>2. /\ DOMAIN t = Fields /\ t.node = "generate" /\ \A f \in Fields \ {"node"} : t[f] = state[f]
    BY <1>2, <2>1 DEF generate_dispatch_end, Fields, Own
  <2>3. t.status = state.status
    BY <2>2 DEF Fields
  <2> QED
    BY <1>2, <2>1, <2>2, <2>3 DEF Decided, Keeps, generate_dispatch_end
<1> QED
  BY <1>1, <1>2

(* What CloseCases finds of the end of a column. *)
Ended(t, s) ==
    /\ Keeps(t, s, Closings) /\ Closed(t, s)
    /\ \/ /\ s.due = END /\ t.node = "done" /\ Added(t, s)
          /\ t.db = s.db /\ t.spec = s.spec /\ t.status = s.status /\ t.told = s.told
       \/ /\ s.due = "+" /\ t.node = "next_join" /\ NotAdded(t, s)
          /\ t.db = s.db /\ t.spec = s.spec /\ t.status = s.status /\ t.told = s.told
       \/ /\ s.due = ColFlag /\ t.node = "next_col_name" /\ NotAdded(t, s)
          /\ t.db = s.db /\ t.spec = s.spec /\ t.status = s.status /\ t.told = s.told
       \/ /\ s.due = TblFlag /\ t.node = "next_tbl_name" /\ NotAdded(t, s)
          /\ t.db = s.db /\ t.spec = s.spec /\ t.status = s.status /\ t.told = s.told
       \/ /\ s.due = DbFlag /\ Added(t, s) /\ t.db = s.col + ColSize
          /\ \E p : NextDb(t, p) /\ p.from = s.from /\ p.spec = s.spec
                    /\ p.status = s.status /\ p.told = s.told

(* Every step. *)
LEMMA StepCases ==
    ASSUME Shape, DOMAIN state.join = JoinFields, Place(state), [ParseNext]_parseVars
    PROVE  /\ UNCHANGED input
           /\ \/ UNCHANGED state
              \/ \E r, a : Entering(r, a) /\ Reads(state', r, a)
              \/ state.node = "close" /\ Ended(state', state) /\ Qualified(state')
              \/ state.node = "fail" /\ Reported(state', state)
              \/ state.node = "error" /\ Sought(state', state)
              \/ state.node = "dispatch" /\ Dispatched(state', state)
              \/ state.node = "done" /\ Decided(state', state)
<1>1. DOMAIN state = Fields
  BY DEF Shape, Entered
<1>2. CASE ParseSpecs \/ ParseColumn \/ ParseJoin
  BY <1>2, ReadCases
<1>3. CASE Closing
  <2>1. state.node = "close" /\ state' = CloseSpec(state) /\ UNCHANGED input
    BY <1>3 DEF Closing
  <2>2. state.due \in JoinClosers
    <3>1. ~AtFirst(state) /\ ~AtLater(state) /\ state.node # "dispatch"
      BY <2>1, NodesApart DEF NodeKinds, AtFirst, AtLater
    <3> QED
      BY <2>1, <3>1 DEF Place, AtEnd, AtClose
  <2>3. Ended(state', state) /\ Qualified(state')
    BY <2>1, <2>2, CloseCases DEF Ended, Shape
  <2> QED
    BY <2>1, <2>3
<1>4. CASE Reporting
  BY <1>1, <1>4, ReportKeeps DEF Reporting
<1>5. CASE FindNext
  BY <1>1, <1>5, FindNextSeeks DEF FindNext
<1>6. CASE generate_dispatch
  BY <1>1, <1>6, DispatchKeeps
<1>7. CASE generate_dispatch_end
  BY <1>1, <1>7, DispatchEndKeeps
<1>8. CASE Over \/ UNCHANGED parseVars
  BY <1>8 DEF Over, parseVars
<1> QED
  BY <1>2, <1>3, <1>4, <1>5, <1>6, <1>7, <1>8 DEF ParseNext

(* A step that leaves the column's own fields alone and enters no function *)
(* of a column.                                                            *)
LEMMA QuietShape ==
    ASSUME NEW s, Entered(s), NEW t, NEW changed,
           Keeps(t, s, changed), t.node \notin SetNodes,
           changed \intersect Own \subseteq {"node"}
    PROVE  Entered(t)
<1>1. {"values", "text", "grp", "grouped", "name"} \subseteq Fields \ changed
  BY DEF Fields, Own
<1>2. /\ t.values = s.values /\ t.text = s.text /\ t.grp = s.grp
      /\ t.grouped = s.grouped /\ t.name = s.name
  BY <1>1 DEF Keeps
<1>3. Qualified(t)
  BY <1>2 DEF Qualified, Entered
<1> QED
  BY <1>2, <1>3 DEF Entered, Keeps

(* parse_next_db_spec after a step that moved only. *)
LEMMA NextDbKeepsMore ==
    ASSUME NEW s, NEW p, NEW t, Keeps(p, s, {"from"}), NextDb(t, p)
    PROVE  /\ Keeps(t, s, {"from", "node", "spec", "status", "told"})
           /\ t.from = p.from /\ p.spec = s.spec /\ p.status = s.status /\ p.told = s.told
           /\ t.node \in {"db_name", "done"}
BY DEF NextDb, Keeps, Fields

(* The shape of the state is kept. *)
LEMMA ShapeStep ==
    ASSUME Shape, DOMAIN state.join = JoinFields, Place(state), [ParseNext]_parseVars
    PROVE  Shape'
<1>1. UNCHANGED input /\ Entered(state)
  BY StepCases DEF Shape
<1>2. CASE UNCHANGED state
  BY <1>1, <1>2 DEF Shape, Entered, Qualified
<1>3. ASSUME Entered(state') PROVE Shape'
  BY <1>1, <1>3 DEF Shape, Entered, Qualified
<1>4. CASE \E r, a : Entering(r, a) /\ Reads(state', r, a)
  BY <1>3, <1>4, ReadKeeps DEF Entered, Keeps
<1>5. CASE Ended(state', state) /\ Qualified(state')
  BY <1>1, <1>3, <1>5 DEF Entered, Ended, Keeps
<1>6. CASE Reported(state', state)
  <2>1. state'.node \notin SetNodes
    BY <1>6 DEF Reported, SetNodes
  <2> QED
    BY <1>1, <1>3, <1>6, <2>1, QuietShape DEF Reported, Own
<1>7. CASE Sought(state', state)
  <2>1. /\ Keeps(state', state, {"from", "node", "spec", "status", "told"})
        /\ state'.node \in {"db_name", "done"}
    BY <1>7, NextDbKeepsMore DEF Sought
  <2>2. state'.node \notin SetNodes
    BY <2>1 DEF SetNodes
  <2> QED
    BY <1>1, <1>3, <2>1, <2>2, QuietShape DEF Own
<1>8. CASE Dispatched(state', state)
  <2>1. state'.node \notin SetNodes
    BY <1>8 DEF Dispatched, SetNodes
  <2> QED
    BY <1>1, <1>3, <1>8, <2>1, QuietShape DEF Dispatched, Own
<1>9. CASE Decided(state', state)
  <2>1. state'.node \notin SetNodes
    BY <1>9 DEF Decided, SetNodes
  <2> QED
    BY <1>1, <1>3, <1>9, <2>1, QuietShape DEF Decided, Own
<1> QED
  BY <1>2, <1>4, <1>5, <1>6, <1>7, <1>8, <1>9, StepCases

-----------------------------------------------------------------------------
(* parse_next_db_spec enters a DB_SPEC only with all its arguments there. *)
LEMMA NextDbPlace ==
    ASSUME argc \in Nat, NEW p, NEW t, NextDb(t, p), t.from = p.from, NoOverrun(t),
           Told(p), p.from \in Nat, p.from <= argc, p.spec \in Nat,
           p.from = argc => Message(p)
    PROVE  Place(t)
<1>1. CASE p.from < argc + 1 - DB_SPEC_LENGTH_MIN
  <2>1. t.node = "db_name" /\ t.spec = p.from /\ t.status = p.status /\ t.told = p.told
    BY <1>1 DEF NextDb
  <2>2. p.from + 8 <= argc
    BY <1>1 DEF DB_SPEC_LENGTH_MIN
  <2>3. Within(t, 0)
    BY <2>1, <2>2 DEF Within
  <2>4. Told(t)
    BY <2>1 DEF Told
  <2> QED
    BY <2>1, <2>3, <2>4 DEF Place, AtFirst
<1>2. CASE ~(p.from < argc + 1 - DB_SPEC_LENGTH_MIN)
  <2>1. /\ t.node = "done" /\ t.status = "failure" /\ t.spec = p.spec
        /\ t.told = IF p.from < argc
                    THEN [error |-> "short", spec |-> p.from, upto |-> argc - 1] ELSE p.told
    BY <1>2 DEF NextDb
  <2>2. CASE p.from < argc
    <3>1. t.told = [error |-> "short", spec |-> p.from, upto |-> argc - 1]
      BY <2>1, <2>2
    <3>2. t.told.error = "short" /\ t.told.spec = p.from /\ t.told.upto = argc - 1
      BY <3>1
    <3>3. p.from \in 0..(argc - 1) /\ argc - 1 \in p.from..(argc - 1)
      BY <2>2
    <3>4. Told(t)
      BY <2>1, <3>2, <3>3 DEF Told
    <3>5. AtEnd(t)
      BY <2>1, <3>2 DEF AtEnd, Stopped
    <3> QED
      BY <2>1, <3>4, <3>5 DEF Place
  <2>3. CASE ~(p.from < argc)
    <3>1. p.from = argc
      BY <2>3
    <3>2. t.told = p.told
      BY <2>1, <2>3
    <3>3. Message(t)
      BY <3>1, <3>2 DEF Message
    <3>4. Told(t)
      BY <2>1, <3>2, <3>3 DEF Told, Message
    <3>5. Stopped(t)
      BY <3>1 DEF Stopped
    <3>6. AtEnd(t)
      BY <2>1, <3>3, <3>5 DEF AtEnd, Message
    <3> QED
      BY <2>1, <3>4, <3>6 DEF Place
  <2> QED
    BY <2>2, <2>3
<1> QED
  BY <1>1, <1>2

-----------------------------------------------------------------------------
(* What a function that reads an argument does to the tables, their counts *)
(* and the JOIN, unless it fails.                                          *)
(* A DB_SPEC with a table is being parsed. *)
LiveNodes == {"col_flag", "col_name", "col_type", "close"} \union LaterNodes

(* A column has been counted that is not in its table yet. *)
PendingNodes == {"col_flag", "col_name", "col_type", "close"} \union ColumnNodes

JoinStart(name) ==
    [on |-> TRUE, length |-> 0, type |-> "char", text |-> 0, odd |-> FALSE, name |-> name]

TableBegun(t, s) ==
    /\ t.node = "col_flag" /\ t.join = s.join
    /\ \E n \in Nat : t.tables = <<NewTable(n)>> /\ t.database = database_counter_init(n)

Passed(t, s) ==
    /\ s.node \in LiveNodes \ {"tbl_col_flag"} /\ t.node \in LiveNodes \ {"tbl_col_flag"}
    /\ s.node \in PendingNodes <=> t.node \in PendingNodes
    /\ t.tables = s.tables /\ t.database = s.database
    /\ t.join \in {s.join, [s.join EXCEPT !.on = FALSE], JoinStart(s.name)}

TableAdded(t, s) ==
    /\ s.node = "next_row_count" /\ t.node = "tbl_col_flag"
    /\ t.join = s.join /\ t.database = s.database
    /\ \E n \in Nat : t.tables = Append(s.tables, NewTable(n))

TableCounted(t, s) ==
    /\ s.node = "tbl_col_flag" /\ t.node = "tbl_col_name"
    /\ t.join = s.join /\ t.tables = s.tables
    /\ t.database = Counted(s.database, s.tables[Len(s.tables)].rows)

ColumnCounted(t, s) ==
    /\ s.node \in {"next_col_type", "next_join"} /\ t.node \in ColumnNodes
    /\ t.join = s.join /\ t.tables = s.tables /\ t.database = OneMore(s.database)

Effect(t, s) ==
    \/ TableBegun(t, s) \/ Passed(t, s) \/ TableAdded(t, s) \/ TableCounted(t, s)
    \/ ColumnCounted(t, s)

(* What the parser does to the tables is one of these effects. *)
LEMMA ReadEffect ==
    ASSUME Shape, NEW t, NEW r, NEW a, Entering(r, a), Reads(t, r, a), t.node \in LiveNodes
    PROVE  Effect(t, state)
<1>1. /\ r.tables = state.tables /\ r.database = state.database /\ r.join = state.join
      /\ r.name = state.name /\ r.node = state.node
  BY DEF Entering, Keeps, Fields, Own
<1>2. /\ t.node # "fail"
      /\ t.node \notin {"db_name", "tbl_flag", "tbl_name", "row_count"}
  BY DEF LiveNodes, LaterNodes, ColumnNodes
<1>3. ASSUME NEW changed, Keeps(t, r, changed)
      PROVE  /\ "tables" \notin changed => t.tables = state.tables
             /\ "database" \notin changed => t.database = state.database
             /\ "join" \notin changed => t.join = state.join
  BY <1>1, <1>3 DEF Keeps, Fields
<1>4. ~Stops(t, r, a)
  BY <1>2 DEF Stops, Failed
<1>5. CASE FirstReads(t, r, a)
  <2>1. CASE state.node = "row_count"
    <3>1. /\ Goes(t, r, {"tbl", "tables", "database"}, a, "col_flag")
          /\ \E n \in Nat : t.tables = <<NewTable(n)>> /\ t.database = database_counter_init(n)
      BY <1>5, <2>1 DEF FirstReads
    <3>2. t.join = state.join
      BY <1>3, <3>1 DEF Goes, Own
    <3> QED
      BY <1>2, <3>1, <3>2 DEF Effect, TableBegun, Goes, Failed
  <2>2. CASE state.node = "col_flag"
    <3>1. Goes(t, r, {}, a, "col_name")
      BY <1>5, <2>2 DEF FirstReads
    <3>2. t.tables = state.tables /\ t.database = state.database /\ t.join = state.join
      BY <1>3, <3>1 DEF Goes, Own
    <3> QED
      BY <1>2, <2>2, <3>1, <3>2 DEF Effect, Passed, Goes, Failed, LiveNodes, PendingNodes
  <2>3. CASE state.node = "col_name"
    <3>1. NewColumn(t, r, r.tbl + TblSize, a, "col_type")
      BY <1>5, <2>3 DEF FirstReads
    <3>2. t.tables = state.tables /\ t.database = state.database
          /\ t.join = [state.join EXCEPT !.on = FALSE]
      BY <1>1, <1>3, <3>1 DEF NewColumn, Goes, Own
    <3> QED
      BY <1>2, <2>3, <3>1, <3>2
         DEF Effect, Passed, NewColumn, Goes, Failed, LiveNodes, PendingNodes
  <2>4. CASE state.node = "col_type"
    <3>1. Starts(t, r, {}, a)
      BY <1>5, <2>4 DEF FirstReads
    <3>2. t.tables = state.tables /\ t.database = state.database /\ t.join = state.join
      BY <1>3, <3>1 DEF Starts, Own
    <3>3. t.node \in ColumnNodes
      BY <1>2, <3>1 DEF Starts, Failed
    <3>4. t.node # "tbl_col_flag"
      BY <3>3 DEF ColumnNodes
    <3> QED
      BY <2>4, <3>2, <3>3, <3>4 DEF Effect, Passed, LiveNodes, PendingNodes, LaterNodes
  <2> QED
    BY <1>2, <1>5, <2>1, <2>2, <2>3, <2>4 DEF FirstReads, Goes, Failed
<1>6. CASE LaterReads(t, r, a)
  <2>1. CASE state.node = "next_tbl_name"
    <3>1. Goes(t, r, {"top", "clobbered", "tbl"}, a, "next_row_count")
      BY <1>6, <2>1 DEF LaterReads, ColumnNodes
    <3>2. t.tables = state.tables /\ t.database = state.database /\ t.join = state.join
      BY <1>3, <3>1 DEF Goes, Own
    <3> QED
      BY <1>2, <2>1, <3>1, <3>2
         DEF Effect, Passed, Goes, Failed, LiveNodes, PendingNodes, LaterNodes, ColumnNodes
  <2>2. CASE state.node = "next_row_count"
    <3>1. /\ Goes(t, r, {"tables"}, a, "tbl_col_flag")
          /\ \E n \in Nat : t.tables = Append(r.tables, NewTable(n))
      BY <1>6, <2>2 DEF LaterReads, ColumnNodes
    <3>2. t.database = state.database /\ t.join = state.join
      BY <1>3, <3>1 DEF Goes, Own
    <3> QED
      BY <1>1, <1>2, <2>2, <3>1, <3>2 DEF Effect, TableAdded, Goes, Failed
  <2>3. CASE state.node = "tbl_col_flag"
    <3>1. /\ Goes(t, r, {"database"}, a, "tbl_col_name")
          /\ t.database = Counted(r.database, r.tables[Len(r.tables)].rows)
      BY <1>6, <2>3 DEF LaterReads, ColumnNodes
    <3>2. t.tables = state.tables /\ t.join = state.join
      BY <1>3, <3>1 DEF Goes, Own
    <3> QED
      BY <1>1, <1>2, <2>3, <3>1, <3>2 DEF Effect, TableCounted, Goes, Failed
  <2>4. CASE state.node \in {"tbl_col_name", "next_col_name"}
    <3>1. \E at : NewColumn(t, r, at, a, "next_col_type")
      BY <1>6, <2>4 DEF LaterReads, ColumnNodes
    <3>2. t.tables = state.tables /\ t.database = state.database
          /\ t.join = [state.join EXCEPT !.on = FALSE]
      BY <1>1, <1>3, <3>1 DEF NewColumn, Goes, Own
    <3> QED
      BY <1>2, <2>4, <3>1, <3>2
         DEF Effect, Passed, NewColumn, Goes, Failed, LiveNodes, PendingNodes, LaterNodes,
             ColumnNodes
  <2>5. CASE state.node = "next_col_type"
    <3>1. Starts(t, r, {"database"}, a) /\ t.database = OneMore(r.database)
      BY <1>6, <2>5 DEF LaterReads, ColumnNodes
    <3>2. t.tables = state.tables /\ t.join = state.join
      BY <1>3, <3>1 DEF Starts, Own
    <3> QED
      BY <1>1, <1>2, <2>5, <3>1, <3>2 DEF Effect, ColumnCounted, Starts, Failed
  <2>6. CASE state.node = "next_join"
    <3>1. /\ Starts(t, r, {"top", "clobbered", "col", "database"}, a)
          /\ t.database = OneMore(r.database)
      BY <1>6, <2>6 DEF LaterReads, ColumnNodes
    <3>2. t.tables = state.tables /\ t.join = state.join
      BY <1>3, <3>1 DEF Starts, Own
    <3> QED
      BY <1>1, <1>2, <2>6, <3>1, <3>2 DEF Effect, ColumnCounted, Starts, Failed
  <2>7. CASE state.node \in ColumnNodes
    <3>1. \/ Starts(t, r, {"join"}, a) /\ t.join = join_spec_state_init(r).join
          \/ Outcome(t, r, a)
      BY <1>6, <2>7 DEF LaterReads, ColumnNodes
    <3>2. join_spec_state_init(r).join = JoinStart(state.name)
      BY <1>1 DEF join_spec_state_init, JoinStart, Entering, Entered, Fields
    <3>3. t.tables = state.tables /\ t.database = state.database
      BY <1>3, <3>1 DEF Starts, Outcome, Own
    <3>4. t.join \in {state.join, JoinStart(state.name)}
      BY <1>3, <3>1, <3>2 DEF Outcome, Own
    <3>5. t.node \in ColumnNodes \union {"close"}
      BY <1>2, <3>1 DEF Starts, Outcome, Failed
    <3>6. t.node # "tbl_col_flag" /\ state.node # "tbl_col_flag"
      BY <2>7, <3>5 DEF ColumnNodes
    <3> QED
      BY <2>7, <3>3, <3>4, <3>5, <3>6 DEF Effect, Passed, LiveNodes, PendingNodes, LaterNodes
  <2> QED
    BY <1>6, <2>1, <2>2, <2>3, <2>4, <2>5, <2>6, <2>7 DEF LaterReads, ColumnNodes
<1> QED
  BY <1>4, <1>5, <1>6 DEF Reads

(* A function that reads an argument keeps the JOIN, or starts one. *)
LEMMA ReadJoin ==
    ASSUME Shape, NEW t, NEW r, NEW a, Entering(r, a), Reads(t, r, a)
    PROVE  t.join \in {state.join, [state.join EXCEPT !.on = FALSE], JoinStart(state.name)}
<1>1. r.join = state.join /\ r.name = state.name
  BY DEF Entering, Keeps, Fields, Own
<1>2. t.join = r.join \/ t.join = [r.join EXCEPT !.on = FALSE]
      \/ t.join = join_spec_state_init(r).join
  <2>1. ASSUME NEW changed, Keeps(t, r, changed), "join" \notin changed PROVE t.join = r.join
    BY <2>1 DEF Keeps, Fields
  <2>2. CASE Stops(t, r, a)
    BY <2>1, <2>2 DEF Stops, Own
  <2>3. CASE FirstReads(t, r, a)
    BY <2>1, <2>3 DEF FirstReads, Goes, Starts, NewColumn, Own
  <2>4. CASE LaterReads(t, r, a)
    BY <2>1, <2>4 DEF LaterReads, Goes, Starts, NewColumn, Outcome, Own
  <2> QED
    BY <2>2, <2>3, <2>4 DEF Reads
<1>3. join_spec_state_init(r).join = JoinStart(state.name)
  BY <1>1 DEF Entering, Entered, Fields, join_spec_state_init, JoinStart
<1> QED
  BY <1>1, <1>2, <1>3

-----------------------------------------------------------------------------
(* What set_col_spec and set_join set.  The generators a column draws from *)
(* are flagged, and counter_upto covers what it counts.                    *)
Kinds == {"int", "bigint", "uuid"}

Given(c) ==
    /\ c.rows \in Nat /\ c.grp \in Nat /\ c.name \in Nat /\ c.text \in Nat
    /\ c.grouped \in BOOLEAN /\ c.values \in Seq(Int)

Provides(r, c) ==
    /\ r.upto \in Nat /\ r.flags \in SUBSET Kinds
    /\ CountOf(r, c) \in Nat /\ CountOf(r, c) <= r.upto /\ Drawn(r) \subseteq r.flags

(* A number of digits is a number, *)
LEMMA DigitsType == \A n \in Nat : uint_digit_count(n) \in Nat
  BY DigitCount

(* and so is the length of a text *)
LEMMA TextType == \A v \in Int : Text(v) \in Nat
<1> TAKE v \in Int
<1>1. CASE v < 0
  <2>1. -v \in Nat
    BY <1>1
  <2> QED
    BY <1>1, <2>1, DigitsType DEF Text
<1>2. CASE ~(v < 0)
  <2>1. v \in Nat
    BY <1>2
  <2> QED
    BY <1>2, <2>1, DigitsType DEF Text
<1> QED
  BY <1>1, <1>2

(* and what a column counts. *)
LEMMA CountType ==
    ASSUME NEW c, Given(c)
    PROVE  Count(c) \in Nat
  BY DEF Given, Count

(* A column that counts. *)
LEMMA UniqueProvides ==
    ASSUME NEW c, Given(c), NEW type, NEW length
    PROVE  Provides(Set("unique", c.grouped, Count(c), {}, type, length), c)
<1>1. PICK r : r = Set("unique", c.grouped, Count(c), {}, type, length)
  OBVIOUS
<1>2. /\ r.build = "unique" /\ r.group = c.grouped /\ r.upto = Count(c) /\ r.flags = {}
  BY <1>1 DEF Set
<1>3. CountOf(r, c) = Count(c)
  BY <1>2 DEF CountOf, Count
<1>4. Drawn(r) = {}
  BY <1>2 DEF Drawn
<1>5. Count(c) <= Count(c) /\ Count(c) \in Nat
  BY CountType
<1> QED
  BY <1>1, <1>2, <1>3, <1>4, <1>5 DEF Provides

(* One that does not, nor draws anything that is not flagged. *)
LEMMA OtherProvides ==
    ASSUME NEW c, NEW group, NEW type, NEW length, NEW flags \in SUBSET Kinds,
           NEW build \in {"fixed", "hash", "time", "names", "uuid"},
           build = "names" => "int" \in flags, build = "uuid" => {"int", "uuid"} \subseteq flags
    PROVE  Provides(Set(build, group, 0, flags, type, length), c)
<1>1. PICK r : r = Set(build, group, 0, flags, type, length)
  OBVIOUS
<1>2. r.build = build /\ r.upto = 0 /\ r.flags = flags
  BY <1>1 DEF Set
<1>3. CountOf(r, c) = 0
  BY <1>2 DEF CountOf
<1>4. Drawn(r) \subseteq r.flags
  BY <1>2 DEF Drawn
<1>5. 0 <= 0 /\ 0 \in Nat
  OBVIOUS
<1> QED
  BY <1>1, <1>2, <1>3, <1>4, <1>5 DEF Provides

(* A generator that flags itself. *)
Flagged(g) == g.bits \in g.flags /\ g.flags \in SUBSET Kinds

(* A random column provides the generator it draws from, *)
LEMMA RandomProvides ==
    ASSUME NEW c, NEW g, Flagged(g)
    PROVE  Provides(SetRandom(c, g), c) /\ Provides(JoinRandom(c, g), c)
<1>1. ASSUME NEW r, r.build = "random", r.gen = g, r.upto = 0, r.flags = g.flags
      PROVE  Provides(r, c)
  <2>1. CountOf(r, c) = 0
    BY <1>1 DEF CountOf
  <2>2. Drawn(r) \subseteq r.flags
    BY <1>1 DEF Drawn, Flagged
  <2>3. 0 <= 0 /\ 0 \in Nat
    OBVIOUS
  <2> QED
    BY <1>1, <2>1, <2>2, <2>3 DEF Provides, Flagged
<1>2. Provides(SetRandom(c, g), c)
  <2>1. PICK r : r = SetRandom(c, g)
    OBVIOUS
  <2>2. r.build = "random" /\ r.gen = g /\ r.upto = 0 /\ r.flags = g.flags
    BY <2>1 DEF SetRandom
  <2> QED
    BY <1>1, <2>1, <2>2
<1>3. Provides(JoinRandom(c, g), c)
  <2>1. PICK r : r = JoinRandom(c, g)
    OBVIOUS
  <2>2. r.build = "random" /\ r.gen = g /\ r.upto = 0 /\ r.flags = g.flags
    BY <2>1 DEF JoinRandom, SetRandom
  <2> QED
    BY <1>1, <2>1, <2>2
<1> QED
  BY <1>2, <1>3

(* given that the generator names a kind; a bounded one does, *)
LEMMA BoundFlagged ==
    ASSUME NEW type, NEW bits \in {"int", "bigint"}, NEW span, NEW wide, NEW result, NEW offset,
           NEW width
    PROVE  /\ Flagged(Bound(type, bits, span, wide, result, offset, width))
           /\ Flagged(Joined(Bound(type, bits, span, wide, result, offset, width)))
<1>1. PICK g : g = Bound(type, bits, span, wide, result, offset, width)
  OBVIOUS
<1>2. g.bits = bits /\ g.flags = {bits}
  BY <1>1 DEF Bound
<1>3. Joined(g).bits = bits /\ Joined(g).flags = {bits}
  BY <1>1 DEF Joined, Bound
<1> QED
  BY <1>1, <1>2, <1>3 DEF Flagged, Kinds

(* one without bound does, *)
LEMMA UnboundFlagged == Flagged(I32) /\ Flagged(I64) /\ Flagged(U32) /\ Flagged(U64)
  BY DEF I32, I64, U32, U64, Unbound, Flagged, Kinds

(* and those of the assign_* functions do. *)
LEMMA AssignedFlagged ==
    ASSUME NEW v, NEW w
    PROVE  /\ Flagged(assign_integer_random_from(v)) /\ Flagged(assign_join_integer_random_from(v))
           /\ Flagged(assign_integer_random_upto(v)) /\ Flagged(assign_join_integer_random_upto(v))
           /\ Flagged(assign_integer_random_range(v, w))
           /\ Flagged(assign_join_integer_random_range(v, w))
           /\ Flagged(assign_u_integer_random_from(v))
           /\ Flagged(assign_join_u_integer_random_from(v))
           /\ Flagged(assign_u_integer_random_upto(v))
           /\ Flagged(assign_join_u_integer_random_upto(v))
           /\ Flagged(assign_u_integer_random_range(v, w))
           /\ Flagged(assign_join_u_integer_random_range(v, w))
<1>1. Flagged(assign_integer_random_from(v)) /\ Flagged(assign_join_integer_random_from(v))
  BY BoundFlagged DEF assign_integer_random_from, assign_join_integer_random_from
<1>2. Flagged(assign_integer_random_upto(v)) /\ Flagged(assign_join_integer_random_upto(v))
  BY BoundFlagged DEF assign_integer_random_upto, assign_join_integer_random_upto
<1>3. /\ Flagged(assign_integer_random_range(v, w))
      /\ Flagged(assign_join_integer_random_range(v, w))
  BY BoundFlagged DEF assign_integer_random_range, assign_join_integer_random_range
<1>4. /\ Flagged(assign_u_integer_random_from(v))
      /\ Flagged(assign_join_u_integer_random_from(v))
  BY BoundFlagged DEF assign_u_integer_random_from, assign_join_u_integer_random_from
<1>5. /\ Flagged(assign_u_integer_random_upto(v))
      /\ Flagged(assign_join_u_integer_random_upto(v))
  BY BoundFlagged DEF assign_u_integer_random_upto, assign_join_u_integer_random_upto
<1>6. /\ Flagged(assign_u_integer_random_range(v, w))
      /\ Flagged(assign_join_u_integer_random_range(v, w))
  BY BoundFlagged DEF assign_u_integer_random_range, assign_join_u_integer_random_range
<1> QED
  BY <1>1, <1>2, <1>3, <1>4, <1>5, <1>6

(* The functions for integer columns provide what the column needs, *)
LEMMA IntegerProvides ==
    ASSUME NEW c, Given(c)
    PROVE  /\ Provides(column_integer_unique(c), c) /\ Provides(column_integer_fixed(c), c)
           /\ Provides(column_integer_random_default(c), c)
           /\ Provides(column_integer_random_from(c), c)
           /\ Provides(column_integer_random_from_group(c), c)
           /\ Provides(column_integer_random_upto(c), c)
           /\ Provides(column_integer_random_range(c), c)
<1>1. Provides(column_integer_unique(c), c)
  BY UniqueProvides DEF column_integer_unique
<1>2. Provides(column_integer_fixed(c), c)
  BY OtherProvides DEF column_integer_fixed
<1>3. Provides(column_integer_random_default(c), c)
  BY UnboundFlagged, RandomProvides DEF column_integer_random_default
<1>4. Provides(column_integer_random_from(c), c)
  BY UnboundFlagged, AssignedFlagged, RandomProvides DEF column_integer_random_from
<1>5. Provides(column_integer_random_from_group(c), c)
  <2>1. PICK g : g = assign_integer_random_from(c.values[1]) /\ "flags" \in DOMAIN g
    <3>1. ASSUME NEW type, NEW bits, NEW span, NEW wide, NEW result, NEW offset, NEW width
          PROVE  "flags" \in DOMAIN Bound(type, bits, span, wide, result, offset, width)
      BY DEF Bound
    <3>2. "flags" \in DOMAIN assign_integer_random_from(c.values[1])
      BY <3>1 DEF assign_integer_random_from
    <3> QED
      BY <3>2
  <2>2. PICK fallen \in SUBSET Kinds :
           fallen = CASE c.values[1] = INT32_MIN -> {"int", "bigint"}
                      [] c.values[1] = INT64_MIN -> {"bigint"}
                      [] OTHER -> {}
    BY DEF Kinds
  <2>3. PICK h : h = [g EXCEPT !.flags = @ \union fallen]
    OBVIOUS
  <2>4. h.bits = g.bits /\ h.flags = g.flags \union fallen
    BY <2>1, <2>3
  <2>5. Flagged(h)
    BY <2>1, <2>4, AssignedFlagged DEF Flagged
  <2>6. column_integer_random_from_group(c) = SetRandom(c, h)
    BY <2>1, <2>2, <2>3 DEF column_integer_random_from_group
  <2> QED
    BY <2>5, <2>6, RandomProvides
<1>6. Provides(column_integer_random_upto(c), c)
  BY UnboundFlagged, AssignedFlagged, RandomProvides DEF column_integer_random_upto
<1>7. Provides(column_integer_random_range(c), c)
  BY UnboundFlagged, AssignedFlagged, RandomProvides DEF column_integer_random_range
<1> QED
  BY <1>1, <1>2, <1>3, <1>4, <1>5, <1>6, <1>7

(* those for unsigned ones *)
LEMMA UIntegerProvides ==
    ASSUME NEW c, Given(c)
    PROVE  /\ Provides(column_u_integer_unique(c), c) /\ Provides(column_u_integer_fixed(c), c)
           /\ Provides(column_u_integer_random_default(c), c)
           /\ Provides(column_u_integer_random_from(c), c)
           /\ Provides(column_u_integer_random_upto(c), c)
           /\ Provides(column_u_integer_random_range(c), c)
<1>1. Provides(column_u_integer_unique(c), c)
  BY UniqueProvides DEF column_u_integer_unique
<1>2. Provides(column_u_integer_fixed(c), c)
  BY OtherProvides DEF column_u_integer_fixed
<1>3. Provides(column_u_integer_random_default(c), c)
  BY UnboundFlagged, RandomProvides DEF column_u_integer_random_default
<1>4. Provides(column_u_integer_random_from(c), c)
  BY UnboundFlagged, AssignedFlagged, RandomProvides DEF column_u_integer_random_from
<1>5. Provides(column_u_integer_random_upto(c), c)
  BY UnboundFlagged, AssignedFlagged, RandomProvides DEF column_u_integer_random_upto
<1>6. Provides(column_u_integer_random_range(c), c)
  BY UnboundFlagged, AssignedFlagged, RandomProvides DEF column_u_integer_random_range
<1> QED
  BY <1>1, <1>2, <1>3, <1>4, <1>5, <1>6

(* The default string is a unique one whose text is the column's name. *)
LEMMA DefaultString ==
    ASSUME NEW c, "text" \in DOMAIN c
    PROVE  /\ column_string_default(c)
                 = Set("unique", c.grouped, Count(c), {}, "varchar",
                       c.name + uint_digit_count(Count(c)))
           /\ join_string_default(c) = column_string_default(c)
<1>1. PICK d : d = [c EXCEPT !.text = c.name]
  OBVIOUS
<1>2. Count(d) = Count(c) /\ d.grouped = c.grouped /\ d.text = c.name
  BY <1>1 DEF Count
<1>3. column_string_unique(d)
         = Set("unique", c.grouped, Count(c), {}, "varchar", c.name + uint_digit_count(Count(c)))
  BY <1>2 DEF column_string_unique
<1> QED
  BY <1>1, <1>3 DEF column_string_default, join_string_default

(* and those for strings and times. *)
LEMMA StringProvides ==
    ASSUME NEW c, Given(c), "text" \in DOMAIN c
    PROVE  /\ Provides(column_string_default(c), c) /\ Provides(column_string_unique(c), c)
           /\ Provides(column_string_fixed(c), c) /\ Provides(column_string_uuid(c), c)
           /\ Provides(column_string_hash(c), c)
           /\ \A which : Provides(column_string_names(c, which), c)
           /\ Provides(column_timestamp(c), c) /\ Provides(column_datetime(c), c)
<1>1. Provides(column_string_default(c), c)
  BY UniqueProvides, DefaultString
<1>2. Provides(column_string_unique(c), c)
  BY UniqueProvides DEF column_string_unique
<1>3. Provides(column_string_fixed(c), c)
  BY OtherProvides DEF column_string_fixed
<1>4. Provides(column_string_uuid(c), c)
  BY OtherProvides DEF column_string_uuid, Kinds
<1>5. Provides(column_string_hash(c), c)
  BY OtherProvides DEF column_string_hash
<1>6. ASSUME NEW which PROVE Provides(column_string_names(c, which), c)
  BY OtherProvides DEF column_string_names, Kinds
<1>7. Provides(column_timestamp(c), c) /\ Provides(column_datetime(c), c)
  BY OtherProvides DEF column_timestamp, column_datetime
<1> QED
  BY <1>1, <1>2, <1>3, <1>4, <1>5, <1>6, <1>7

(* So whatever set_col_spec points to does. *)
LEMMA SetColProvides ==
    ASSUME NEW c, Given(c), "text" \in DOMAIN c, NEW set
    PROVE  Provides(set_col_spec(c, set), c)
  BY IntegerProvides, UIntegerProvides, StringProvides DEF set_col_spec

(* In a JOIN only the type and the length differ. *)
LEMMA JoinSetProvides ==
    ASSUME NEW c, NEW s, Provides(s, c), s.build # "random", {"type", "length"} \subseteq DOMAIN s,
           NEW type, NEW length
    PROVE  Provides(JoinSet(s, type, length), c)
<1>1. PICK r : r = JoinSet(s, type, length)
  OBVIOUS
<1>2. r.build = s.build /\ r.group = s.group /\ r.upto = s.upto /\ r.flags = s.flags
  BY <1>1 DEF JoinSet
<1>3. CountOf(r, c) = CountOf(s, c)
  BY <1>2 DEF CountOf
<1>4. Drawn(r) = Drawn(s)
  BY <1>2 DEF Drawn
<1> QED
  BY <1>1, <1>2, <1>3, <1>4 DEF Provides

(* The same for the integers of a JOIN. *)
LEMMA JoinIntegerProvides ==
    ASSUME NEW c, Given(c)
    PROVE  /\ Provides(join_integer_unique(c), c) /\ Provides(join_integer_fixed(c), c)
           /\ Provides(join_integer_random_default(c), c)
           /\ Provides(join_integer_random_from(c), c)
           /\ Provides(join_integer_random_upto(c), c)
           /\ Provides(join_integer_random_range(c), c)
           /\ Provides(join_u_integer_unique(c), c) /\ Provides(join_u_integer_fixed(c), c)
           /\ Provides(join_u_integer_random_default(c), c)
           /\ Provides(join_u_integer_random_from(c), c)
           /\ Provides(join_u_integer_random_upto(c), c)
           /\ Provides(join_u_integer_random_range(c), c)
<1>2. Provides(join_integer_unique(c), c)
  <2>1. column_integer_unique(c).build # "random"
        /\ {"type", "length"} \subseteq DOMAIN column_integer_unique(c)
    BY DEF column_integer_unique, Set
  <2> QED
    BY <2>1, IntegerProvides, JoinSetProvides DEF join_integer_unique
<1>3. Provides(join_integer_fixed(c), c)
  <2>1. column_integer_fixed(c).build # "random"
        /\ {"type", "length"} \subseteq DOMAIN column_integer_fixed(c)
    BY DEF column_integer_fixed, Set
  <2> QED
    BY <2>1, IntegerProvides, JoinSetProvides DEF join_integer_fixed
<1>4. Provides(join_integer_random_default(c), c)
  BY UnboundFlagged, RandomProvides DEF join_integer_random_default
<1>5. Provides(join_integer_random_from(c), c)
  BY UnboundFlagged, AssignedFlagged, RandomProvides DEF join_integer_random_from
<1>6. Provides(join_integer_random_upto(c), c)
  BY UnboundFlagged, AssignedFlagged, RandomProvides DEF join_integer_random_upto
<1>7. Provides(join_integer_random_range(c), c)
  BY UnboundFlagged, AssignedFlagged, RandomProvides DEF join_integer_random_range
<1>8. Provides(join_u_integer_unique(c), c)
  <2>1. column_u_integer_unique(c).build # "random"
        /\ {"type", "length"} \subseteq DOMAIN column_u_integer_unique(c)
    BY DEF column_u_integer_unique, Set
  <2> QED
    BY <2>1, UIntegerProvides, JoinSetProvides DEF join_u_integer_unique
<1>9. Provides(join_u_integer_fixed(c), c)
  <2>1. column_u_integer_fixed(c).build # "random"
        /\ {"type", "length"} \subseteq DOMAIN column_u_integer_fixed(c)
    BY DEF column_u_integer_fixed, Set
  <2> QED
    BY <2>1, UIntegerProvides, JoinSetProvides DEF join_u_integer_fixed
<1>10. Provides(join_u_integer_random_default(c), c)
  BY UnboundFlagged, RandomProvides DEF join_u_integer_random_default
<1>11. Provides(join_u_integer_random_from(c), c)
  BY UnboundFlagged, AssignedFlagged, RandomProvides DEF join_u_integer_random_from
<1>12. Provides(join_u_integer_random_upto(c), c)
  BY UnboundFlagged, AssignedFlagged, RandomProvides DEF join_u_integer_random_upto
<1>13. Provides(join_u_integer_random_range(c), c)
  BY UnboundFlagged, AssignedFlagged, RandomProvides DEF join_u_integer_random_range
<1> QED
  BY <1>2, <1>3, <1>4, <1>5, <1>6, <1>7, <1>8, <1>9, <1>10, <1>11, <1>12, <1>13

(* The counter and the generators of a column of a JOIN: only the default  *)
(* string with groups counts further than its counter_upto.                *)
JoinProvides(r, c, set) ==
    /\ r.upto \in Nat /\ r.flags \in SUBSET Kinds /\ CountOf(r, c) \in Nat
    /\ CountOf(r, c) <= r.upto \/ (set = "string_default" /\ c.grouped)
    /\ Drawn(r) \subseteq r.flags

(* And for whatever set_join points to, but for the odd column. *)
LEMMA SetJoinProvides ==
    ASSUME NEW c, Given(c), "text" \in DOMAIN c, NEW set
    PROVE  JoinProvides(set_join(c, set), c, set)
<1>1. ASSUME NEW r, Provides(r, c) PROVE JoinProvides(r, c, set)
  BY <1>1 DEF Provides, JoinProvides
<1>2. CASE set = "string_default" /\ c.grouped
  <2>1. PICK s : s = column_string_default(c)
    OBVIOUS
  <2>2. s = Set("unique", c.grouped, Count(c), {}, "varchar", c.name + uint_digit_count(Count(c)))
    BY <2>1, DefaultString
  <2>3. PICK r : r = [s EXCEPT !.group = FALSE]
    OBVIOUS
  <2>4. /\ r.build = "unique" /\ r.group = FALSE /\ r.upto = Count(c) /\ r.flags = {}
    BY <2>2, <2>3 DEF Set
  <2>5. set_join(c, set) = r
    BY <1>2, <2>1, <2>3 DEF set_join, join_string_default_group, column_string_default
  <2>6. CountOf(r, c) = c.rows /\ Drawn(r) = {}
    BY <2>4 DEF CountOf, Drawn
  <2> QED
    BY <1>2, <2>4, <2>5, <2>6, CountType DEF JoinProvides, Given
<1>3. CASE ~(set = "string_default" /\ c.grouped)
  <2>1. /\ Provides(join_string_default(c), c) /\ Provides(join_string_unique(c), c)
        /\ Provides(join_string_uuid(c), c) /\ Provides(join_string_hash(c), c)
        /\ \A which : Provides(join_string_names(c, which), c)
    BY DefaultString, StringProvides
       DEF join_string_unique, join_string_uuid, join_string_hash, join_string_names
  <2>2. Provides(join_string_fixed(c), c)
    <3>1. column_string_fixed(c).build # "random"
          /\ {"type", "length"} \subseteq DOMAIN column_string_fixed(c)
      BY DEF column_string_fixed, Set
    <3> QED
      BY <3>1, StringProvides, JoinSetProvides DEF join_string_fixed
  <2>3. Provides(join_timestamp(c), c)
    <3>1. column_timestamp(c).build # "random"
          /\ {"type", "length"} \subseteq DOMAIN column_timestamp(c)
      BY DEF column_timestamp, Set
    <3> QED
      BY <3>1, StringProvides, JoinSetProvides DEF join_timestamp
  <2>4. Provides(join_datetime(c), c)
    <3>1. column_datetime(c).build # "random"
          /\ {"type", "length"} \subseteq DOMAIN column_datetime(c)
      BY DEF column_datetime, Set
    <3> QED
      BY <3>1, StringProvides, JoinSetProvides DEF join_datetime
  <2>5. Provides(set_join(c, set), c)
    BY <1>3, <2>1, <2>2, <2>3, <2>4, JoinIntegerProvides DEF set_join
  <2> QED
    BY <1>1, <2>5
<1> QED
  BY <1>2, <1>3

-----------------------------------------------------------------------------
(* The length a JOIN adds holds the longest text of its cells, but for the *)
(* default string with groups.                                             *)
Lengthens(r, c, set) ==
    /\ r.length \in Int /\ LongestText(r, c, set) \in Int
    /\ LongestText(r, c, set) <= r.length \/ (set = "string_default" /\ c.grouped)

Wide(g) == g.width \in Int

(* The numbers of digits of the limits are numbers. *)
LEMMA WidthType ==
    /\ DIGIT_COUNT.INT32_MIN \in Int /\ DIGIT_COUNT.INT64_MIN \in Int
    /\ DIGIT_COUNT.INT64_MAX \in Int /\ DIGIT_COUNT.UINT32_MAX \in Int
    /\ DIGIT_COUNT.UINT64_MAX \in Int
<1>1. PICK a, b \in Nat : a = Half["int"] /\ b = Half["bigint"] /\ a >= 2 /\ 2 * a <= b
  BY WidthsOrdered
<1>2. /\ -IMin("int") = a /\ -IMin("bigint") = b /\ IMax("bigint") = b - 1
      /\ UMax("int") = 2 * a - 1 /\ UMax("bigint") = 2 * b - 1
  BY <1>1 DEF IMin, IMax, UMax, Pow
<1>3. /\ a \in Nat /\ b \in Nat /\ b - 1 \in Nat /\ 2 * a - 1 \in Nat /\ 2 * b - 1 \in Nat
  BY <1>1
<1> QED
  BY <1>2, <1>3, DigitsType, DigitCounts

(* A JOIN's length has room for a bounded generator's values, *)
LEMMA BoundWide ==
    ASSUME NEW type, NEW bits, NEW span, NEW wide, NEW result, NEW offset, NEW width \in Int
    PROVE  /\ Wide(Bound(type, bits, span, wide, result, offset, width))
           /\ Wide(Joined(Bound(type, bits, span, wide, result, offset, width)))
  BY DEF Bound, Joined, Wide

(* for those of one without bound *)
LEMMA UnboundWide == Wide(I32) /\ Wide(I64) /\ Wide(U32) /\ Wide(U64)
  BY WidthType DEF I32, I64, U32, U64, Unbound, Wide

(* and for those of the assign_* functions. *)
LEMMA AssignedWide ==
    ASSUME NEW v, NEW w
    PROVE  /\ Wide(assign_join_integer_random_from(v)) /\ Wide(assign_join_integer_random_upto(v))
           /\ Wide(assign_join_integer_random_range(v, w))
           /\ Wide(assign_join_u_integer_random_from(v))
           /\ Wide(assign_join_u_integer_random_upto(v))
           /\ Wide(assign_join_u_integer_random_range(v, w))
<1>1. /\ DIGIT_COUNT.INT32_MIN + 2 \in Int /\ DIGIT_COUNT.INT64_MIN + 2 \in Int
      /\ DIGIT_COUNT.INT64_MAX + 1 \in Int /\ DIGIT_COUNT.UINT32_MAX + 1 \in Int
      /\ DIGIT_COUNT.UINT64_MAX + 1 \in Int
  BY WidthType
<1>2. Wide(assign_join_integer_random_from(v))
  BY <1>1, BoundWide DEF assign_integer_random_from, assign_join_integer_random_from
<1>3. Wide(assign_join_integer_random_upto(v))
  BY <1>1, BoundWide DEF assign_integer_random_upto, assign_join_integer_random_upto
<1>4. Wide(assign_join_integer_random_range(v, w))
  BY <1>1, BoundWide DEF assign_integer_random_range, assign_join_integer_random_range
<1>5. Wide(assign_join_u_integer_random_from(v))
  BY <1>1, BoundWide DEF assign_u_integer_random_from, assign_join_u_integer_random_from
<1>6. Wide(assign_join_u_integer_random_upto(v))
  BY <1>1, BoundWide DEF assign_u_integer_random_upto, assign_join_u_integer_random_upto
<1>7. Wide(assign_join_u_integer_random_range(v, w))
  BY <1>1, BoundWide DEF assign_u_integer_random_range, assign_join_u_integer_random_range
<1> QED
  BY <1>2, <1>3, <1>4, <1>5, <1>6, <1>7

(* So a random column adds the length of its text, *)
LEMMA RandomLengthens ==
    ASSUME NEW c, NEW g, Wide(g), NEW set
    PROVE  Lengthens(JoinRandom(c, g), c, set)
<1>1. PICK r : r = JoinRandom(c, g)
  OBVIOUS
<1>2. r.build = "random" /\ r.gen = g /\ r.length = g.width - 1
  BY <1>1 DEF JoinRandom, SetRandom
<1>3. LongestText(r, c, set) = g.width - 1
  BY <1>2 DEF LongestText
<1>4. g.width - 1 \in Int /\ g.width - 1 <= g.width - 1
  BY DEF Wide
<1> QED
  BY <1>1, <1>2, <1>3, <1>4 DEF Lengthens

(* whatever its RAND_SPEC. *)
LEMMA JoinRandomLengthens ==
    ASSUME NEW c, NEW set
    PROVE  /\ Lengthens(join_integer_random_default(c), c, set)
           /\ Lengthens(join_integer_random_from(c), c, set)
           /\ Lengthens(join_integer_random_upto(c), c, set)
           /\ Lengthens(join_integer_random_range(c), c, set)
           /\ Lengthens(join_u_integer_random_default(c), c, set)
           /\ Lengthens(join_u_integer_random_from(c), c, set)
           /\ Lengthens(join_u_integer_random_upto(c), c, set)
           /\ Lengthens(join_u_integer_random_range(c), c, set)
<1>1. Lengthens(join_integer_random_default(c), c, set)
  BY UnboundWide, RandomLengthens DEF join_integer_random_default
<1>2. Lengthens(join_integer_random_from(c), c, set)
  BY UnboundWide, AssignedWide, RandomLengthens DEF join_integer_random_from
<1>3. Lengthens(join_integer_random_upto(c), c, set)
  BY UnboundWide, AssignedWide, RandomLengthens DEF join_integer_random_upto
<1>4. Lengthens(join_integer_random_range(c), c, set)
  BY UnboundWide, AssignedWide, RandomLengthens DEF join_integer_random_range
<1>5. Lengthens(join_u_integer_random_default(c), c, set)
  BY UnboundWide, RandomLengthens DEF join_u_integer_random_default
<1>6. Lengthens(join_u_integer_random_from(c), c, set)
  BY UnboundWide, AssignedWide, RandomLengthens DEF join_u_integer_random_from
<1>7. Lengthens(join_u_integer_random_upto(c), c, set)
  BY UnboundWide, AssignedWide, RandomLengthens DEF join_u_integer_random_upto
<1>8. Lengthens(join_u_integer_random_range(c), c, set)
  BY UnboundWide, AssignedWide, RandomLengthens DEF join_u_integer_random_range
<1> QED
  BY <1>1, <1>2, <1>3, <1>4, <1>5, <1>6, <1>7, <1>8

(* Columns that count. *)
LEMMA UniqueLengthens ==
    ASSUME NEW c, Given(c), NEW set, NEW text \in Nat, NEW r,
           r.build = "unique", CountOf(r, c) = Count(c) \/ (set = "string_default" /\ c.grouped),
           text = CASE set = "string_default" -> c.name [] set = "string_unique" -> c.text
                    [] OTHER -> 0,
           r.length = text + uint_digit_count(Count(c)), CountOf(r, c) \in Nat
    PROVE  Lengthens(r, c, set)
<1>1. LongestText(r, c, set) = uint_digit_count(CountOf(r, c)) + text
  BY DEF LongestText
<1>2. PICK m, n \in Nat : m = uint_digit_count(CountOf(r, c)) /\ n = uint_digit_count(Count(c))
  BY DigitsType, CountType
<1>3. m + text \in Int /\ text + n \in Int /\ (m = n => m + text <= text + n)
  OBVIOUS
<1>4. m = n \/ (set = "string_default" /\ c.grouped)
  BY <1>2
<1> QED
  BY <1>1, <1>2, <1>3, <1>4 DEF Lengthens

(* So does a unique column, but for the odd one, *)
LEMMA JoinUniqueLengthens ==
    ASSUME NEW c, Given(c), "text" \in DOMAIN c, NEW set
    PROVE  /\ set \in {"integer_unique", "u_integer_unique", "string_unique"}
                 => Lengthens(set_join(c, set), c, set)
           /\ set = "string_default" => Lengthens(set_join(c, set), c, set)
<1>1. CASE set \in {"integer_unique", "u_integer_unique"}
  <2>1. PICK r : r = set_join(c, set)
    OBVIOUS
  <2>2. r = join_integer_unique(c) \/ r = join_u_integer_unique(c)
    BY <1>1, <2>1 DEF set_join
  <2>3. /\ r.build = "unique" /\ r.group = c.grouped /\ r.length = uint_digit_count(Count(c))
    BY <2>2 DEF join_integer_unique, join_u_integer_unique, column_integer_unique,
                column_u_integer_unique, JoinSet, Set
  <2>4. CountOf(r, c) = Count(c)
    BY <2>3 DEF CountOf, Count
  <2>5. r.length = 0 + uint_digit_count(Count(c)) /\ Count(c) \in Nat
    BY <2>3, CountType, DigitsType
  <2>6. 0 = CASE set = "string_default" -> c.name [] set = "string_unique" -> c.text
              [] OTHER -> 0
    BY <1>1
  <2> QED
    BY <1>1, <2>1, <2>3, <2>4, <2>5, <2>6, UniqueLengthens
<1>2. CASE set = "string_unique"
  <2>1. PICK r : r = set_join(c, set)
    OBVIOUS
  <2>2. r = column_string_unique(c)
    BY <1>2, <2>1 DEF set_join, join_string_unique
  <2>3. /\ r.build = "unique" /\ r.group = c.grouped
        /\ r.length = c.text + uint_digit_count(Count(c))
    BY <2>2 DEF column_string_unique, Set
  <2>4. CountOf(r, c) = Count(c) /\ Count(c) \in Nat
    BY <2>3, CountType DEF CountOf, Count
  <2>5. c.text = CASE set = "string_default" -> c.name [] set = "string_unique" -> c.text
                   [] OTHER -> 0
    BY <1>2
  <2> QED
    BY <1>2, <2>1, <2>3, <2>4, <2>5, UniqueLengthens DEF Given
<1>3. CASE set = "string_default"
  <2>1. PICK r : r = set_join(c, set)
    OBVIOUS
  <2>2. PICK s : s = Set("unique", c.grouped, Count(c), {}, "varchar",
                         c.name + uint_digit_count(Count(c)))
    OBVIOUS
  <2>3. s = column_string_default(c)
    BY <2>2, DefaultString
  <2>4. r = IF c.grouped THEN [s EXCEPT !.group = FALSE] ELSE s
    BY <1>3, <2>1, <2>3, DefaultString
       DEF set_join, join_string_default_group, column_string_default
  <2>5. /\ r.build = "unique" /\ r.length = c.name + uint_digit_count(Count(c))
        /\ r.group = FALSE \/ r.group = c.grouped
        /\ ~c.grouped => r.group = c.grouped
    BY <2>2, <2>4 DEF Set
  <2>6. /\ CountOf(r, c) = Count(c) \/ (set = "string_default" /\ c.grouped)
        /\ CountOf(r, c) \in Nat
    BY <1>3, <2>5 DEF CountOf, Count, Given
  <2>7. c.name = CASE set = "string_default" -> c.name [] set = "string_unique" -> c.text
                   [] OTHER -> 0
    BY <1>3
  <2> QED
    BY <1>3, <2>1, <2>5, <2>6, <2>7, UniqueLengthens DEF Given
<1> QED
  BY <1>1, <1>2, <1>3

(* a fixed one *)
LEMMA FixedLengthens ==
    ASSUME NEW c, Given(c), NEW set,
           set \in NumberSets => Len(c.values) >= 1
    PROVE  /\ set \in NumberSets => Lengthens(set_join(c, set), c, set)
           /\ set = "string_fixed" => Lengthens(set_join(c, set), c, set)
<1>1. CASE set \in {"integer_fixed", "u_integer_fixed"}
  <2>1. PICK r : r = set_join(c, set)
    OBVIOUS
  <2>2. r = join_integer_fixed(c) \/ r = join_u_integer_fixed(c)
    BY <1>1, <2>1 DEF set_join
  <2>3. PICK v : v = c.values[1]
    OBVIOUS
  <2>4. v \in Int
    BY <1>1, <2>3 DEF Given, NumberSets
  <2>5. r.build = "fixed" /\ r.length = Text(v)
    BY <2>2, <2>3 DEF join_integer_fixed, join_u_integer_fixed, column_integer_fixed,
                column_u_integer_fixed, JoinSet, Set
  <2>6. LongestText(r, c, set) = Text(v) - 1
    BY <1>1, <2>3, <2>5 DEF LongestText
  <2>7. Text(v) \in Int /\ Text(v) - 1 \in Int /\ Text(v) - 1 <= Text(v)
    BY <2>4, TextType
  <2> QED
    BY <1>1, <2>1, <2>5, <2>6, <2>7 DEF Lengthens
<1>2. CASE set = "string_hash"
  <2>1. PICK r : r = set_join(c, set)
    OBVIOUS
  <2>2. r = column_string_hash(c)
    BY <1>2, <2>1 DEF set_join, join_string_hash
  <2>3. PICK v : v = c.values[1]
    OBVIOUS
  <2>4. v \in Int /\ v <= v
    BY <1>2, <2>3 DEF Given, NumberSets
  <2>5. r.build = "hash" /\ r.length = v
    BY <2>2, <2>3 DEF column_string_hash, Set
  <2>6. LongestText(r, c, set) = v
    BY <2>3, <2>5 DEF LongestText
  <2> QED
    BY <1>2, <2>1, <2>4, <2>5, <2>6 DEF Lengthens
<1>3. CASE set = "string_fixed"
  <2>1. PICK r : r = set_join(c, set)
    OBVIOUS
  <2>2. r = join_string_fixed(c)
    BY <1>3, <2>1 DEF set_join
  <2>3. r.build = "fixed" /\ r.length = c.text
    BY <2>2 DEF join_string_fixed, column_string_fixed, JoinSet, Set
  <2>4. LongestText(r, c, set) = c.text
    BY <1>3, <2>3 DEF LongestText
  <2>5. c.text \in Int /\ c.text <= c.text
    BY DEF Given
  <2> QED
    BY <1>3, <2>1, <2>3, <2>4, <2>5 DEF Lengthens
<1> QED
  BY <1>1, <1>2, <1>3 DEF NumberSets

(* Names, UUIDs, timestamps and datetimes have lengths of their own. *)
OtherSets == {"string_uuid", "first", "last", "full"}

(* and any of the others: *)
LEMMA OtherLengthens ==
    ASSUME NEW c, NEW set
    PROVE  /\ set \in OtherSets => Lengthens(set_join(c, set), c, set)
           /\ Lengthens(join_timestamp(c), c, set) /\ Lengthens(join_datetime(c), c, set)
<1>1. ASSUME NEW r, NEW n \in Nat, r.length = n, LongestText(r, c, set) = n
      PROVE  Lengthens(r, c, set)
  BY <1>1 DEF Lengthens
<1>2. ASSUME set = "string_uuid" PROVE Lengthens(set_join(c, set), c, set)
  <2>1. set_join(c, set) = column_string_uuid(c)
    BY <1>2 DEF set_join, join_string_uuid
  <2>2. PICK r : r = column_string_uuid(c)
    OBVIOUS
  <2>3. r.build = "uuid" /\ r.length = UUID_STRING_LENGTH
    BY <2>2 DEF column_string_uuid, Set
  <2>4. LongestText(r, c, set) = UUID_STRING_LENGTH /\ UUID_STRING_LENGTH \in Nat
    BY <2>3 DEF LongestText, UUID_STRING_LENGTH
  <2> QED
    BY <1>1, <2>1, <2>2, <2>3, <2>4
<1>3. ASSUME set \in {"first", "last", "full"} PROVE Lengthens(set_join(c, set), c, set)
  <2>1. set_join(c, set) = column_string_names(c, set)
    BY <1>3 DEF set_join, join_string_names
  <2>2. PICK r : r = column_string_names(c, set)
    OBVIOUS
  <2>3. r.build = "names" /\ r.length = NAME_LENGTH_MAX[set]
    BY <2>2 DEF column_string_names, Set
  <2>4. LongestText(r, c, set) = NAME_LENGTH_MAX[set]
    BY <2>3 DEF LongestText
  <2>5. NAME_LENGTH_MAX[set] \in Nat
    BY <1>3 DEF NAME_LENGTH_MAX
  <2> QED
    BY <1>1, <2>1, <2>2, <2>3, <2>4, <2>5
<1>4. ASSUME NEW r, r.build = "time", r.length = LENGTH_TIMESTAMP_STRING
      PROVE  Lengthens(r, c, set)
  <2>1. LongestText(r, c, set) = LENGTH_TIMESTAMP_STRING /\ LENGTH_TIMESTAMP_STRING \in Nat
    BY <1>4 DEF LongestText, LENGTH_TIMESTAMP_STRING
  <2> QED
    BY <1>1, <1>4, <2>1
<1>5. Lengthens(join_timestamp(c), c, set)
  <2>1. PICK r : r = join_timestamp(c)
    OBVIOUS
  <2>2. r.build = "time" /\ r.length = LENGTH_TIMESTAMP_STRING
    BY <2>1 DEF join_timestamp, column_timestamp, JoinSet, Set
  <2> QED
    BY <1>4, <2>1, <2>2
<1>6. Lengthens(join_datetime(c), c, set)
  <2>1. PICK r : r = join_datetime(c)
    OBVIOUS
  <2>2. r.build = "time" /\ r.length = LENGTH_TIMESTAMP_STRING
    BY <2>1 DEF join_datetime, column_datetime, JoinSet, Set
  <2> QED
    BY <1>4, <2>1, <2>2
<1> QED
  BY <1>2, <1>3, <1>5, <1>6 DEF OtherSets

(* whatever set_join points to. *)
LEMMA SetJoinLengthens ==
    ASSUME NEW c, Given(c), "text" \in DOMAIN c, NEW set,
           set \in NumberSets => Len(c.values) >= 1
    PROVE  Lengthens(set_join(c, set), c, set)
<1>1. CASE set \in {"integer_unique", "u_integer_unique", "string_unique", "string_default"}
  BY <1>1, JoinUniqueLengthens
<1>2. CASE set \in NumberSets \union {"string_fixed"}
  BY <1>2, FixedLengthens
<1>3. CASE set \in OtherSets
  BY <1>3, OtherLengthens
<1>4. CASE set \notin {"integer_unique", "u_integer_unique", "string_unique", "string_default",
                       "string_fixed"} \union NumberSets \union OtherSets
  BY <1>4, JoinRandomLengthens, OtherLengthens DEF set_join, NumberSets, OtherSets
<1> QED
  BY <1>1, <1>2, <1>3, <1>4

-----------------------------------------------------------------------------
(* The types of what is counted and built. *)
Built == [count : Nat, draws : SUBSET Kinds, odd : BOOLEAN]
Table == [rows : Nat, cols : Seq(Built)]

Counters == [flags : SUBSET Kinds, rows : Nat, rowsMax : Nat, tables : Nat, columns : Nat,
             upto : Nat]

Joins == [on : BOOLEAN, length : Int, type : {"char", "varchar"}, text : Int, odd : BOOLEAN,
          name : Nat]

(* A JOIN that is being parsed: its length holds its text. *)
JoinHolds(j) == j.odd = TRUE \/ j.text <= j.length

JoinState(j) ==
    DOMAIN j = JoinFields /\ j.on \in BOOLEAN /\ (j.on => j \in Joins /\ JoinHolds(j))

Current(s) == s.tables \in Seq(Table) /\ s.tables # <<>> /\ s.database \in Counters

Stored(s) == s.valid \in Seq(Seq(Table)) /\ s.generator \in Counters

WellTyped(s) == JoinState(s.join) /\ Stored(s) /\ (s.node \in LiveNodes => Current(s))

(* A JOIN starts with no text and no length. *)
LEMMA JoinStartHolds == \A name \in Nat : JoinState(JoinStart(name))
<1> TAKE name \in Nat
<1>1. PICK j : j = JoinStart(name)
  OBVIOUS
<1>2. j \in Joins /\ DOMAIN j = JoinFields
  BY <1>1 DEF JoinStart, Joins, JoinFields
<1>3. j.text = 0 /\ j.length = 0 /\ 0 <= 0 /\ j.on = TRUE
  BY <1>1 DEF JoinStart
<1>4. JoinHolds(j)
  BY <1>3 DEF JoinHolds
<1> QED
  BY <1>1, <1>2, <1>3, <1>4 DEF JoinState

(* What holds of a JOIN holds of a closed one. *)
LEMMA JoinOff ==
    ASSUME NEW j, JoinState(j)
    PROVE  JoinState([j EXCEPT !.on = FALSE])
<1>1. DOMAIN [j EXCEPT !.on = FALSE] = JoinFields
  BY DEF JoinState
<1>2. [j EXCEPT !.on = FALSE].on = FALSE
  BY DEF JoinState, JoinFields
<1> QED
  BY <1>1, <1>2 DEF JoinState

(* The last table of a DB_SPEC. *)
LEMMA LastTable ==
    ASSUME NEW tables \in Seq(Table), tables # <<>>
    PROVE  /\ Len(tables) \in Nat \ {0} /\ Len(tables) \in DOMAIN tables
           /\ tables[Len(tables)] \in Table /\ tables[Len(tables)].rows \in Nat
<1>1. Len(tables) \in Nat /\ Len(tables) # 0
  OBVIOUS
<1>2. tables[Len(tables)] \in Table
  BY <1>1
<1> QED
  BY <1>1, <1>2 DEF Table

(* The function of a column sees the last table. *)
LEMMA ContextGiven ==
    ASSUME NEW s, Entered(s), Current(s), JoinState(s.join)
    PROVE  Given(Context(s)) /\ "text" \in DOMAIN Context(s)
           /\ Context(s).values = s.values /\ Context(s).grouped = s.grouped
<1>1. PICK c : c = Context(s)
  OBVIOUS
<1>2. /\ c.rows = s.tables[Len(s.tables)].rows /\ c.grouped = s.grouped /\ c.grp = s.grp
      /\ c.name = (IF s.join.on THEN s.join.name ELSE s.name)
      /\ c.text = s.text /\ c.values = s.values
      /\ "text" \in DOMAIN c
  BY <1>1 DEF Context
<1>3. c.rows \in Nat
  BY <1>2, LastTable DEF Current
<1>4. s.join.on => s.join.name \in Nat
  BY DEF JoinState, Joins
<1>5. c.name \in Nat
  BY <1>2, <1>4 DEF Entered, Qualified
<1>6. c.grp \in Nat /\ c.text \in Nat /\ c.grouped \in BOOLEAN /\ c.values \in Seq(Int)
  BY <1>2 DEF Entered, Qualified
<1> QED
  BY <1>1, <1>2, <1>3, <1>5, <1>6 DEF Given

Served(added, r) ==
    (added.odd = TRUE \/ added.count <= r.upto) /\ added.draws \subseteq r.flags

(* What the end of a column sets provides for the column. *)
LEMMA SettingProvides ==
    ASSUME NEW s, Entered(s), Current(s), JoinState(s.join), s.node = "close"
    PROVE  /\ Setting(s).upto \in Nat /\ Setting(s).flags \in SUBSET Kinds
           /\ Column(s) \in Built /\ Served(Column(s), Setting(s))
           /\ s.join.on => Lengthens(Setting(s), Context(s), s.set)
<1>1. PICK c, r : c = Context(s) /\ r = Setting(s)
  OBVIOUS
<1>2. Given(c) /\ "text" \in DOMAIN c /\ c.values = s.values /\ c.grouped = s.grouped
  BY <1>1, ContextGiven
<1>3. s.set \in NumberSets => Len(c.values) >= 1
  BY <1>2 DEF Entered, Qualified, SetNodes
<1>4. /\ r.upto \in Nat /\ r.flags \in SUBSET Kinds /\ CountOf(r, c) \in Nat
      /\ CountOf(r, c) <= r.upto \/ Odd(s) = TRUE
      /\ Drawn(r) \subseteq r.flags
  <2>1. CASE s.join.on
    <3>1. JoinProvides(r, c, s.set)
      BY <1>1, <1>2, <2>1, SetJoinProvides DEF Setting
    <3>2. s.set = "string_default" /\ c.grouped => Odd(s) = TRUE
      BY <1>2, <2>1 DEF Odd, JoinState, Entered, Qualified
    <3> QED
      BY <3>1, <3>2 DEF JoinProvides
  <2>2. CASE ~s.join.on
    <3>1. Provides(r, c)
      BY <1>1, <1>2, <2>2, SetColProvides DEF Setting
    <3> QED
      BY <3>1 DEF Provides
  <2> QED
    BY <2>1, <2>2
<1>5. Odd(s) \in BOOLEAN
  BY DEF Odd
<1>6. PICK added : added = Column(s)
  OBVIOUS
<1>7. /\ added = [count |-> CountOf(r, c), draws |-> Drawn(r), odd |-> Odd(s)]
      /\ added.count = CountOf(r, c) /\ added.draws = Drawn(r) /\ added.odd = Odd(s)
  BY <1>1, <1>6 DEF Column
<1>8. added \in Built
  BY <1>4, <1>5, <1>7 DEF Built
<1>9. Served(added, r)
  BY <1>4, <1>7 DEF Served
<1>10. s.join.on => Lengthens(r, c, s.set)
  BY <1>1, <1>2, <1>3, SetJoinLengthens DEF Setting
<1> QED
  BY <1>1, <1>4, <1>6, <1>8, <1>9, <1>10

(* The column joins the last table, its settings the counts, and its       *)
(* lengths those of the JOIN.                                              *)
Put(u, tables, n, added) == u = [tables EXCEPT ![n].cols = Append(@, added)]

SettingAdded(e, d, upto, flags) ==
    e = [d EXCEPT !.upto = Larger(@, upto), !.flags = @ \union flags]

Grown(k, j, r, text, odd) ==
    k = [j EXCEPT !.length = @ + r.length,
                  !.type = IF r.type = "varchar" THEN "varchar" ELSE @,
                  !.text = @ + text, !.odd = @ \/ odd]

(* One element of a sequence is replaced. *)
LEMMA PutSeq ==
    ASSUME NEW S, NEW q \in Seq(S), NEW i \in 1..Len(q), NEW e \in S,
           NEW u, u = [q EXCEPT ![i] = e]
    PROVE  u \in Seq(S) /\ Len(u) = Len(q)
  BY ExceptSeq

(* Adding a column to the last table. *)
LEMMA ColumnPut ==
    ASSUME NEW tables \in Seq(Table), tables # <<>>, NEW added \in Built, NEW n, n = Len(tables),
           NEW u, Put(u, tables, n, added)
    PROVE  /\ u \in Seq(Table) /\ Len(u) = n /\ DOMAIN u = DOMAIN tables /\ u # <<>>
           /\ \A k \in DOMAIN tables : k # n => u[k] = tables[k]
           /\ u[n].rows = tables[n].rows /\ u[n].cols = Append(tables[n].cols, added)
<1>1. n \in Nat \ {0} /\ n \in DOMAIN tables /\ tables[n] \in Table
  BY LastTable
<1>2. PICK w : w = [tables[n] EXCEPT !.cols = Append(@, added)]
  OBVIOUS
<1>3. w \in Table /\ w.rows = tables[n].rows /\ w.cols = Append(tables[n].cols, added)
  <2>1. tables[n].cols \in Seq(Built) /\ tables[n].rows \in Nat
    BY <1>1 DEF Table
  <2>2. Append(tables[n].cols, added) \in Seq(Built)
    BY <2>1
  <2>3. w = [rows |-> tables[n].rows, cols |-> Append(tables[n].cols, added)]
    BY <1>1, <1>2 DEF Table
  <2> QED
    BY <2>1, <2>2, <2>3 DEF Table
<1>4. u = [tables EXCEPT ![n] = w]
  BY <1>1, <1>2 DEF Put
<1>5. /\ DOMAIN u = DOMAIN tables /\ u[n] = w
      /\ \A k \in DOMAIN tables : k # n => u[k] = tables[k]
  BY <1>1, <1>4
<1>6. u \in Seq(Table) /\ Len(u) = Len(tables)
  <2>1. n \in 1..Len(tables) /\ w \in Table
    BY <1>1, <1>3
  <2> QED
    BY <1>4, <2>1, PutSeq
<1>7. Len(u) = n
  BY <1>6
<1>8. u # <<>>
  BY <1>1, <1>7
<1> QED
  BY <1>3, <1>5, <1>6, <1>7, <1>8

(* Adding its setting to the counts of the database. *)
LEMMA SettingCounted ==
    ASSUME NEW d \in Counters, NEW upto \in Nat, NEW flags \in SUBSET Kinds, NEW e,
           SettingAdded(e, d, upto, flags)
    PROVE  /\ e \in Counters /\ e.rows = d.rows /\ e.rowsMax = d.rowsMax
           /\ e.tables = d.tables /\ e.columns = d.columns
           /\ e.upto = Larger(d.upto, upto) /\ e.flags = d.flags \union flags
<1>1. Larger(d.upto, upto) \in Nat
  BY DEF Larger, Counters
<1>2. /\ e.rows = d.rows /\ e.rowsMax = d.rowsMax
      /\ e.tables = d.tables /\ e.columns = d.columns
      /\ e.upto = Larger(d.upto, upto) /\ e.flags = d.flags \union flags
  BY DEF Counters, SettingAdded
<1>3. e \in Counters
  BY <1>1 DEF Counters, SettingAdded
<1> QED
  BY <1>2, <1>3

(* The totals stay totals when a database is added. *)
LEMMA UpdateCounted ==
    ASSUME NEW g \in Counters, NEW d \in Counters
    PROVE  generator_counter_update(g, d) \in Counters
<1>1. Larger(g.rowsMax, d.rowsMax) \in Nat /\ Larger(g.upto, d.upto) \in Nat
  BY DEF Larger, Counters
<1>2. /\ g.rows + d.rows \in Nat /\ g.tables + d.tables \in Nat /\ g.columns + d.columns \in Nat
      /\ g.flags \union d.flags \in SUBSET Kinds
  BY DEF Counters
<1> QED
  BY <1>1, <1>2 DEF generator_counter_update, Counters

(* The column's lengths are added to those of the JOIN. *)
LEMMA JoinGrows ==
    ASSUME NEW j, JoinState(j), NEW r, NEW text, NEW odd \in BOOLEAN, NEW k,
           j.on => r.length \in Int /\ text \in Int,
           j.on /\ odd = FALSE => text <= r.length,
           Grown(k, j, r, text, odd)
    PROVE  JoinState(k)
<1>1. DOMAIN k = JoinFields /\ k.on = j.on /\ k.name = j.name
  BY DEF JoinState, JoinFields, Grown
<1>2. ASSUME j.on PROVE k \in Joins /\ JoinHolds(k)
  <2>1. j \in Joins /\ r.length \in Int /\ text \in Int
    BY <1>2 DEF JoinState
  <2>2. /\ k.length = j.length + r.length /\ k.text = j.text + text
        /\ k.odd = (j.odd \/ odd) /\ k.type \in {"char", "varchar"}
    BY <2>1 DEF Joins, Grown
  <2>3. k = [on |-> j.on, length |-> j.length + r.length, type |-> k.type,
             text |-> j.text + text, odd |-> (j.odd \/ odd), name |-> j.name]
    BY <2>1, <2>2 DEF Joins, Grown
  <2>4. j.length + r.length \in Int /\ j.text + text \in Int
    BY <2>1 DEF Joins
  <2>5. k \in Joins
    BY <2>1, <2>2, <2>3, <2>4 DEF Joins
  <2>6. JoinHolds(k)
    <3>1. CASE j.odd = TRUE \/ odd = TRUE
      BY <2>2, <3>1 DEF JoinHolds
    <3>2. CASE ~(j.odd = TRUE \/ odd = TRUE)
      <4>1. j.text <= j.length /\ text <= r.length
        BY <1>2, <3>2 DEF JoinState, JoinHolds
      <4>2. PICK a, b, c, d \in Int : a = j.text /\ b = j.length /\ c = text /\ d = r.length
        BY <2>1 DEF Joins
      <4>3. a + c <= b + d
        BY <4>1, <4>2
      <4> QED
        BY <2>2, <4>2, <4>3 DEF JoinHolds
    <3> QED
      BY <3>1, <3>2
  <2> QED
    BY <2>5, <2>6
<1>3. k.on \in BOOLEAN
  BY <1>1 DEF JoinState
<1> QED
  BY <1>1, <1>2, <1>3 DEF JoinState

-----------------------------------------------------------------------------
(* The types are kept. *)
LEMMA CurrentBegun ==
    \A n \in Nat : <<NewTable(n)>> \in Seq(Table) /\ database_counter_init(n) \in Counters
<1> TAKE n \in Nat
<1>1. NewTable(n) \in Table
  <2>1. <<>> \in Seq(Built)
    OBVIOUS
  <2> QED
    BY <2>1 DEF NewTable, Table
<1>2. database_counter_init(n) \in Counters
  BY DEF database_counter_init, Counters
<1> QED
  BY <1>1, <1>2

(* Counting a table and counting a column. *)
LEMMA CountedTyped ==
    ASSUME NEW d \in Counters, NEW n \in Nat
    PROVE  /\ Counted(d, n) \in Counters /\ OneMore(d) \in Counters
           /\ Counted(d, n).flags = d.flags /\ Counted(d, n).upto = d.upto
           /\ Counted(d, n).columns = d.columns /\ Counted(d, n).tables = d.tables + 1
           /\ Counted(d, n).rows = d.rows + n /\ Counted(d, n).rowsMax = Larger(d.rowsMax, n)
           /\ OneMore(d).flags = d.flags /\ OneMore(d).upto = d.upto
           /\ OneMore(d).columns = d.columns + 1 /\ OneMore(d).tables = d.tables
           /\ OneMore(d).rows = d.rows /\ OneMore(d).rowsMax = d.rowsMax
<1>1. Larger(d.rowsMax, n) \in Nat
  BY DEF Larger, Counters
<1>2. PICK e : e = Counted(d, n)
  OBVIOUS
<1>3. /\ e.flags = d.flags /\ e.upto = d.upto /\ e.columns = d.columns
      /\ e.tables = d.tables + 1 /\ e.rows = d.rows + n /\ e.rowsMax = Larger(d.rowsMax, n)
      /\ e = [flags |-> d.flags, rows |-> d.rows + n, rowsMax |-> Larger(d.rowsMax, n),
              tables |-> d.tables + 1, columns |-> d.columns, upto |-> d.upto]
  BY <1>2 DEF Counted, Counters
<1>4. e \in Counters
  BY <1>1, <1>3 DEF Counters
<1>5. PICK f : f = OneMore(d)
  OBVIOUS
<1>6. /\ f.flags = d.flags /\ f.upto = d.upto /\ f.columns = d.columns + 1
      /\ f.tables = d.tables /\ f.rows = d.rows /\ f.rowsMax = d.rowsMax
      /\ f = [flags |-> d.flags, rows |-> d.rows, rowsMax |-> d.rowsMax,
              tables |-> d.tables, columns |-> d.columns + 1, upto |-> d.upto]
  BY <1>5 DEF OneMore, Counters
<1>7. f \in Counters
  BY <1>6 DEF Counters
<1> QED
  BY <1>2, <1>3, <1>4, <1>5, <1>6, <1>7

(* A table without columns is added. *)
LEMMA TableAddedTyped ==
    ASSUME NEW tables \in Seq(Table), NEW n \in Nat
    PROVE  Append(tables, NewTable(n)) \in Seq(Table) /\ Append(tables, NewTable(n)) # <<>>
<1>1. NewTable(n) \in Table
  <2>1. <<>> \in Seq(Built)
    OBVIOUS
  <2> QED
    BY <2>1 DEF NewTable, Table
<1> QED
  BY <1>1

(* Every effect leaves tables and counts of their types. *)
LEMMA EffectTyped ==
    ASSUME NEW s, NEW t, Effect(t, s), s.node \in LiveNodes => Current(s)
    PROVE  Current(t)
<1>1. CASE TableBegun(t, s)
  BY <1>1, CurrentBegun DEF TableBegun, Current
<1>2. CASE Passed(t, s)
  BY <1>2 DEF Passed, Current
<1>3. CASE TableAdded(t, s)
  <2>1. Current(s)
    BY <1>3 DEF TableAdded, LiveNodes, LaterNodes
  <2> QED
    BY <1>3, <2>1, TableAddedTyped DEF TableAdded, Current
<1>4. CASE TableCounted(t, s)
  <2>1. Current(s)
    BY <1>4 DEF TableCounted, LiveNodes, LaterNodes
  <2>2. s.tables[Len(s.tables)].rows \in Nat
    BY <2>1, LastTable DEF Current
  <2> QED
    BY <1>4, <2>1, <2>2, CountedTyped DEF TableCounted, Current
<1>5. CASE ColumnCounted(t, s)
  <2>1. Current(s)
    BY <1>5 DEF ColumnCounted, LiveNodes, LaterNodes
  <2>2. OneMore(s.database) \in Counters
    BY <2>1, CountedTyped DEF Current
  <2> QED
    BY <1>5, <2>1, <2>2 DEF ColumnCounted, Current
<1> QED
  BY <1>1, <1>2, <1>3, <1>4, <1>5 DEF Effect

(* So does every function that reads an argument, *)
LEMMA ReadTyped ==
    ASSUME Shape, WellTyped(state), NEW t, NEW r, NEW a, Entering(r, a), Reads(t, r, a)
    PROVE  WellTyped(t)
<1>1. JoinState(state.join) /\ Stored(state) /\ state.name \in Nat
  BY DEF WellTyped, Shape, Entered, Qualified
<1>2. JoinState(t.join)
  BY <1>1, ReadJoin, JoinOff, JoinStartHolds
<1>3. Stored(t)
  <2>1. Keeps(t, state, Moving)
    BY ReadKeeps
  <2>2. t.valid = state.valid /\ t.generator = state.generator
    BY <2>1 DEF Keeps, Fields, Moving, Own
  <2> QED
    BY <1>1, <2>2 DEF Stored
<1>4. ASSUME t.node \in LiveNodes PROVE Current(t)
  BY <1>4, ReadEffect, EffectTyped DEF WellTyped
<1> QED
  BY <1>2, <1>3, <1>4 DEF WellTyped

(* The end of a column. *)
ColumnEnds(t, s, n) ==
    /\ n = Len(s.tables) /\ n \in Nat \ {0} /\ Len(t.tables) = n
    /\ DOMAIN t.tables = DOMAIN s.tables
    /\ \A k \in DOMAIN s.tables : k # n => t.tables[k] = s.tables[k]
    /\ t.tables[n].rows = s.tables[n].rows
    /\ t.tables[n].cols = Append(s.tables[n].cols, Column(s))
    /\ t.database.rows = s.database.rows /\ t.database.rowsMax = s.database.rowsMax
    /\ t.database.tables = s.database.tables /\ t.database.columns = s.database.columns
    /\ t.database.upto = Larger(s.database.upto, Setting(s).upto)
    /\ t.database.flags = s.database.flags \union Setting(s).flags

(* and the end of a column, *)
LEMMA EndedEnds ==
    ASSUME NEW s, Entered(s), WellTyped(s), s.node = "close", NEW t, Ended(t, s)
    PROVE  /\ ColumnEnds(t, s, Len(s.tables))
           /\ t.tables \in Seq(Table) /\ t.tables # <<>> /\ t.database \in Counters
<1>1. Current(s) /\ JoinState(s.join) /\ DOMAIN s = Fields /\ DOMAIN s.join = JoinFields
  BY DEF WellTyped, LiveNodes, JoinState, Entered
<1>2. PICK r, added : r = Setting(s) /\ added = Column(s)
  OBVIOUS
<1>3. r.upto \in Nat /\ r.flags \in SUBSET Kinds /\ added \in Built
  BY <1>1, <1>2, SettingProvides
<1>4. /\ Put(t.tables, s.tables, Len(s.tables), added)
      /\ SettingAdded(t.database, s.database, r.upto, r.flags)
  BY <1>1, <1>2, SetSpecIs DEF Ended, Closed, Put, SettingAdded
<1>5. s.tables \in Seq(Table) /\ s.tables # <<>> /\ s.database \in Counters
  BY <1>1 DEF Current
<1>6. PICK n, u, tables : n = Len(s.tables) /\ tables = s.tables /\ u = t.tables
  OBVIOUS
<1>7. /\ u \in Seq(Table) /\ Len(u) = n /\ DOMAIN u = DOMAIN tables /\ u # <<>>
      /\ \A k \in DOMAIN tables : k # n => u[k] = tables[k]
      /\ u[n].rows = tables[n].rows /\ u[n].cols = Append(tables[n].cols, added)
  BY <1>3, <1>4, <1>5, <1>6, ColumnPut
<1>8. n \in Nat \ {0}
  BY <1>5, <1>6, LastTable
<1>9. PICK d, e : d = s.database /\ e = t.database
  OBVIOUS
<1>10. /\ e \in Counters /\ e.rows = d.rows /\ e.rowsMax = d.rowsMax
       /\ e.tables = d.tables /\ e.columns = d.columns
       /\ e.upto = Larger(d.upto, r.upto) /\ e.flags = d.flags \union r.flags
  <2>1. PICK upto \in Nat, flags \in SUBSET Kinds : upto = r.upto /\ flags = r.flags
    BY <1>3
  <2>2. SettingAdded(e, d, upto, flags) /\ d \in Counters
    BY <1>4, <1>5, <1>9, <2>1
  <2>3. /\ e \in Counters /\ e.rows = d.rows /\ e.rowsMax = d.rowsMax
        /\ e.tables = d.tables /\ e.columns = d.columns
        /\ e.upto = Larger(d.upto, upto) /\ e.flags = d.flags \union flags
    BY <2>2, SettingCounted
  <2> QED
    BY <2>1, <2>3
<1>11. ColumnEnds(t, s, n)
  <2>1. /\ n = Len(s.tables) /\ n \in Nat \ {0} /\ Len(t.tables) = n
        /\ DOMAIN t.tables = DOMAIN s.tables
        /\ \A k \in DOMAIN s.tables : k # n => t.tables[k] = s.tables[k]
        /\ t.tables[n].rows = s.tables[n].rows
        /\ t.tables[n].cols = Append(s.tables[n].cols, Column(s))
    BY <1>2, <1>6, <1>7, <1>8
  <2>2. /\ t.database.rows = s.database.rows /\ t.database.rowsMax = s.database.rowsMax
        /\ t.database.tables = s.database.tables /\ t.database.columns = s.database.columns
        /\ t.database.upto = Larger(s.database.upto, Setting(s).upto)
        /\ t.database.flags = s.database.flags \union Setting(s).flags
    BY <1>2, <1>9, <1>10
  <2> QED
    BY <2>1, <2>2 DEF ColumnEnds
<1> QED
  BY <1>6, <1>7, <1>9, <1>10, <1>11

(* The JOIN, if there is one, has grown by the column. *)
LEMMA JoinHasGrown ==
    ASSUME NEW s, Entered(s), WellTyped(s), s.node = "close"
    PROVE  JoinState(SetSpec(s).join)
<1>1. Current(s) /\ JoinState(s.join) /\ DOMAIN s = Fields /\ DOMAIN s.join = JoinFields
  BY DEF WellTyped, LiveNodes, JoinState, Entered
<1>2. PICK r, c, j, text, odd : r = Setting(s) /\ c = Context(s) /\ j = s.join
                                /\ text = LongestText(r, c, s.set) /\ odd = Odd(s)
  OBVIOUS
<1>3. j.on => Lengthens(r, c, s.set)
  BY <1>1, <1>2, SettingProvides
<1>4. c.grouped = s.grouped
  BY <1>1, <1>2, ContextGiven
<1>5. odd \in BOOLEAN /\ (j.on /\ odd = FALSE => ~(s.set = "string_default" /\ c.grouped))
  <2>1. odd = (j.on /\ s.set = "string_default" /\ c.grouped)
    BY <1>2, <1>4 DEF Odd
  <2> QED
    BY <2>1
<1>6. j.on => r.length \in Int /\ text \in Int
  BY <1>2, <1>3 DEF Lengthens
<1>7. j.on /\ odd = FALSE => text <= r.length
  BY <1>2, <1>3, <1>5 DEF Lengthens
<1>8. Grown(SetSpec(s).join, j, r, text, odd)
  BY <1>1, <1>2, SetSpecIs DEF Grown
<1> QED
  BY <1>1, <1>2, <1>5, <1>6, <1>7, <1>8, JoinGrows

(* after which the state as a whole is well typed. *)
LEMMA EndedTyped ==
    ASSUME NEW s, Entered(s), WellTyped(s), s.node = "close", NEW t, Ended(t, s)
    PROVE  WellTyped(t)
<1>1. t.tables \in Seq(Table) /\ t.tables # <<>> /\ t.database \in Counters
  BY EndedEnds
<1>2. JoinState(t.join)
  BY JoinHasGrown, JoinOff DEF Ended, Closed
<1>3. s.valid \in Seq(Seq(Table)) /\ s.generator \in Counters
  BY DEF WellTyped, Stored
<1>4. Stored(t)
  <2>1. CASE Added(t, s)
    <3>1. t.generator \in Counters
      BY <1>1, <1>3, <2>1, UpdateCounted DEF Added
    <3>2. t.valid \in Seq(Seq(Table))
      BY <1>1, <1>3, <2>1 DEF Added
    <3> QED
      BY <3>1, <3>2 DEF Stored
  <2>2. CASE NotAdded(t, s)
    BY <1>3, <2>2 DEF NotAdded, Stored
  <2> QED
    BY <2>1, <2>2 DEF Ended
<1> QED
  BY <1>1, <1>2, <1>4 DEF WellTyped, Current

(* The other steps. *)
LEMMA QuietTyped ==
    ASSUME NEW s, WellTyped(s), NEW t, NEW changed, Keeps(t, s, changed),
           changed \intersect {"join", "valid", "generator"} = {}, t.node \notin LiveNodes
    PROVE  WellTyped(t)
<1>1. t.join = s.join /\ t.valid = s.valid /\ t.generator = s.generator
  BY DEF Keeps, Fields
<1> QED
  BY <1>1 DEF WellTyped, Stored

QuietNodes == {"done", "error", "exit", "generate", "db_specs", "db_name"}

(* A parser that reports or has ended is in no table. *)
LEMMA QuietApart == QuietNodes \intersect LiveNodes = {}
  BY DEF QuietNodes, LiveNodes, LaterNodes, ColumnNodes

(* Those of reporting, looking for a DB_SPEC and deciding. *)
LEMMA QuietSteps ==
    ASSUME NEW s, NEW t, Reported(t, s) \/ Sought(t, s) \/ Dispatched(t, s) \/ Decided(t, s)
    PROVE  Keeps(t, s, {"node", "from", "spec", "status", "told"}) /\ t.node \in QuietNodes
<1>1. CASE Reported(t, s)
  BY <1>1, KeepsMore DEF Reported, QuietNodes
<1>2. CASE Sought(t, s)
  <2>1. /\ Keeps(t, s, {"from", "node", "spec", "status", "told"})
        /\ t.node \in {"db_name", "done"}
    BY <1>2, NextDbKeepsMore DEF Sought
  <2> QED
    BY <2>1, KeepsMore DEF QuietNodes
<1>3. CASE Dispatched(t, s)
  BY <1>3, KeepsMore DEF Dispatched, QuietNodes
<1>4. CASE Decided(t, s)
  BY <1>4, KeepsMore DEF Decided, QuietNodes
<1> QED
  BY <1>1, <1>2, <1>3, <1>4

-----------------------------------------------------------------------------
(* The place after the steps that read no argument. *)
LEMMA PlaceEnds ==
    ASSUME NEW s, Place(s)
    PROVE  /\ s.node = "close" => AtClose(s)
           /\ s.node = "fail" => Refused(s)
           /\ s.node = "error" => Message(s) /\ s.spec <= s.from /\ s.from <= argc
           /\ s.node = "done" => Stopped(s) /\ (Len(s.valid) > 0 \/ Message(s))
           /\ s.node \in {"exit", "generate"} => Stopped(s)
           /\ s.node = "dispatch" => s.from = -1 /\ s.spec = 0
<1>1. s.node \notin FirstNodes \union LaterNodes \/ AtFirst(s) \/ AtLater(s)
  BY PlaceKinds
<1>2. AtFirst(s) \/ AtLater(s) =>
        s.node \notin {"dispatch", "close", "fail", "error", "done", "exit", "generate"}
  <2>1. AtFirst(s) => s.node \in FirstNodes
    BY DEF AtFirst, FirstNodes
  <2> QED
    BY <2>1, NodesApart DEF AtLater, NodeKinds
<1>3. \/ AtFirst(s) \/ AtLater(s) \/ AtEnd(s)
      \/ s.node = "dispatch" /\ s.from = -1 /\ s.spec = 0
  BY DEF Place
<1> QED
  BY <1>2, <1>3 DEF AtEnd, Message

(* Wherever the parser is, it has read no argument that is not there. *)
LEMMA PlaceFrom ==
    ASSUME NEW s, Place(s)
    PROVE  s.from \in Int /\ s.spec \in Nat /\ NoOverrun(s) /\ Told(s)
  BY DEF Place

(* The place after the end of a column, *)
LEMMA PlaceEnded ==
    ASSUME argc \in Nat, NEW s, Place(s), s.node = "close", s.valid \in Seq(Seq(Table)),
           NEW t, Ended(t, s)
    PROVE  Place(t)
<1>1. s.from \in Int /\ s.spec \in Nat /\ NoOverrun(s) /\ Told(s)
  BY PlaceFrom
<1>2. AtClose(s)
  BY PlaceEnds
<1>3. t.from = s.from /\ t.overrun = s.overrun
  BY DEF Ended, Keeps, Closings, Fields, Own
<1>4. NoOverrun(t)
  BY <1>1, <1>3 DEF NoOverrun
<1>5. s.spec + 7 <= s.from /\ s.from <= argc /\ (s.due = END) = (s.from = argc)
  BY <1>2 DEF AtClose
<1>6. ASSUME t.spec = s.spec, t.status = s.status, t.told = s.told, AtLater(t) \/ AtEnd(t)
      PROVE  Place(t)
  <2>1. Told(t)
    BY <1>1, <1>6 DEF Told
  <2> QED
    BY <1>1, <1>3, <1>4, <1>6, <2>1 DEF Place
<1>7. CASE /\ s.due = END /\ t.node = "done" /\ Added(t, s)
           /\ t.spec = s.spec /\ t.status = s.status /\ t.told = s.told
  <2>1. Len(t.valid) > 0
    <3>1. t.valid = Append(s.valid, t.tables)
      BY <1>7 DEF Added
    <3>2. Len(t.valid) = Len(s.valid) + 1 /\ Len(s.valid) \in Nat
      BY <3>1
    <3> QED
      BY <3>2
  <2>2. Stopped(t)
    BY <1>1, <1>3, <1>5, <1>7 DEF Stopped
  <2> QED
    BY <1>6, <1>7, <2>1, <2>2 DEF AtEnd
<1>8. CASE /\ s.due \in {"+", ColFlag, TblFlag}
           /\ t.node \in {"next_join", "next_col_name", "next_tbl_name"}
           /\ t.spec = s.spec /\ t.status = s.status /\ t.told = s.told
  <2>1. s.due # END
    BY <1>8 DEF END, ColFlag, TblFlag
  <2>2. s.from < argc
    BY <1>1, <1>5, <2>1
  <2>3. AtLater(t)
    BY <1>3, <1>5, <1>8, <2>2 DEF AtLater, LaterNodes
  <2> QED
    BY <1>6, <1>8, <2>3
<1>9. CASE s.due = DbFlag /\ \E p : NextDb(t, p) /\ p.from = s.from /\ p.spec = s.spec
                                    /\ p.status = s.status /\ p.told = s.told
  <2>1. PICK p : NextDb(t, p) /\ p.from = s.from /\ p.spec = s.spec
                 /\ p.status = s.status /\ p.told = s.told
    BY <1>9
  <2>2. Told(p)
    BY <1>1, <2>1 DEF Told
  <2>3. s.due # END
    BY <1>9 DEF END, DbFlag
  <2>4. p.from \in Nat /\ p.from < argc /\ p.spec \in Nat
    BY <1>1, <1>5, <2>1, <2>3
  <2> QED
    BY <1>3, <1>4, <2>1, <2>2, <2>4, NextDbPlace
<1> QED
  BY <1>7, <1>8, <1>9 DEF Ended

(* after a message, *)
LEMMA PlaceReported ==
    ASSUME argc \in Nat, NEW s, Place(s), s.node = "fail", NEW t, Reported(t, s)
    PROVE  Place(t)
<1>1. s.from \in Int /\ s.spec \in Nat /\ NoOverrun(s)
  BY PlaceFrom
<1>2. Refused(s)
  BY PlaceEnds
<1>3. t.spec = s.spec /\ t.overrun = s.overrun
  BY DEF Reported, Keeps, Fields, Own
<1>4. NoOverrun(t)
  BY <1>1, <1>3 DEF NoOverrun
<1>5. PICK q, k, m, stop : q = s.due.quote /\ k = s.due.skip /\ m = s.due.error
                           /\ stop = s.due.stop
  OBVIOUS
<1>6. /\ m \notin {"", "no_db_specs"} /\ stop \in BOOLEAN
      /\ q \in {-1, 0} /\ k \in {0, 1}
      /\ s.spec <= s.from + q /\ s.from + q < argc /\ s.from + k <= argc
      /\ stop => s.from = argc \/ m = "random_range_max_lt_min"
  BY <1>2, <1>5 DEF Refused
<1>7. /\ t.status = "failure" /\ t.from = s.from + k
      /\ t.told.error = m /\ t.told.spec = s.spec /\ t.told.upto = s.from + q
      /\ t.node = IF stop THEN "done" ELSE "error"
  BY <1>5 DEF Reported
<1>8. PICK from \in Int, spec \in Nat, upto \in Nat :
         from = s.from /\ spec = s.spec /\ upto = argc
  BY <1>1
<1>9. /\ spec \in 0..(upto - 1) /\ from + q \in spec..(upto - 1)
      /\ from + k \in Int /\ spec <= from + k /\ from + k <= upto
      /\ from = upto => from + k >= upto
  <2>1. q \in {-1, 0} /\ k \in {0, 1} /\ spec <= from + q /\ from + q < upto /\ from + k <= upto
    BY <1>6, <1>8
  <2> QED
    BY <2>1
<1>10. Told(t)
  BY <1>6, <1>7, <1>8, <1>9 DEF Told
<1>11. AtEnd(t)
  <2>1. CASE stop
    <3>1. Stopped(t)
      BY <1>6, <1>7, <1>8, <1>9, <2>1 DEF Stopped
    <3> QED
      BY <1>6, <1>7, <2>1, <3>1 DEF AtEnd
  <2>2. CASE ~stop
    BY <1>3, <1>6, <1>7, <1>8, <1>9, <2>2 DEF AtEnd
  <2> QED
    BY <2>1, <2>2
<1> QED
  BY <1>1, <1>3, <1>4, <1>7, <1>8, <1>9, <1>10, <1>11 DEF Place

(* after the search for the next DATABASE flag, *)
LEMMA PlaceSought ==
    ASSUME argc \in Nat, NEW s, Place(s), s.node = "error", NEW t, Sought(t, s)
    PROVE  Place(t)
<1>1. s.from \in Int /\ s.spec \in Nat /\ NoOverrun(s) /\ Told(s)
  BY PlaceFrom
<1>2. Message(s) /\ s.spec <= s.from /\ s.from <= argc
  BY PlaceEnds
<1>3. PICK p : /\ Keeps(p, s, {"from"}) /\ NextDb(t, p)
               /\ p.from \in {argc} \union (s.from + 1)..(argc - 1)
  BY DEF Sought
<1>4. /\ Keeps(t, s, {"from", "node", "spec", "status", "told"})
      /\ t.from = p.from /\ p.spec = s.spec /\ p.status = s.status /\ p.told = s.told
  BY <1>3, NextDbKeepsMore
<1>5. NoOverrun(t)
  BY <1>1, <1>4 DEF Keeps, Fields, NoOverrun
<1>6. Told(p) /\ Message(p)
  BY <1>1, <1>2, <1>4 DEF Told, Message
<1>7. p.from \in Nat /\ p.from <= argc
  BY <1>1, <1>2, <1>3
<1> QED
  BY <1>1, <1>3, <1>4, <1>5, <1>6, <1>7, NextDbPlace

(* after generate_dispatch has looked at argc *)
LEMMA PlaceDispatched ==
    ASSUME argc \in Nat, NEW s, Place(s), s.node = "dispatch", NEW t, Dispatched(t, s)
    PROVE  Place(t)
<1>1. NoOverrun(s) /\ Told(s) /\ s.from = -1 /\ s.spec = 0
  BY PlaceFrom, PlaceEnds
<1>2. t.from = s.from /\ t.spec = s.spec /\ t.overrun = s.overrun
  BY DEF Dispatched, Keeps, Fields, Own
<1>3. NoOverrun(t) /\ t.from \in Int /\ t.spec \in Nat
  BY <1>1, <1>2 DEF NoOverrun
<1>4. CASE /\ argc < DB_SPEC_LENGTH_MIN /\ t.node = "exit" /\ t.status = "failure"
           /\ t.told = [error |-> IF argc = 0 THEN "no_db_specs" ELSE "short",
                        spec |-> 0, upto |-> argc - 1]
  <2>1. PICK m : m = IF argc = 0 THEN "no_db_specs" ELSE "short"
    OBVIOUS
  <2>2. t.told.error = m /\ t.told.spec = 0 /\ t.told.upto = argc - 1
    BY <1>4, <2>1
  <2>3. argc # 0 => 0 \in 0..(argc - 1) /\ argc - 1 \in 0..(argc - 1)
    OBVIOUS
  <2>4. m \in {"no_db_specs", "short"} /\ (argc = 0 => m = "no_db_specs")
    BY <2>1
  <2>5. Told(t)
    BY <1>4, <2>2, <2>3, <2>4 DEF Told
  <2>6. AtEnd(t)
    BY <1>4, <2>2, <2>4 DEF AtEnd, Stopped
  <2> QED
    BY <1>3, <2>5, <2>6 DEF Place
<1>5. CASE /\ ~(argc < DB_SPEC_LENGTH_MIN) /\ t.node = "db_specs"
           /\ t.status = s.status /\ t.told = s.told
  <2>1. 8 <= argc
    BY <1>5 DEF DB_SPEC_LENGTH_MIN
  <2>2. AtFirst(t)
    BY <1>1, <1>2, <1>5, <2>1 DEF AtFirst
  <2>3. Told(t)
    BY <1>1, <1>5 DEF Told
  <2> QED
    BY <1>3, <2>2, <2>3 DEF Place
<1> QED
  BY <1>4, <1>5 DEF Dispatched

(* and after parsing. *)
LEMMA PlaceDecided ==
    ASSUME argc \in Nat, NEW s, Place(s), s.node = "done", NEW t, Decided(t, s)
    PROVE  Place(t)
<1>1. s.from \in Int /\ s.spec \in Nat /\ NoOverrun(s) /\ Told(s)
  BY PlaceFrom
<1>2. Stopped(s) /\ (Len(s.valid) > 0 \/ Message(s))
  BY PlaceEnds
<1>3. t.from = s.from /\ t.spec = s.spec /\ t.overrun = s.overrun /\ t.told = s.told
  BY DEF Decided, Keeps, Fields, Own
<1>4. NoOverrun(t) /\ t.from \in Int /\ t.spec \in Nat
  BY <1>1, <1>3 DEF NoOverrun
<1>5. AtEnd(t)
  <2>1. Stopped(t)
    BY <1>2, <1>3 DEF Stopped
  <2> QED
    BY <2>1 DEF AtEnd, Decided
<1>6. Told(t)
  <2>1. CASE Len(s.valid) = 0 /\ t.status = "failure"
    <3>1. ~(Len(s.valid) > 0)
      BY <2>1
    <3>2. Message(t)
      BY <1>2, <1>3, <3>1 DEF Message
    <3> QED
      BY <1>1, <1>3, <2>1, <3>2 DEF Told, Message
  <2>2. CASE t.status = s.status
    BY <1>1, <1>3, <2>2 DEF Told
  <2> QED
    BY <2>1, <2>2 DEF Decided
<1> QED
  BY <1>4, <1>5, <1>6 DEF Place

-----------------------------------------------------------------------------
(* What every step keeps. *)
Parsed == Shape /\ WellTyped(state) /\ Place(state)

(* The number of arguments is a number. *)
LEMMA ArgcType == Shape => argc \in Nat
  BY InputsAssumption DEF Shape, argc

(* The state the parser starts in. *)
LEMMA StartEntered == Entered(ParseStart) /\ WellTyped(ParseStart) /\ Place(ParseStart)
<1>1. PICK s : s = ParseStart
  OBVIOUS
<1>2. DOMAIN s = Fields /\ s.node = "dispatch"
  BY <1>1 DEF ParseStart, Fields, Own
<1>3. /\ s.values = <<>> /\ s.text = 0 /\ s.grp = 0 /\ s.grouped = FALSE /\ s.name = 0
  BY <1>1 DEF ParseStart
<1>4. s.from = -1 /\ s.spec = 0 /\ s.overrun = FALSE
  BY <1>1 DEF ParseStart
<1>5. s.valid = <<>> /\ s.generator = NoCounter
  BY <1>1 DEF ParseStart
<1>6. DOMAIN s.join = JoinFields /\ s.join.on = FALSE
  BY <1>1 DEF ParseStart, JoinFields
<1>7. s.told.error = "" /\ s.status = "success"
  BY <1>1 DEF ParseStart
<1>8. Entered(s)
  <2>1. <<>> \in Seq(Int)
    OBVIOUS
  <2>2. s.node \notin SetNodes
    BY <1>2 DEF SetNodes
  <2>3. s.text \in Nat /\ s.grp \in Nat /\ s.name \in Nat
    BY <1>3
  <2>4. s.values \in Seq(Int) /\ s.grouped \in BOOLEAN
    BY <1>3, <2>1
  <2> QED
    BY <1>2, <2>2, <2>3, <2>4 DEF Entered, Qualified
<1>9. WellTyped(s)
  <2>1. JoinState(s.join)
    BY <1>6 DEF JoinState
  <2>2. <<>> \in Seq(Seq(Table))
    OBVIOUS
  <2>3. NoCounter \in Counters
    BY DEF NoCounter, Counters
  <2>4. s.node \notin LiveNodes
    BY <1>2 DEF LiveNodes, LaterNodes, ColumnNodes
  <2> QED
    BY <1>5, <2>1, <2>2, <2>3, <2>4 DEF WellTyped, Stored
<1>10. Place(s)
  <2>1. Told(s)
    BY <1>7 DEF Told
  <2>2. NoOverrun(s)
    BY <1>4 DEF NoOverrun
  <2>3. s.from \in Int /\ s.spec \in Nat
    BY <1>4
  <2> QED
    BY <1>2, <1>4, <2>1, <2>2, <2>3 DEF Place
<1> QED
  BY <1>1, <1>8, <1>9, <1>10

(* Parsed holds at the start *)
LEMMA ParsedInit == ParseInit => Parsed
  BY StartEntered DEF ParseInit, Parsed, Shape

(* and is kept by every step, *)
LEMMA ParsedStep == Parsed /\ [ParseNext]_parseVars => Parsed'
<1> SUFFICES ASSUME Parsed, [ParseNext]_parseVars PROVE Parsed'
  OBVIOUS
<1>1. /\ Shape /\ WellTyped(state) /\ Place(state) /\ argc \in Nat /\ Entered(state)
      /\ DOMAIN state.join = JoinFields
      /\ state.valid \in Seq(Seq(Table))
  BY ArgcType DEF Parsed, Shape, WellTyped, JoinState, Stored
<1>2. Shape' /\ UNCHANGED input
  BY <1>1, ShapeStep, StepCases
<1>3. ASSUME Reported(state', state) \/ Sought(state', state) \/ Dispatched(state', state)
             \/ Decided(state', state)
      PROVE  WellTyped(state')
  <2>1. Keeps(state', state, {"node", "from", "spec", "status", "told"})
        /\ state'.node \in QuietNodes
    BY <1>3, QuietSteps
  <2>2. state'.node \notin LiveNodes
    BY <2>1, QuietApart
  <2> QED
    BY <1>1, <2>1, <2>2, QuietTyped
<1>4. WellTyped(state') /\ Place(state')
  <2>1. CASE UNCHANGED state
    BY <1>1, <2>1
  <2>2. CASE \E r, a : Entering(r, a) /\ Reads(state', r, a)
    BY <1>1, <2>2, ReadTyped, PlaceRead
  <2>3. CASE state.node = "close" /\ Ended(state', state)
    BY <1>1, <2>3, EndedTyped, PlaceEnded
  <2>4. CASE state.node = "fail" /\ Reported(state', state)
    BY <1>1, <1>3, <2>4, PlaceReported
  <2>5. CASE state.node = "error" /\ Sought(state', state)
    BY <1>1, <1>3, <2>5, PlaceSought
  <2>6. CASE state.node = "dispatch" /\ Dispatched(state', state)
    BY <1>1, <1>3, <2>6, PlaceDispatched
  <2>7. CASE state.node = "done" /\ Decided(state', state)
    BY <1>1, <1>3, <2>7, PlaceDecided
  <2> QED
    BY <1>1, <2>1, <2>2, <2>3, <2>4, <2>5, <2>6, <2>7, StepCases
<1>5. (WellTyped(state) /\ Place(state))'
  BY <1>2, <1>4 DEF WellTyped, Stored, Current, Place, Told, AtFirst, AtLater, AtEnd, AtClose,
                    Refused, Stopped, Within, NoOverrun, argc
<1> QED
  BY <1>2, <1>5 DEF Parsed

(* so it always holds. *)
LEMMA AlwaysParsed == ParseSpec => []Parsed
<1>1. ParseInit => Parsed
  BY ParsedInit
<1>2. Parsed /\ [ParseNext]_parseVars => Parsed'
  BY ParsedStep
<1> QED
  BY <1>1, <1>2, PTL DEF ParseSpec

(* The functions that do not ask whether there is an argument are entered  *)
(* only when there is one, and what the messages quote exists.             *)
THEOREM ReadArgumentsExist == ParseSpec => []ArgsExist
<1>1. Parsed => ArgsExist
  <2> SUFFICES ASSUME Parsed PROVE ArgsExist
    OBVIOUS
  <2>1. NoOverrun(state) /\ Told(state)
    BY PlaceFrom DEF Parsed
  <2> QED
    BY <2>1 DEF NoOverrun, Told, ArgsExist
<1> QED
  BY <1>1, AlwaysParsed, PTL

(* The parser gives up only at the end, at a DB_SPEC that is too short or  *)
(* at a range in the wrong order, and it fails when it has told why.       *)
THEOREM EveryArgumentParsed == ParseSpec => []ParsedToTheEnd
<1>1. Parsed => ParsedToTheEnd
  <2> SUFFICES ASSUME Parsed, state.node \in {"exit", "generate"} PROVE ParsedToTheEnd
    BY DEF ParsedToTheEnd
  <2>1. Stopped(state) /\ Told(state)
    BY PlaceFrom, PlaceEnds DEF Parsed
  <2> QED
    BY <2>1 DEF Stopped, Told, ParsedToTheEnd
<1> QED
  BY <1>1, AlwaysParsed, PTL

-----------------------------------------------------------------------------
(* What holds of the columns that have been declared and of those that are *)
(* to be built, whatever the place.                                        *)
Declares(d) ==
    /\ d.odd \/ d.text <= d.length
    /\ d.type = "char" => d.length <= CHAR_LENGTH_MAX

(* A JOIN with room for its texts is declared with room for them. *)
LEMMA JoinDeclares ==
    ASSUME NEW j \in Joins, JoinHolds(j), NEW d,
           d = [length |-> j.length, text |-> j.text, odd |-> j.odd,
                type |-> IF j.length > CHAR_LENGTH_MAX THEN "varchar" ELSE j.type]
    PROVE  Declares(d)
<1>1. PICK length \in Int, text \in Int, odd \in BOOLEAN :
         length = j.length /\ text = j.text /\ odd = j.odd
  BY DEF Joins
<1>2. PICK type : type = IF length > CHAR_LENGTH_MAX THEN "varchar" ELSE j.type
  OBVIOUS
<1>3. d = [length |-> length, text |-> text, odd |-> odd, type |-> type]
  BY <1>1, <1>2
<1>4. d.length = length /\ d.text = text /\ d.odd = odd /\ d.type = type
  BY <1>3
<1>5. odd \/ text <= length
  BY <1>1 DEF JoinHolds
<1>6. type = "char" => ~(length > CHAR_LENGTH_MAX)
  BY <1>2
<1>7. ~(length > CHAR_LENGTH_MAX) => length <= CHAR_LENGTH_MAX
  BY LengthAssumption
<1> QED
  BY <1>4, <1>5, <1>6, <1>7 DEF Declares

(* So the declarations made at the end of a column have room. *)
LEMMA EndedDeclares ==
    ASSUME NEW s, Entered(s), WellTyped(s), s.node = "close", NEW t, Ended(t, s),
           \A d \in s.declared : Declares(d)
    PROVE  \A d \in t.declared : Declares(d)
<1>1. JoinState(SetSpec(s).join)
  BY JoinHasGrown
<1>2. PICK u : u = SetSpec(s)
  OBVIOUS
<1>3. CASE t.declared = s.declared
  BY <1>3
<1>4. CASE s.join.on /\ t.declared = join_spec_state_close(u).declared
  <2>1. DOMAIN s = Fields /\ DOMAIN s.join = JoinFields
    BY DEF Entered, WellTyped, JoinState
  <2>2. DOMAIN u = Fields /\ u.declared = s.declared /\ u.join.on = s.join.on
    <3>1. /\ Keeps(u, s, {"tables", "database", "join", "grouped", "values", "text"})
          /\ u.join.on = s.join.on
      BY <1>2, <2>1, SetSpecKeeps
    <3> QED
      BY <3>1 DEF Keeps, Fields
  <2>3. u.join \in Joins /\ JoinHolds(u.join)
    BY <1>1, <1>2, <1>4, <2>2 DEF JoinState
  <2>4. PICK d : d = [length |-> u.join.length, text |-> u.join.text, odd |-> u.join.odd,
                      type |-> IF u.join.length > CHAR_LENGTH_MAX THEN "varchar"
                               ELSE u.join.type]
    OBVIOUS
  <2>5. Declares(d)
    BY <2>3, <2>4, JoinDeclares
  <2>6. join_spec_state_close(u).declared = u.declared \union {d}
    BY <2>2, <2>4 DEF join_spec_state_close, Fields
  <2> QED
    BY <1>4, <2>2, <2>5, <2>6
<1> QED
  BY <1>2, <1>3, <1>4 DEF Ended, Closed

-----------------------------------------------------------------------------
Supplies(r, d) == d.upto <= r.upto /\ d.flags \subseteq r.flags

(* A counter with more in it serves whom it served before, *)
LEMMA ServedMore ==
    ASSUME NEW added \in Built, NEW d, NEW r, d.upto \in Nat, r.upto \in Nat,
           Served(added, d), Supplies(r, d)
    PROVE  Served(added, r)
<1>1. PICK count \in Nat, few \in Nat, many \in Nat :
         count = added.count /\ few = d.upto /\ many = r.upto
  BY DEF Built
<1>2. few <= many
  BY <1>1 DEF Supplies
<1>3. count <= few => count <= many
  BY <1>2
<1>4. added.draws \subseteq r.flags
  BY DEF Served, Supplies
<1> QED
  BY <1>1, <1>3, <1>4 DEF Served

TableServed(table, r) == \A i \in DOMAIN table.cols : Served(table.cols[i], r)
TablesServed(tables, r) == \A k \in DOMAIN tables : TableServed(tables[k], r)

(* so the totals serve whom a database's counts did. *)
LEMMA TablesServedMore ==
    ASSUME NEW tables \in Seq(Table), NEW d, NEW r, d.upto \in Nat, r.upto \in Nat,
           TablesServed(tables, d), Supplies(r, d)
    PROVE  TablesServed(tables, r)
<1> SUFFICES ASSUME NEW k \in DOMAIN tables, NEW i \in DOMAIN tables[k].cols
             PROVE  Served(tables[k].cols[i], r)
  BY DEF TablesServed, TableServed
<1>1. tables[k].cols \in Seq(Built)
  <2>1. tables[k] \in Table
    OBVIOUS
  <2> QED
    BY <2>1 DEF Table
<1>2. tables[k].cols[i] \in Built
  BY <1>1
<1>3. Served(tables[k].cols[i], d)
  BY DEF TablesServed, TableServed
<1> QED
  BY <1>2, <1>3, ServedMore

(* The larger of two counts supplies what either does. *)
LEMMA LargerSupplies ==
    ASSUME NEW m \in Nat, NEW n \in Nat
    PROVE  Larger(m, n) \in Nat /\ m <= Larger(m, n) /\ n <= Larger(m, n)
  BY DEF Larger

(* An effect leaves the columns served, *)
LEMMA EffectServed ==
    ASSUME NEW s, NEW t, Effect(t, s),
           s.node \in LiveNodes => Current(s) /\ TablesServed(s.tables, s.database)
    PROVE  TablesServed(t.tables, t.database)
<1>1. CASE TableBegun(t, s)
  <2>1. PICK n \in Nat : t.tables = <<NewTable(n)>>
    BY <1>1 DEF TableBegun
  <2>2. DOMAIN t.tables = {1} /\ t.tables[1].cols = <<>>
    BY <2>1 DEF NewTable
  <2>3. DOMAIN <<>> = {}
    OBVIOUS
  <2> QED
    BY <2>2, <2>3 DEF TablesServed, TableServed
<1>2. CASE Passed(t, s)
  BY <1>2 DEF Passed
<1>3. CASE TableAdded(t, s)
  <2>1. s.tables \in Seq(Table) /\ TablesServed(s.tables, s.database)
    BY <1>3 DEF TableAdded, LiveNodes, LaterNodes, Current
  <2>2. PICK n \in Nat : t.tables = Append(s.tables, NewTable(n)) /\ t.database = s.database
    BY <1>3 DEF TableAdded
  <2>3. PICK m : m = Len(s.tables)
    OBVIOUS
  <2>4. PICK new : new = NewTable(n)
    OBVIOUS
  <2>5. /\ DOMAIN t.tables = 1..(m + 1) /\ DOMAIN s.tables = 1..m /\ m \in Nat
        /\ \A k \in 1..m : t.tables[k] = s.tables[k]
        /\ t.tables[m + 1] = new
    BY <2>1, <2>2, <2>3, <2>4
  <2>6. DOMAIN new.cols = {}
    BY <2>4 DEF NewTable
  <2>7. ASSUME NEW k \in DOMAIN t.tables PROVE TableServed(t.tables[k], t.database)
    <3>1. k \in 1..m \/ k = m + 1
      BY <2>5
    <3> QED
      BY <2>1, <2>2, <2>5, <2>6, <3>1 DEF TablesServed, TableServed
  <2> QED
    BY <2>7 DEF TablesServed
<1>4. CASE TableCounted(t, s) \/ ColumnCounted(t, s)
  <2>1. Current(s) /\ TablesServed(s.tables, s.database) /\ t.tables = s.tables
    BY <1>4 DEF TableCounted, ColumnCounted, LiveNodes, LaterNodes
  <2>2. s.tables[Len(s.tables)].rows \in Nat /\ s.database \in Counters
    BY <2>1, LastTable DEF Current
  <2>3. t.database.upto = s.database.upto /\ t.database.flags = s.database.flags
    <3>1. CASE t.database = OneMore(s.database)
      BY <2>2, <3>1, CountedTyped
    <3>2. CASE t.database = Counted(s.database, s.tables[Len(s.tables)].rows)
      <4>1. PICK n \in Nat, d \in Counters :
               n = s.tables[Len(s.tables)].rows /\ d = s.database
        BY <2>2
      <4>2. Counted(d, n).upto = d.upto /\ Counted(d, n).flags = d.flags
        BY CountedTyped
      <4> QED
        BY <3>2, <4>1, <4>2
    <3> QED
      BY <1>4, <3>1, <3>2 DEF TableCounted, ColumnCounted
  <2> QED
    BY <2>1, <2>3 DEF TablesServed, TableServed, Served
<1> QED
  BY <1>1, <1>2, <1>3, <1>4 DEF Effect

(* the end of a column adds one that is, *)
LEMMA EndedServed ==
    ASSUME NEW s, Entered(s), WellTyped(s), s.node = "close", NEW t, Ended(t, s),
           TablesServed(s.tables, s.database)
    PROVE  TablesServed(t.tables, t.database)
<1>1. PICK n : ColumnEnds(t, s, n)
  BY EndedEnds
<1>2. Current(s) /\ JoinState(s.join)
  BY DEF WellTyped, LiveNodes
<1>3. PICK r, added, d, e : r = Setting(s) /\ added = Column(s) /\ d = s.database
                          /\ e = t.database
  OBVIOUS
<1>4. /\ r.upto \in Nat /\ r.flags \in SUBSET Kinds
      /\ added \in Built /\ Served(added, r)
  BY <1>2, <1>3, SettingProvides
<1>5. d.upto \in Nat
  BY <1>2, <1>3 DEF Current, Counters
<1>6. e.upto = Larger(d.upto, r.upto) /\ e.flags = d.flags \union r.flags
  BY <1>1, <1>3 DEF ColumnEnds
<1>7. e.upto \in Nat /\ Supplies(e, d) /\ Supplies(e, r)
  <2>1. e.upto \in Nat /\ d.upto <= e.upto /\ r.upto <= e.upto
    BY <1>4, <1>5, <1>6, LargerSupplies
  <2> QED
    BY <1>6, <2>1 DEF Supplies
<1>8. Served(added, e)
  BY <1>4, <1>7, ServedMore
<1>9. s.tables \in Seq(Table) /\ TablesServed(s.tables, e)
  BY <1>2, <1>3, <1>5, <1>7, TablesServedMore DEF Current
<1>10. ASSUME NEW k \in DOMAIN t.tables PROVE TableServed(t.tables[k], e)
  <2>1. k \in DOMAIN s.tables
    BY <1>1 DEF ColumnEnds
  <2>2. CASE k # n
    BY <1>1, <1>9, <2>1, <2>2 DEF ColumnEnds, TablesServed, TableServed
  <2>3. CASE k = n
    <3>1. PICK old, new : old = s.tables[n].cols /\ new = t.tables[n].cols
      OBVIOUS
    <3>2. new = Append(old, added)
      BY <1>1, <1>3, <3>1 DEF ColumnEnds
    <3>3. old \in Seq(Built)
      <4>1. s.tables[n] \in Table
        BY <1>9, <2>1, <2>3
      <4> QED
        BY <3>1, <4>1 DEF Table
    <3>4. \A i \in DOMAIN old : Served(old[i], e)
      BY <1>9, <2>1, <2>3, <3>1 DEF TablesServed, TableServed
    <3>5. ASSUME NEW i \in DOMAIN new PROVE Served(new[i], e)
      <4>1. \/ i \in DOMAIN old /\ new[i] = old[i]
            \/ new[i] = added
        BY <3>2, <3>3
      <4> QED
        BY <1>8, <3>4, <4>1
    <3> QED
      BY <2>3, <3>1, <3>5 DEF TableServed
  <2> QED
    BY <2>2, <2>3
<1> QED
  BY <1>3, <1>10 DEF TablesServed

(* The totals cover every valid database. *)
ValidServed(valid, g) == \A i \in DOMAIN valid : TablesServed(valid[i], g)

(* and adding a database serves its columns and those before. *)
LEMMA UpdateServes ==
    ASSUME NEW valid \in Seq(Seq(Table)), NEW g \in Counters, ValidServed(valid, g),
           NEW tables \in Seq(Table), NEW d \in Counters, TablesServed(tables, d)
    PROVE  ValidServed(Append(valid, tables), generator_counter_update(g, d))
<1>1. PICK h : h = generator_counter_update(g, d)
  OBVIOUS
<1>2. h.upto = Larger(g.upto, d.upto) /\ h.flags = g.flags \union d.flags
  BY <1>1 DEF generator_counter_update
<1>3. g.upto \in Nat /\ d.upto \in Nat
  BY DEF Counters
<1>4. h.upto \in Nat /\ Supplies(h, g) /\ Supplies(h, d)
  <2>1. h.upto \in Nat /\ g.upto <= h.upto /\ d.upto <= h.upto
    BY <1>2, <1>3, LargerSupplies
  <2> QED
    BY <1>2, <2>1 DEF Supplies
<1>5. PICK w : w = Append(valid, tables)
  OBVIOUS
<1>6. ASSUME NEW i \in DOMAIN w PROVE TablesServed(w[i], h)
  <2>1. \/ i \in DOMAIN valid /\ w[i] = valid[i]
        \/ w[i] = tables
    BY <1>5
  <2>2. CASE i \in DOMAIN valid /\ w[i] = valid[i]
    <3>1. valid[i] \in Seq(Table) /\ TablesServed(valid[i], g)
      BY <2>2 DEF ValidServed
    <3> QED
      BY <1>3, <1>4, <2>2, <3>1, TablesServedMore
  <2>3. CASE w[i] = tables
    BY <1>3, <1>4, <2>3, TablesServedMore
  <2> QED
    BY <2>1, <2>2, <2>3
<1> QED
  BY <1>1, <1>5, <1>6 DEF ValidServed

(* The columns of a database that is being parsed are served by its        *)
(* counter, those of the valid ones by the generator's.                    *)
Provided(s) ==
    /\ \A d \in s.declared : Declares(d)
    /\ s.node \in LiveNodes => TablesServed(s.tables, s.database)
    /\ ValidServed(s.valid, s.generator)

(* Provided is kept by every step, *)
LEMMA ProvidedStep ==
    ASSUME Parsed, Provided(state), [ParseNext]_parseVars
    PROVE  Provided(state')
<1>1. /\ Shape /\ WellTyped(state) /\ Place(state) /\ Entered(state)
      /\ DOMAIN state.join = JoinFields
  BY DEF Parsed, Shape, WellTyped, JoinState
<1>2. CASE UNCHANGED state
  BY <1>2
<1>3. CASE \E r, a : Entering(r, a) /\ Reads(state', r, a)
  <2>1. PICK r, a : Entering(r, a) /\ Reads(state', r, a)
    BY <1>3
  <2>2. PICK t : t = state'
    OBVIOUS
  <2>3. Keeps(t, state, Moving)
    BY <2>1, <2>2, ReadKeeps
  <2>4. t.declared = state.declared /\ t.valid = state.valid /\ t.generator = state.generator
    BY <2>3 DEF Keeps, Fields, Moving, Own
  <2>5. ASSUME t.node \in LiveNodes PROVE TablesServed(t.tables, t.database)
    <3>1. Effect(t, state)
      BY <1>1, <2>1, <2>2, <2>5, ReadEffect
    <3>2. state.node \in LiveNodes => Current(state) /\ TablesServed(state.tables, state.database)
      BY <1>1 DEF WellTyped, Provided
    <3> QED
      BY <3>1, <3>2, EffectServed
  <2> QED
    BY <2>2, <2>4, <2>5 DEF Provided
<1>4. CASE state.node = "close" /\ Ended(state', state)
  <2>1. PICK t : t = state'
    OBVIOUS
  <2>2. Ended(t, state)
    BY <1>4, <2>1
  <2>3. state.node \in LiveNodes
    BY <1>4 DEF LiveNodes
  <2>4. TablesServed(t.tables, t.database)
    BY <1>1, <1>4, <2>2, <2>3, EndedServed DEF Provided
  <2>5. \A d \in t.declared : Declares(d)
    BY <1>1, <1>4, <2>2, EndedDeclares DEF Provided
  <2>6. ValidServed(t.valid, t.generator)
    <3>1. t.tables \in Seq(Table) /\ t.database \in Counters
      BY <1>1, <1>4, <2>2, EndedEnds
    <3>2. state.valid \in Seq(Seq(Table)) /\ state.generator \in Counters
      BY <1>1 DEF WellTyped, Stored
    <3>3. CASE Added(t, state)
      BY <2>4, <3>1, <3>2, <3>3, UpdateServes DEF Added, Provided
    <3>4. CASE NotAdded(t, state)
      BY <3>4 DEF NotAdded, Provided
    <3> QED
      BY <2>2, <3>3, <3>4 DEF Ended
  <2> QED
    BY <2>1, <2>4, <2>5, <2>6 DEF Provided
<1>5. CASE \/ Reported(state', state) \/ Sought(state', state) \/ Dispatched(state', state)
           \/ Decided(state', state)
  <2>1. PICK t : t = state'
    OBVIOUS
  <2>2. Keeps(t, state, {"node", "from", "spec", "status", "told"}) /\ t.node \in QuietNodes
    BY <1>5, <2>1, QuietSteps
  <2>3. t.declared = state.declared /\ t.valid = state.valid /\ t.generator = state.generator
    BY <2>2 DEF Keeps, Fields
  <2>4. t.node \notin LiveNodes
    BY <2>2, QuietApart
  <2> QED
    BY <2>1, <2>3, <2>4 DEF Provided
<1> QED
  BY <1>1, <1>2, <1>3, <1>4, <1>5, StepCases

(* so it always holds. *)
LEMMA AlwaysProvided == ParseSpec => [](Parsed /\ Provided(state))
<1>1. ParseInit => Parsed /\ Provided(state)
  <2> SUFFICES ASSUME ParseInit PROVE Parsed /\ Provided(state)
    OBVIOUS
  <2>1. state.declared = {} /\ state.valid = <<>> /\ state.node = "dispatch"
    BY DEF ParseInit, ParseStart
  <2>2. DOMAIN state.valid = {}
    BY <2>1
  <2>3. "dispatch" \notin LiveNodes
    BY DEF LiveNodes, LaterNodes, ColumnNodes
  <2> QED
    BY <2>1, <2>2, <2>3, ParsedInit DEF Provided, ValidServed
<1>2. Parsed /\ Provided(state) /\ [ParseNext]_parseVars => (Parsed /\ Provided(state))'
  <2> SUFFICES ASSUME Parsed, Provided(state), [ParseNext]_parseVars
               PROVE  Parsed' /\ Provided(state)'
    OBVIOUS
  <2>1. Provided(state')
    BY ProvidedStep
  <2>2. Provided(state)'
    BY <2>1 DEF Provided, ValidServed, TablesServed, TableServed, Served
  <2> QED
    BY <2>2, ParsedStep
<1> QED
  BY <1>1, <1>2, PTL DEF ParseSpec

(* The declared length of every joined column holds the joined text, and   *)
(* none is declared as a CHAR longer than MySQL's.                         *)
THEOREM JoinsDeclared == ParseSpec => []JoinDeclared
<1>1. Provided(state) => JoinDeclared
  BY DEF Provided, Declares, JoinDeclared
<1> QED
  BY <1>1, AlwaysProvided, PTL

(* counter_upto and ctor_flags of the generator cover what every column of *)
(* every valid database counts and draws.                                  *)
THEOREM EveryColumnProvided == ParseSpec => []ColumnsProvided
<1>1. Parsed /\ Provided(state) => ColumnsProvided
  <2> SUFFICES ASSUME Parsed, Provided(state), NEW c \in Generated
               PROVE  /\ c.odd \/ c.count <= state.generator.upto
                      /\ c.draws \subseteq state.generator.flags
    BY DEF ColumnsProvided
  <2>1. PICK i \in DOMAIN state.valid : c \in Columns(state.valid[i])
    BY DEF Generated
  <2>2. PICK tables : tables = state.valid[i]
    OBVIOUS
  <2>3. PICK k \in DOMAIN tables : \E j \in DOMAIN tables[k].cols : c = tables[k].cols[j]
    BY <2>1, <2>2 DEF Columns
  <2>4. TablesServed(tables, state.generator)
    BY <2>2 DEF Provided, ValidServed
  <2>5. Served(c, state.generator)
    BY <2>3, <2>4 DEF TablesServed, TableServed
  <2> QED
    BY <2>5 DEF Served
<1> QED
  BY <1>1, AlwaysProvided, PTL

-----------------------------------------------------------------------------
(* Totals over the elements of a sequence. *)
Numbered(f, n) == DOMAIN f = 1..n /\ \A k \in 1..n : f[k] \in Nat

(* A total of numbers is a number. *)
LEMMA TotalType ==
    ASSUME NEW n \in Nat, NEW f, Numbered(f, n)
    PROVE  Total(f) = Sum(f, 1..n) /\ Total(f) \in Nat
<1>1. DOMAIN f = 1..n /\ IsFiniteSet(1..n) /\ \A k \in 1..n : f[k] \in Nat
  BY FS_Interval DEF Numbered
<1>2. Sum(f, 1..n) \in Nat
  BY <1>1, SumType
<1>3. Total(f) = Sum(f, 1..n)
  BY <1>1 DEF Total, Sum
<1> QED
  BY <1>2, <1>3

(* A total of nothing, *)
LEMMA TotalNone ==
    ASSUME NEW f, DOMAIN f = {}
    PROVE  Total(f) = 0
  BY SumEmpty DEF Total, Sum

(* of one more *)
LEMMA TotalAppend ==
    ASSUME NEW n \in Nat, NEW f, NEW g, Numbered(f, n), Numbered(g, n + 1),
           \A k \in 1..n : g[k] = f[k]
    PROVE  Total(g) = Total(f) + g[n + 1]
<1>1. Total(f) = Sum(f, 1..n) /\ Total(g) = Sum(g, 1 .. n + 1)
  BY TotalType
<1>2. \A k \in 1 .. n + 1 : g[k] \in Int
  BY DEF Numbered
<1>3. Sum(g, 1 .. n + 1) = Sum(g, 1 .. n + 1 - 1) + g[n + 1]
  <2>1. PICK b \in Int : b = n + 1
    OBVIOUS
  <2>2. 1 <= b /\ \A k \in 1..b : g[k] \in Int
    BY <1>2, <2>1
  <2>3. Sum(g, 1..b) = Sum(g, 1 .. b - 1) + g[b]
    BY <2>2, SumInterval
  <2> QED
    BY <2>1, <2>3
<1>4. 1 .. n + 1 - 1 = 1..n
  OBVIOUS
<1>5. Sum(f, 1..n) = Sum(g, 1..n)
  <2>1. IsFiniteSet(1..n)
    BY FS_Interval
  <2>2. \A k \in 1..n : f[k] = g[k] /\ f[k] \in Int
    BY DEF Numbered
  <2> QED
    BY <2>1, <2>2, SumSame
<1> QED
  BY <1>1, <1>3, <1>4, <1>5

(* and of the same with one of them changed. *)
LEMMA TotalPut ==
    ASSUME NEW n \in Nat, NEW f, NEW g, Numbered(f, n), Numbered(g, n), NEW e \in 1..n,
           \A k \in 1..n : k # e => g[k] = f[k]
    PROVE  Total(g) - g[e] = Total(f) - f[e]
<1>1. Total(f) = Sum(f, 1..n) /\ Total(g) = Sum(g, 1..n)
  BY TotalType
<1>2. IsFiniteSet(1..n) /\ IsFiniteSet((1..n) \ {e})
  <2>1. IsFiniteSet(1..n)
    BY FS_Interval
  <2>2. (1..n) \ {e} \in SUBSET (1..n)
    OBVIOUS
  <2> QED
    BY <2>1, <2>2, FS_Subset
<1>3. \A k \in 1..n : f[k] \in Int /\ g[k] \in Int
  BY DEF Numbered
<1>4. /\ Sum(f, 1..n) = f[e] + Sum(f, (1..n) \ {e})
      /\ Sum(g, 1..n) = g[e] + Sum(g, (1..n) \ {e})
  BY <1>2, <1>3, SumRemove
<1>5. Sum(f, (1..n) \ {e}) = Sum(g, (1..n) \ {e})
  <2>1. \A k \in (1..n) \ {e} : f[k] = g[k] /\ f[k] \in Int
    BY <1>3
  <2> QED
    BY <1>2, <2>1, SumSame
<1>6. Sum(f, (1..n) \ {e}) \in Int
  <2>1. \A k \in (1..n) \ {e} : f[k] \in Int
    BY <1>3
  <2> QED
    BY <1>2, <2>1, SumType
<1>7. PICK a \in Int, b \in Int, c \in Int :
         a = f[e] /\ b = g[e] /\ c = Sum(f, (1..n) \ {e})
  BY <1>3, <1>6
<1>8. Total(f) = a + c /\ Total(g) = b + c
  BY <1>1, <1>4, <1>5, <1>7
<1> QED
  BY <1>7, <1>8

(* Rows and columns of a database. *)
RowsOf(tables) == [k \in DOMAIN tables |-> tables[k].rows]
ColsOf(tables) == [k \in DOMAIN tables |-> Len(tables[k].cols)]

(* What tables are counted by. *)
LEMMA TableNumbers ==
    ASSUME NEW tables \in Seq(Table)
    PROVE  /\ Len(tables) \in Nat /\ DOMAIN tables = 1..Len(tables)
           /\ Numbered(RowsOf(tables), Len(tables)) /\ Numbered(ColsOf(tables), Len(tables))
           /\ Rows(tables) = Total(RowsOf(tables)) /\ Rows(tables) \in Nat
           /\ Cols(tables) = Total(ColsOf(tables)) /\ Cols(tables) \in Nat
<1>1. Len(tables) \in Nat /\ DOMAIN tables = 1..Len(tables)
  OBVIOUS
<1>2. ASSUME NEW k \in 1..Len(tables) PROVE tables[k].rows \in Nat /\ Len(tables[k].cols) \in Nat
  <2>1. tables[k] \in Table
    BY <1>1
  <2>2. tables[k].rows \in Nat /\ tables[k].cols \in Seq(Built)
    BY <2>1 DEF Table
  <2> QED
    BY <2>2
<1>3. Numbered(RowsOf(tables), Len(tables)) /\ Numbered(ColsOf(tables), Len(tables))
  BY <1>1, <1>2 DEF Numbered, RowsOf, ColsOf
<1>4. Rows(tables) = Total(RowsOf(tables)) /\ Cols(tables) = Total(ColsOf(tables))
  BY DEF Rows, Cols, RowsOf, ColsOf
<1> QED
  BY <1>1, <1>3, <1>4, TotalType

(* No tables, *)
LEMMA TablesNone == Rows(<<>>) = 0 /\ Cols(<<>>) = 0
<1>1. DOMAIN <<>> = {}
  OBVIOUS
<1>2. DOMAIN RowsOf(<<>>) = {} /\ DOMAIN ColsOf(<<>>) = {}
  BY <1>1 DEF RowsOf, ColsOf
<1> QED
  BY <1>2, TotalNone DEF Rows, Cols, RowsOf, ColsOf

(* and one table more. *)
LEMMA TablesAppend ==
    ASSUME NEW tables \in Seq(Table), NEW table \in Table
    PROVE  /\ Append(tables, table) \in Seq(Table)
           /\ Rows(Append(tables, table)) = Rows(tables) + table.rows
           /\ Cols(Append(tables, table)) = Cols(tables) + Len(table.cols)
<1>1. PICK w : w = Append(tables, table)
  OBVIOUS
<1>2. PICK n \in Nat : n = Len(tables)
  OBVIOUS
<1>3. /\ w \in Seq(Table) /\ Len(w) = n + 1 /\ DOMAIN w = 1 .. n + 1 /\ DOMAIN tables = 1..n
      /\ w[n + 1] = table /\ \A k \in 1..n : w[k] = tables[k]
  BY <1>1, <1>2
<1>4. /\ Numbered(RowsOf(tables), n) /\ Numbered(ColsOf(tables), n)
      /\ Numbered(RowsOf(w), n + 1) /\ Numbered(ColsOf(w), n + 1)
      /\ Rows(tables) = Total(RowsOf(tables)) /\ Cols(tables) = Total(ColsOf(tables))
      /\ Rows(w) = Total(RowsOf(w)) /\ Cols(w) = Total(ColsOf(w))
  BY <1>2, <1>3, TableNumbers
<1>5. n + 1 \in 1 .. n + 1 /\ \A k \in 1..n : k \in 1 .. n + 1
  OBVIOUS
<1>6. /\ RowsOf(w)[n + 1] = table.rows /\ ColsOf(w)[n + 1] = Len(table.cols)
      /\ \A k \in 1..n : RowsOf(w)[k] = RowsOf(tables)[k] /\ ColsOf(w)[k] = ColsOf(tables)[k]
  BY <1>3, <1>5 DEF RowsOf, ColsOf
<1>7. /\ Total(RowsOf(w)) = Total(RowsOf(tables)) + RowsOf(w)[n + 1]
      /\ Total(ColsOf(w)) = Total(ColsOf(tables)) + ColsOf(w)[n + 1]
  BY <1>4, <1>6, TotalAppend
<1> QED
  BY <1>1, <1>3, <1>4, <1>6, <1>7

-----------------------------------------------------------------------------
(* The counts of a database that is being parsed. *)
ColsCounted(tables, d, more) == d.columns = Cols(tables) + more

RowsCounted(tables, d) ==
    /\ d.tables = Len(tables) /\ d.rows = Rows(tables)
    /\ \A k \in DOMAIN tables : tables[k].rows <= d.rowsMax

(* The last table is not counted yet. *)
LastUncounted(tables, d) ==
    \E old \in Seq(Table), n \in Nat : tables = Append(old, NewTable(n)) /\ RowsCounted(old, d)

Pending(s) == IF s.node \in PendingNodes THEN 1 ELSE 0

Tallied(s) ==
    /\ ColsCounted(s.tables, s.database, Pending(s))
    /\ s.node # "tbl_col_flag" => RowsCounted(s.tables, s.database)
    /\ s.node = "tbl_col_flag" => LastUncounted(s.tables, s.database)

(* A table starts without columns. *)
LEMMA NewTableType ==
    \A n \in Nat : /\ NewTable(n) \in Table /\ NewTable(n).rows = n
                   /\ NewTable(n).cols = <<>> /\ Len(NewTable(n).cols) = 0
<1> TAKE n \in Nat
<1>1. <<>> \in Seq(Built) /\ Len(<<>>) = 0
  OBVIOUS
<1> QED
  BY <1>1 DEF NewTable, Table

(* The first table of a database is counted with its first column. *)
LEMMA BegunTallied ==
    ASSUME NEW n \in Nat, NEW tables, NEW d,
           tables = <<NewTable(n)>>, d = database_counter_init(n)
    PROVE  ColsCounted(tables, d, 1) /\ RowsCounted(tables, d)
<1>1. tables = Append(<<>>, NewTable(n)) /\ <<>> \in Seq(Table)
  OBVIOUS
<1>2. PICK new \in Table : new = NewTable(n) /\ new.rows = n /\ Len(new.cols) = 0
  BY NewTableType
<1>3. Rows(tables) = 0 + n /\ Cols(tables) = 0 + 0
  BY <1>1, <1>2, TablesNone, TablesAppend
<1>4. d.columns = 1 /\ d.tables = 1 /\ d.rows = n /\ d.rowsMax = n
  BY DEF database_counter_init
<1>5. Len(tables) = 1 /\ DOMAIN tables = {1} /\ tables[1].rows = n
  BY <1>2
<1> QED
  BY <1>3, <1>4, <1>5 DEF ColsCounted, RowsCounted

(* A further table is added before it is counted, *)
LEMMA AddedTallied ==
    ASSUME NEW old \in Seq(Table), NEW n \in Nat, NEW d \in Counters,
           ColsCounted(old, d, 0), RowsCounted(old, d)
    PROVE  LET tables == Append(old, NewTable(n))
           IN  ColsCounted(tables, d, 0) /\ LastUncounted(tables, d)
<1>1. PICK new \in Table : new = NewTable(n) /\ Len(new.cols) = 0
  BY NewTableType
<1>2. Cols(Append(old, new)) = Cols(old) + 0 /\ Cols(old) \in Nat
  BY <1>1, TablesAppend, TableNumbers
<1>3. ColsCounted(Append(old, new), d, 0)
  BY <1>2 DEF ColsCounted
<1> QED
  BY <1>1, <1>3 DEF LastUncounted

(* and counted before its first column is. *)
LEMMA CountedTallied ==
    ASSUME NEW tables \in Seq(Table), NEW d \in Counters, LastUncounted(tables, d)
    PROVE  LET e == Counted(d, tables[Len(tables)].rows)
           IN  RowsCounted(tables, e) /\ e.columns = d.columns
<1>1. PICK old \in Seq(Table), n \in Nat :
         tables = Append(old, NewTable(n)) /\ RowsCounted(old, d)
  BY DEF LastUncounted
<1>2. PICK new \in Table : new = NewTable(n) /\ new.rows = n
  BY NewTableType
<1>3. PICK m \in Nat : m = Len(old)
  OBVIOUS
<1>4. /\ Len(tables) = m + 1 /\ DOMAIN tables = 1 .. m + 1 /\ DOMAIN old = 1..m
      /\ tables[m + 1] = new /\ \A k \in 1..m : tables[k] = old[k]
  BY <1>1, <1>2, <1>3
<1>5. tables[Len(tables)].rows = n
  BY <1>2, <1>4
<1>6. PICK e : e = Counted(d, n)
  OBVIOUS
<1>7. /\ e.columns = d.columns /\ e.tables = d.tables + 1
      /\ e.rows = d.rows + n /\ e.rowsMax = Larger(d.rowsMax, n)
  BY <1>6, CountedTyped
<1>8. Rows(tables) = Rows(old) + n
  BY <1>1, <1>2, TablesAppend
<1>9. d.rowsMax \in Nat /\ d.rowsMax <= e.rowsMax /\ n <= e.rowsMax /\ e.rowsMax \in Nat
  <2>1. d.rowsMax \in Nat
    BY DEF Counters
  <2> QED
    BY <1>7, <2>1, LargerSupplies
<1>10. ASSUME NEW k \in DOMAIN tables PROVE tables[k].rows <= e.rowsMax
  <2>1. k \in 1..m \/ k = m + 1
    BY <1>4
  <2>2. CASE k \in 1..m
    <3>1. old[k] \in Table /\ old[k].rows <= d.rowsMax
      BY <1>1, <1>4, <2>2 DEF RowsCounted
    <3>2. old[k].rows \in Nat
      BY <3>1 DEF Table
    <3> QED
      BY <1>4, <1>9, <2>2, <3>1, <3>2
  <2>3. CASE k = m + 1
    BY <1>2, <1>4, <1>9, <2>3
  <2> QED
    BY <2>1, <2>2, <2>3
<1>11. e.tables = Len(tables) /\ e.rows = Rows(tables)
  <2>1. d.tables = m /\ d.rows = Rows(old)
    BY <1>1, <1>3 DEF RowsCounted
  <2> QED
    BY <1>4, <1>7, <1>8, <2>1
<1> QED
  BY <1>5, <1>6, <1>7, <1>10, <1>11 DEF RowsCounted

(* So every effect leaves the counts what its table is due. *)
LEMMA EffectTallied ==
    ASSUME NEW s, NEW t, Effect(t, s), s.node \in LiveNodes => Current(s) /\ Tallied(s)
    PROVE  Tallied(t)
<1>1. CASE TableBegun(t, s)
  <2>1. PICK n \in Nat : t.tables = <<NewTable(n)>> /\ t.database = database_counter_init(n)
    BY <1>1 DEF TableBegun
  <2>2. t.node # "tbl_col_flag" /\ Pending(t) = 1
    BY <1>1 DEF TableBegun, Pending, PendingNodes
  <2> QED
    BY <2>1, <2>2, BegunTallied DEF Tallied
<1>2. CASE Passed(t, s)
  <2>1. Pending(t) = Pending(s) /\ s.node # "tbl_col_flag" /\ t.node # "tbl_col_flag"
    BY <1>2 DEF Passed, Pending
  <2> QED
    BY <1>2, <2>1 DEF Passed, Tallied
<1>3. CASE TableAdded(t, s)
  <2>1. Pending(s) = 0 /\ Pending(t) = 0 /\ s.node # "tbl_col_flag" /\ t.node = "tbl_col_flag"
    BY <1>3 DEF TableAdded, Pending, PendingNodes, ColumnNodes
  <2>2. Current(s) /\ Tallied(s)
    BY <1>3 DEF TableAdded, LiveNodes, LaterNodes
  <2>3. PICK n \in Nat : t.tables = Append(s.tables, NewTable(n)) /\ t.database = s.database
    BY <1>3 DEF TableAdded
  <2>4. ColsCounted(s.tables, s.database, 0) /\ RowsCounted(s.tables, s.database)
    BY <2>1, <2>2 DEF Tallied
  <2>5. ColsCounted(t.tables, t.database, 0) /\ LastUncounted(t.tables, t.database)
    BY <2>2, <2>3, <2>4, AddedTallied DEF Current
  <2> QED
    BY <2>1, <2>5 DEF Tallied
<1>4. CASE TableCounted(t, s)
  <2>1. Pending(s) = 0 /\ Pending(t) = 0 /\ s.node = "tbl_col_flag" /\ t.node # "tbl_col_flag"
    BY <1>4 DEF TableCounted, Pending, PendingNodes, ColumnNodes
  <2>2. Current(s) /\ Tallied(s)
    BY <1>4 DEF TableCounted, LiveNodes, LaterNodes
  <2>3. /\ RowsCounted(t.tables, t.database) /\ t.database.columns = s.database.columns
        /\ t.tables = s.tables
    BY <1>4, <2>1, <2>2, CountedTallied DEF TableCounted, Tallied, Current
  <2>4. ColsCounted(t.tables, t.database, 0)
    BY <2>1, <2>2, <2>3 DEF Tallied, ColsCounted
  <2> QED
    BY <2>1, <2>3, <2>4 DEF Tallied
<1>5. CASE ColumnCounted(t, s)
  <2>1. Pending(s) = 0 /\ Pending(t) = 1 /\ s.node # "tbl_col_flag" /\ t.node # "tbl_col_flag"
    BY <1>5 DEF ColumnCounted, Pending, PendingNodes, ColumnNodes
  <2>2. Current(s) /\ Tallied(s)
    BY <1>5 DEF ColumnCounted, LiveNodes, LaterNodes
  <2>3. PICK d, e : d \in Counters /\ d = s.database /\ e = OneMore(d)
    BY <2>2 DEF Current
  <2>4. /\ e.columns = d.columns + 1 /\ e.tables = d.tables /\ e.rows = d.rows
        /\ e.rowsMax = d.rowsMax
    BY <2>3, CountedTyped
  <2>5. t.tables = s.tables /\ t.database = e
    BY <1>5, <2>3 DEF ColumnCounted
  <2>6. RowsCounted(t.tables, e)
    BY <2>1, <2>2, <2>3, <2>4, <2>5 DEF Tallied, RowsCounted
  <2>7. ColsCounted(t.tables, e, 1)
    <3>1. d.columns = Cols(s.tables) + 0 /\ Cols(s.tables) \in Nat
      BY <2>1, <2>2, <2>3, TableNumbers DEF Tallied, ColsCounted, Current
    <3>2. e.columns = Cols(s.tables) + 1
      BY <2>4, <3>1
    <3> QED
      BY <2>5, <3>2 DEF ColsCounted
  <2> QED
    BY <2>1, <2>5, <2>6, <2>7 DEF Tallied
<1> QED
  BY <1>1, <1>2, <1>3, <1>4, <1>5 DEF Effect

(* A complete column is no longer pending. *)
LEMMA EndedTallied ==
    ASSUME NEW s, Entered(s), WellTyped(s), s.node = "close", NEW t, Ended(t, s), Tallied(s)
    PROVE  ColsCounted(t.tables, t.database, 0) /\ RowsCounted(t.tables, t.database)
<1>1. PICK n : /\ ColumnEnds(t, s, n)
               /\ t.tables \in Seq(Table) /\ t.database \in Counters
  BY EndedEnds
<1>2. Current(s)
  BY DEF WellTyped, LiveNodes
<1>3. PICK old \in Seq(Table), new \in Seq(Table) : old = s.tables /\ new = t.tables
  BY <1>1, <1>2 DEF Current
<1>4. /\ n \in Nat \ {0} /\ Len(old) = n /\ Len(new) = n /\ DOMAIN old = 1..n /\ DOMAIN new = 1..n
      /\ n \in 1..n
      /\ \A k \in 1..n : k # n => new[k] = old[k]
      /\ new[n].rows = old[n].rows /\ new[n].cols = Append(old[n].cols, Column(s))
  BY <1>1, <1>3 DEF ColumnEnds
<1>5. old[n].cols \in Seq(Built)
  <2>1. old[n] \in Table
    BY <1>4
  <2> QED
    BY <2>1 DEF Table
<1>6. Len(new[n].cols) = Len(old[n].cols) + 1 /\ Len(old[n].cols) \in Nat
  BY <1>4, <1>5
<1>7. /\ Numbered(ColsOf(old), n) /\ Numbered(ColsOf(new), n)
      /\ Cols(old) = Total(ColsOf(old)) /\ Cols(new) = Total(ColsOf(new))
      /\ Cols(old) \in Nat /\ Cols(new) \in Nat
  BY <1>4, TableNumbers
<1>8. /\ ColsOf(old)[n] = Len(old[n].cols) /\ ColsOf(new)[n] = Len(new[n].cols)
      /\ \A k \in 1..n : k # n => ColsOf(new)[k] = ColsOf(old)[k]
  BY <1>4 DEF ColsOf
<1>9. Total(ColsOf(new)) - ColsOf(new)[n] = Total(ColsOf(old)) - ColsOf(old)[n]
  BY <1>4, <1>7, <1>8, TotalPut
<1>10. Cols(new) = Cols(old) + 1
  <2>1. PICK a \in Nat, b \in Nat, c \in Nat :
           a = Cols(old) /\ b = Cols(new) /\ c = Len(old[n].cols)
    BY <1>6, <1>7
  <2>2. b - (c + 1) = a - c
    BY <1>6, <1>7, <1>8, <1>9, <2>1
  <2>3. b = a + 1
    BY <2>2
  <2> QED
    BY <2>1, <2>3
<1>11. RowsOf(new) = RowsOf(old)
  <2>1. \A k \in 1..n : new[k].rows = old[k].rows
    BY <1>4
  <2> QED
    BY <1>4, <2>1 DEF RowsOf
<1>12. Rows(new) = Rows(old)
  BY <1>4, <1>11, TableNumbers
<1>13. /\ t.database.rows = s.database.rows /\ t.database.rowsMax = s.database.rowsMax
       /\ t.database.tables = s.database.tables /\ t.database.columns = s.database.columns
  BY <1>1 DEF ColumnEnds
<1>14. Pending(s) = 1 /\ s.node # "tbl_col_flag"
  BY DEF Pending, PendingNodes
<1>15. RowsCounted(t.tables, t.database)
  <2>1. RowsCounted(old, s.database)
    BY <1>3, <1>14 DEF Tallied
  <2>2. \A k \in 1..n : new[k].rows = old[k].rows
    BY <1>4
  <2> QED
    BY <1>3, <1>4, <1>12, <1>13, <2>1, <2>2 DEF RowsCounted
<1>16. ColsCounted(t.tables, t.database, 0)
  <2>1. s.database.columns = Cols(old) + 1
    BY <1>3, <1>14 DEF Tallied, ColsCounted
  <2>2. Cols(new) + 0 = Cols(old) + 1
    BY <1>7, <1>10
  <2> QED
    BY <1>3, <1>13, <2>1, <2>2 DEF ColsCounted
<1> QED
  BY <1>15, <1>16

-----------------------------------------------------------------------------
(* The totals of the valid databases. *)
DbRows(valid) == [i \in DOMAIN valid |-> Rows(valid[i])]
DbTables(valid) == [i \in DOMAIN valid |-> Len(valid[i])]
DbCols(valid) == [i \in DOMAIN valid |-> Cols(valid[i])]

Bounded(tables, rows) == \A k \in DOMAIN tables : tables[k].rows <= rows

ValidCounted(valid, g) ==
    /\ g.rows = Total(DbRows(valid)) /\ g.tables = Total(DbTables(valid))
    /\ g.columns = Total(DbCols(valid))
    /\ \A i \in DOMAIN valid : Bounded(valid[i], g.rowsMax)

(* What databases are counted by. *)
LEMMA DbNumbers ==
    ASSUME NEW valid \in Seq(Seq(Table)), NEW n, n = Len(valid)
    PROVE  /\ Numbered(DbRows(valid), n) /\ Numbered(DbTables(valid), n)
           /\ Numbered(DbCols(valid), n)
<1>1. DOMAIN valid = 1..n
  OBVIOUS
<1>2. ASSUME NEW i \in 1..n
      PROVE  Rows(valid[i]) \in Nat /\ Len(valid[i]) \in Nat /\ Cols(valid[i]) \in Nat
  <2>1. valid[i] \in Seq(Table)
    BY <1>1
  <2> QED
    BY <2>1, TableNumbers
<1> QED
  BY <1>1, <1>2 DEF Numbered, DbRows, DbTables, DbCols

(* A larger bound. *)
LEMMA BoundedMore ==
    ASSUME NEW tables \in Seq(Table), NEW m \in Nat, NEW n \in Nat, m <= n, Bounded(tables, m)
    PROVE  Bounded(tables, n)
<1> SUFFICES ASSUME NEW k \in DOMAIN tables PROVE tables[k].rows <= n
  BY DEF Bounded
<1>1. tables[k] \in Table
  OBVIOUS
<1>2. PICK rows \in Nat : rows = tables[k].rows
  BY <1>1 DEF Table
<1>3. rows <= m
  BY <1>2 DEF Bounded
<1> QED
  BY <1>2, <1>3

(* Adding a database and its counts keeps the totals right. *)
LEMMA UpdateTallies ==
    ASSUME NEW valid \in Seq(Seq(Table)), NEW g \in Counters, ValidCounted(valid, g),
           NEW tables \in Seq(Table), NEW d \in Counters,
           ColsCounted(tables, d, 0), RowsCounted(tables, d)
    PROVE  ValidCounted(Append(valid, tables), generator_counter_update(g, d))
<1>1. PICK h : h = generator_counter_update(g, d)
  OBVIOUS
<1>2. /\ h.rows = g.rows + d.rows /\ h.rowsMax = Larger(g.rowsMax, d.rowsMax)
      /\ h.tables = g.tables + d.tables /\ h.columns = g.columns + d.columns
  BY <1>1 DEF generator_counter_update
<1>3. PICK w : w = Append(valid, tables)
  OBVIOUS
<1>4. PICK n \in Nat : n = Len(valid)
  OBVIOUS
<1>5. /\ w \in Seq(Seq(Table)) /\ Len(w) = n + 1 /\ DOMAIN w = 1 .. n + 1 /\ DOMAIN valid = 1..n
      /\ w[n + 1] = tables /\ \A i \in 1..n : w[i] = valid[i]
  BY <1>3, <1>4
<1>6. /\ Numbered(DbRows(valid), n) /\ Numbered(DbTables(valid), n) /\ Numbered(DbCols(valid), n)
      /\ Numbered(DbRows(w), n + 1) /\ Numbered(DbTables(w), n + 1) /\ Numbered(DbCols(w), n + 1)
  BY <1>4, <1>5, DbNumbers
<1>7. n + 1 \in 1 .. n + 1 /\ \A i \in 1..n : i \in 1 .. n + 1
  OBVIOUS
<1>8. /\ DbRows(w)[n + 1] = Rows(tables) /\ DbTables(w)[n + 1] = Len(tables)
      /\ DbCols(w)[n + 1] = Cols(tables)
      /\ \A i \in 1..n : /\ DbRows(w)[i] = DbRows(valid)[i]
                         /\ DbTables(w)[i] = DbTables(valid)[i]
                         /\ DbCols(w)[i] = DbCols(valid)[i]
  BY <1>5, <1>7 DEF DbRows, DbTables, DbCols
<1>9. /\ Total(DbRows(w)) = Total(DbRows(valid)) + Rows(tables)
      /\ Total(DbTables(w)) = Total(DbTables(valid)) + Len(tables)
      /\ Total(DbCols(w)) = Total(DbCols(valid)) + Cols(tables)
  BY <1>6, <1>8, TotalAppend
<1>10. /\ d.rows = Rows(tables) /\ d.tables = Len(tables)
       /\ d.columns = Cols(tables)
  <2>1. Cols(tables) \in Nat
    BY TableNumbers
  <2> QED
    BY <2>1 DEF ColsCounted, RowsCounted
<1>11. /\ h.rows = Total(DbRows(w)) /\ h.tables = Total(DbTables(w))
       /\ h.columns = Total(DbCols(w))
  BY <1>2, <1>9, <1>10 DEF ValidCounted
<1>12. /\ g.rowsMax \in Nat /\ d.rowsMax \in Nat /\ h.rowsMax \in Nat
       /\ g.rowsMax <= h.rowsMax /\ d.rowsMax <= h.rowsMax
  <2>1. g.rowsMax \in Nat /\ d.rowsMax \in Nat
    BY DEF Counters
  <2> QED
    BY <1>2, <2>1, LargerSupplies
<1>13. ASSUME NEW i \in DOMAIN w PROVE Bounded(w[i], h.rowsMax)
  <2>1. CASE i \in 1..n
    <3>1. valid[i] \in Seq(Table) /\ Bounded(valid[i], g.rowsMax) /\ w[i] = valid[i]
      BY <1>5, <2>1 DEF ValidCounted
    <3> QED
      BY <1>12, <3>1, BoundedMore
  <2>2. CASE i = n + 1
    <3>1. Bounded(tables, d.rowsMax)
      BY DEF RowsCounted, Bounded
    <3>2. Bounded(tables, h.rowsMax)
      BY <1>12, <3>1, BoundedMore
    <3> QED
      BY <1>5, <2>2, <3>2
  <2> QED
    BY <1>5, <2>1, <2>2
<1> QED
  BY <1>1, <1>3, <1>11, <1>13 DEF ValidCounted

(* The counters match the tables that are parsed, the totals the valid     *)
(* databases.                                                              *)
Counts(s) ==
    /\ s.node \in LiveNodes => Tallied(s)
    /\ ValidCounted(s.valid, s.generator)

(* Counts is kept by every step. *)
LEMMA CountsStep ==
    ASSUME Parsed, Counts(state), [ParseNext]_parseVars
    PROVE  Counts(state')
<1>1. /\ Shape /\ WellTyped(state) /\ Place(state) /\ Entered(state)
      /\ DOMAIN state.join = JoinFields
  BY DEF Parsed, Shape, WellTyped, JoinState
<1>2. CASE UNCHANGED state
  BY <1>2
<1>3. CASE \E r, a : Entering(r, a) /\ Reads(state', r, a)
  <2>1. PICK r, a : Entering(r, a) /\ Reads(state', r, a)
    BY <1>3
  <2>2. PICK t : t = state'
    OBVIOUS
  <2>3. Keeps(t, state, Moving)
    BY <2>1, <2>2, ReadKeeps
  <2>4. t.valid = state.valid /\ t.generator = state.generator
    BY <2>3 DEF Keeps, Fields, Moving, Own
  <2>5. ASSUME t.node \in LiveNodes PROVE Tallied(t)
    <3>1. Effect(t, state)
      BY <1>1, <2>1, <2>2, <2>5, ReadEffect
    <3>2. state.node \in LiveNodes => Current(state) /\ Tallied(state)
      BY <1>1 DEF WellTyped, Counts
    <3> QED
      BY <3>1, <3>2, EffectTallied
  <2> QED
    BY <2>2, <2>4, <2>5 DEF Counts
<1>4. CASE state.node = "close" /\ Ended(state', state)
  <2>1. PICK t : t = state'
    OBVIOUS
  <2>2. Ended(t, state)
    BY <1>4, <2>1
  <2>3. state.node \in LiveNodes
    BY <1>4 DEF LiveNodes
  <2>4. ColsCounted(t.tables, t.database, 0) /\ RowsCounted(t.tables, t.database)
    BY <1>1, <1>4, <2>2, <2>3, EndedTallied DEF Counts
  <2>5. Tallied(t)
    <3>1. t.node \in {"done", "next_join", "next_col_name", "next_tbl_name", "db_name"}
          \/ t.node = "done"
      BY <2>2 DEF Ended, NextDb
    <3>2. Pending(t) = 0 /\ t.node # "tbl_col_flag"
      BY <3>1 DEF Pending, PendingNodes, ColumnNodes
    <3> QED
      BY <2>4, <3>2 DEF Tallied
  <2>6. ValidCounted(t.valid, t.generator)
    <3>1. t.tables \in Seq(Table) /\ t.database \in Counters
      BY <1>1, <1>4, <2>2, EndedEnds
    <3>2. state.valid \in Seq(Seq(Table)) /\ state.generator \in Counters
      BY <1>1 DEF WellTyped, Stored
    <3>3. CASE Added(t, state)
      BY <2>4, <3>1, <3>2, <3>3, UpdateTallies DEF Added, Counts
    <3>4. CASE NotAdded(t, state)
      BY <3>4 DEF NotAdded, Counts
    <3> QED
      BY <2>2, <3>3, <3>4 DEF Ended
  <2> QED
    BY <2>1, <2>5, <2>6 DEF Counts
<1>5. CASE \/ Reported(state', state) \/ Sought(state', state) \/ Dispatched(state', state)
           \/ Decided(state', state)
  <2>1. PICK t : t = state'
    OBVIOUS
  <2>2. Keeps(t, state, {"node", "from", "spec", "status", "told"}) /\ t.node \in QuietNodes
    BY <1>5, <2>1, QuietSteps
  <2>3. t.valid = state.valid /\ t.generator = state.generator
    BY <2>2 DEF Keeps, Fields
  <2>4. t.node \notin LiveNodes
    BY <2>2, QuietApart
  <2> QED
    BY <2>1, <2>3, <2>4 DEF Counts
<1> QED
  BY <1>1, <1>2, <1>3, <1>4, <1>5, StepCases

(* The totals of the generator, by which it is sized, are those of the     *)
(* valid databases, whatever the wrong DB_SPECs before and after them had  *)
(* counted.                                                                *)
THEOREM TotalsMatch == ParseSpec => []CountersMatch
<1>1. ParseInit => Parsed /\ Counts(state)
  <2> SUFFICES ASSUME ParseInit PROVE Counts(state)
    BY ParsedInit
  <2>1. state.valid = <<>> /\ state.node = "dispatch" /\ state.generator = NoCounter
    BY DEF ParseInit, ParseStart
  <2>2. DOMAIN state.valid = {}
    BY <2>1
  <2>3. "dispatch" \notin LiveNodes
    BY DEF LiveNodes, LaterNodes, ColumnNodes
  <2>4. /\ DOMAIN DbRows(state.valid) = {} /\ DOMAIN DbTables(state.valid) = {}
        /\ DOMAIN DbCols(state.valid) = {}
    BY <2>2 DEF DbRows, DbTables, DbCols
  <2>5. /\ Total(DbRows(state.valid)) = 0 /\ Total(DbTables(state.valid)) = 0
        /\ Total(DbCols(state.valid)) = 0
    BY <2>4, TotalNone
  <2>6. NoCounter.rows = 0 /\ NoCounter.tables = 0 /\ NoCounter.columns = 0
    BY DEF NoCounter
  <2> QED
    BY <2>1, <2>2, <2>3, <2>5, <2>6 DEF Counts, ValidCounted
<1>2. Parsed /\ Counts(state) /\ [ParseNext]_parseVars => (Parsed /\ Counts(state))'
  <2> SUFFICES ASSUME Parsed, Counts(state), [ParseNext]_parseVars
               PROVE  Parsed' /\ Counts(state)'
    OBVIOUS
  <2>1. Counts(state')
    BY CountsStep
  <2>2. Counts(state)'
    BY <2>1 DEF Counts, Tallied, ValidCounted
  <2> QED
    BY <2>2, ParsedStep
<1>3. Counts(state) => CountersMatch
  BY DEF Counts, ValidCounted, CountersMatch, DbRows, DbTables, DbCols, Bounded
<1> QED
  BY <1>1, <1>2, <1>3, PTL DEF ParseSpec

-----------------------------------------------------------------------------
(* The addresses of the specs.  A ColSpec is the largest of the structs,   *)
(* and of the arguments that were read there are two for each of them.     *)
Units(k) == DbSize + TblSize + ColSize * k

Space(a, n) == \E k \in 0..n : a <= Units(k) /\ 2 * k <= n

(* The parsing is over. *)
FinishedNodes == {"done", "exit", "generate"}

Numbers(s) == s.db \in Nat /\ s.tbl \in Nat /\ s.col \in Nat /\ s.top \in Nat /\ s.kept \in Nat

Intact(s) == s.clobbered = FALSE

Topped(s) == s.top = 0 \/ s.top <= SpecAlloc

(* Where the DB_SPEC has its place, after those that are valid. *)
DbPlaced(s) == s.kept <= s.db /\ (s.db = 0 \/ Space(s.db, s.spec - 6))

(* Where the current column and, before it has one, the current table. *)
ColPlaced(s, j) == s.db <= s.col /\ Space(s.col, s.from - j)
TblPlaced(s, j) == s.db <= s.tbl /\ Space(s.tbl + TblSize, s.from - j)

AfterColumn == {"close", "next_join", "next_col_name", "next_tbl_name"}

Layout(s) ==
    /\ Numbers(s) /\ Intact(s) /\ Topped(s)
    /\ s.node \notin FinishedNodes => DbPlaced(s)
    /\ s.node \in {"col_flag", "col_name"} => s.tbl = s.db + DbSize
    /\ s.node \in {"col_type", "next_col_type"} => ColPlaced(s, 6)
    /\ s.node \in ColumnNodes => ColPlaced(s, 7)
    /\ s.node \in AfterColumn => ColPlaced(s, 8)
    /\ s.node = "next_row_count" => TblPlaced(s, 5)
    /\ s.node = "tbl_col_flag" => TblPlaced(s, 6)
    /\ s.node = "tbl_col_name" => TblPlaced(s, 7)

(* What is assumed of the sizes of the structs. *)
LEMMA Sized ==
    /\ DbSize \in Nat /\ TblSize \in Nat /\ ColSize \in Nat
    /\ 0 < ColSize /\ DbSize <= ColSize /\ TblSize <= ColSize
  BY SizeAssumption

(* Two arguments more are room for one ColSpec more. *)
LEMMA UnitsGrow ==
    ASSUME NEW k \in Nat
    PROVE  Units(k) \in Nat /\ Units(k + 1) = Units(k) + ColSize
<1>1. ColSize * k \in Nat /\ ColSize * (k + 1) \in Nat
  BY Sized, TimesType
<1>2. ColSize * (k + 1) = ColSize * k + ColSize
  BY Sized
<1> QED
  BY <1>1, <1>2, Sized DEF Units

(* There is room for less, and for more after more arguments. *)
LEMMA SpaceMore ==
    ASSUME NEW a \in Nat, NEW n \in Int, Space(a, n), NEW b \in Nat, b <= a,
           NEW m \in Int, n <= m
    PROVE  Space(b, m)
<1>1. PICK k \in 0..n : a <= Units(k) /\ 2 * k <= n
  BY DEF Space
<1>2. PICK u \in Nat : u = Units(k)
  BY UnitsGrow
<1>3. b <= Units(k) /\ k \in 0..m /\ 2 * k <= m
  BY <1>1, <1>2
<1> QED
  BY <1>3 DEF Space

(* Two arguments make room for one more ColSpec. *)
LEMMA SpaceGrow ==
    ASSUME NEW a \in Nat, NEW n \in Int, Space(a, n), NEW b \in Nat, b <= a + ColSize
    PROVE  Space(b, n + 2)
<1>1. PICK k \in 0..n : a <= Units(k) /\ 2 * k <= n
  BY DEF Space
<1>2. PICK u \in Nat : u = Units(k) /\ Units(k + 1) = u + ColSize
  BY UnitsGrow
<1>3. b <= Units(k + 1)
  BY <1>1, <1>2, Sized
<1>4. k + 1 \in 0..(n + 2) /\ 2 * (k + 1) <= n + 2
  BY <1>1
<1> QED
  BY <1>3, <1>4 DEF Space

(* The DbSpec and the first TblSpec have their room. *)
LEMMA SpaceStart ==
    ASSUME NEW n \in Nat
    PROVE  Space(DbSize + TblSize, n)
<1>1. Units(0) = DbSize + TblSize
  BY Sized DEF Units
<1>2. DbSize + TblSize <= Units(0) /\ 0 \in 0..n /\ 2 * 0 <= n
  BY <1>1, Sized
<1> QED
  BY <1>2 DEF Space

(* That is in the allocation, as the arguments counted are not the last    *)
(* six.                                                                    *)
LEMMA SpaceFits ==
    ASSUME NEW a \in Nat, NEW n \in Int, Space(a, n), argc \in Nat, n + 6 <= argc
    PROVE  a <= SpecAlloc
<1>1. PICK k \in 0..n : a <= Units(k) /\ 2 * k <= n
  BY DEF Space
<1>2. PICK q \in Int : q = (argc - DB_SPEC_LENGTH_MIN) \div 2 + 1
  BY DEF DB_SPEC_LENGTH_MIN
<1>3. k <= q
  <2>1. PICK c \in Nat : c = argc
    OBVIOUS
  <2>2. q = (c - 8) \div 2 + 1 /\ 2 * k + 6 <= c
    BY <1>1, <1>2, <2>1 DEF DB_SPEC_LENGTH_MIN
  <2> QED
    BY <2>2
<1>4. ColSize * k <= ColSize * q
  BY <1>3, Times, Sized
<1>5. PICK u \in Int, v \in Int : u = ColSize * k /\ v = ColSize * q
  BY Sized
<1>6. SpecAlloc = DbSize + TblSize + v
  <2>1. q * ColSize = v
    BY <1>5, Sized
  <2> QED
    BY <1>2, <2>1 DEF SpecAlloc
<1>7. a <= DbSize + TblSize + u /\ u <= v
  BY <1>1, <1>4, <1>5 DEF Units
<1>8. PICK w \in Nat, x \in Nat : w = DbSize /\ x = TblSize
  BY Sized
<1>9. a <= w + x + v
  BY <1>7, <1>8
<1> QED
  BY <1>6, <1>8, <1>9

-----------------------------------------------------------------------------
(* Where the functions that read an argument put the specs. *)
Unwritten(t, s) == t.top = s.top /\ t.clobbered = s.clobbered

Unmoved(t, s) ==
    /\ t.tbl = s.tbl /\ t.col = s.col /\ Unwritten(t, s)
    /\ \/ t.node \in {"fail", "db_name", "tbl_name"}
       \/ s.node = "col_flag" /\ t.node = "col_name"
       \/ s.node \in {"col_type", "next_col_type"} /\ t.node \in ColumnNodes
       \/ s.node \in ColumnNodes /\ t.node \in ColumnNodes \union {"close"}
       \/ s.node = "next_row_count" /\ t.node = "tbl_col_flag"
       \/ s.node = "tbl_col_flag" /\ t.node = "tbl_col_name"

DbWritten(t, s) ==
    /\ s.node = "db_name" /\ t.node \in {"fail", "tbl_flag"}
    /\ t.tbl = s.tbl /\ t.col = s.col /\ Wrote(t, s, s.db, DbSize)

FirstTblWritten(t, s) ==
    /\ s.node = "tbl_name" /\ t.node \in {"fail", "row_count"}
    /\ t.tbl = s.tbl /\ t.col = s.col /\ Wrote(t, s, s.db + DbSize, TblSize)

FirstTblBegun(t, s) ==
    /\ s.node = "row_count" /\ t.node \in {"fail", "col_flag"}
    /\ t.tbl = s.db + DbSize /\ t.col = s.col /\ Unwritten(t, s)

TblWritten(t, s, a) ==
    /\ s.node = "next_tbl_name" /\ a # END /\ t.node \in {"fail", "next_row_count"}
    /\ t.tbl = s.col + ColSize /\ t.col = s.col /\ Wrote(t, s, s.col + ColSize, TblSize)

(* A column after the TblSpec of its table, or after another column.       *)
TblColWritten(t, s, a) ==
    /\ \/ s.node = "col_name" /\ t.node \in {"fail", "col_type"}
       \/ s.node = "tbl_col_name" /\ a # END /\ t.node \in {"fail", "next_col_type"}
    /\ t.tbl = s.tbl /\ t.col = s.tbl + TblSize /\ Wrote(t, s, s.tbl + TblSize, ColSize)

ColWritten(t, s, a) ==
    /\ a # END
    /\ \/ s.node = "next_col_name" /\ t.node \in {"fail", "next_col_type"}
       \/ s.node = "next_join" /\ t.node \in {"fail"} \union ColumnNodes
    /\ t.tbl = s.tbl /\ t.col = s.col + ColSize /\ Wrote(t, s, s.col + ColSize, ColSize)

Moves(t, s, a) ==
    \/ Unmoved(t, s) \/ DbWritten(t, s) \/ FirstTblWritten(t, s) \/ FirstTblBegun(t, s)
    \/ TblWritten(t, s, a) \/ TblColWritten(t, s, a) \/ ColWritten(t, s, a)

(* Where a function that reads an argument puts a spec. *)
LEMMA ReadMoves ==
    ASSUME Shape, NEW t, NEW r, NEW a, Entering(r, a), Reads(t, r, a)
    PROVE  t.db = state.db /\ t.kept = state.kept /\ Moves(t, state, a)
<1>1. /\ r.tbl = state.tbl /\ r.col = state.col /\ r.top = state.top
      /\ r.clobbered = state.clobbered /\ r.db = state.db /\ r.kept = state.kept
  BY DEF Entering, Keeps, Fields, Own
<1>2. t.db = state.db /\ t.kept = state.kept
  BY ReadKeeps DEF Keeps, Fields, Moving, Own
<1>3. ASSUME NEW changed, Keeps(t, r, changed)
      PROVE  /\ "tbl" \notin changed => t.tbl = state.tbl
             /\ "col" \notin changed => t.col = state.col
             /\ {"top", "clobbered"} \intersect changed = {} => Unwritten(t, state)
  BY <1>1, <1>3 DEF Keeps, Fields, Unwritten
<1>4. ASSUME NEW at, NEW size, Wrote(t, r, at, size) PROVE Wrote(t, state, at, size)
  BY <1>1, <1>4 DEF Wrote
<1>5. CASE Stops(t, r, a)
  <2>1. t.tbl = state.tbl /\ t.col = state.col /\ Unwritten(t, state)
    BY <1>3, <1>5 DEF Stops, Own
  <2> QED
    BY <1>2, <1>5, <2>1 DEF Moves, Unmoved, Stops, Failed
<1>6. CASE FirstReads(t, r, a)
  <2>1. CASE state.node = "db_specs"
    <3>1. Goes(t, r, {"spec"}, a, "db_name")
      BY <1>6, <2>1 DEF FirstReads
    <3>2. t.tbl = state.tbl /\ t.col = state.col /\ Unwritten(t, state)
      BY <1>3, <3>1 DEF Goes, Own
    <3> QED
      BY <1>2, <3>1, <3>2 DEF Moves, Unmoved, Goes, Failed
  <2>2. CASE state.node = "db_name"
    <3>1. Goes(t, r, {"top", "clobbered"}, a, "tbl_flag") /\ Wrote(t, r, r.db, DbSize)
      BY <1>6, <2>2 DEF FirstReads
    <3>2. t.tbl = state.tbl /\ t.col = state.col /\ Wrote(t, state, state.db, DbSize)
      BY <1>1, <1>3, <1>4, <3>1 DEF Goes, Own
    <3> QED
      BY <1>2, <2>2, <3>1, <3>2 DEF Moves, DbWritten, Goes, Failed
  <2>3. CASE state.node = "tbl_flag"
    <3>1. Goes(t, r, {}, a, "tbl_name")
      BY <1>6, <2>3 DEF FirstReads
    <3>2. t.tbl = state.tbl /\ t.col = state.col /\ Unwritten(t, state)
      BY <1>3, <3>1 DEF Goes, Own
    <3> QED
      BY <1>2, <3>1, <3>2 DEF Moves, Unmoved, Goes, Failed
  <2>4. CASE state.node = "tbl_name"
    <3>1. /\ Goes(t, r, {"top", "clobbered"}, a, "row_count")
          /\ Wrote(t, r, r.db + DbSize, TblSize)
      BY <1>6, <2>4 DEF FirstReads
    <3>2. t.tbl = state.tbl /\ t.col = state.col /\ Wrote(t, state, state.db + DbSize, TblSize)
      BY <1>1, <1>3, <1>4, <3>1 DEF Goes, Own
    <3> QED
      BY <1>2, <2>4, <3>1, <3>2 DEF Moves, FirstTblWritten, Goes, Failed
  <2>5. CASE state.node = "row_count"
    <3>1. /\ Goes(t, r, {"tbl", "tables", "database"}, a, "col_flag")
          /\ t.tbl = r.db + DbSize
      BY <1>6, <2>5 DEF FirstReads
    <3>2. t.tbl = state.db + DbSize /\ t.col = state.col /\ Unwritten(t, state)
      BY <1>1, <1>3, <3>1 DEF Goes, Own
    <3> QED
      BY <1>2, <2>5, <3>1, <3>2 DEF Moves, FirstTblBegun, Goes, Failed
  <2>6. CASE state.node = "col_flag"
    <3>1. Goes(t, r, {}, a, "col_name")
      BY <1>6, <2>6 DEF FirstReads
    <3>2. t.tbl = state.tbl /\ t.col = state.col /\ Unwritten(t, state)
      BY <1>3, <3>1 DEF Goes, Own
    <3> QED
      BY <1>2, <2>6, <3>1, <3>2 DEF Moves, Unmoved, Goes, Failed
  <2>7. CASE state.node = "col_name"
    <3>1. NewColumn(t, r, r.tbl + TblSize, a, "col_type")
      BY <1>6, <2>7 DEF FirstReads
    <3>2. /\ t.tbl = state.tbl /\ t.col = state.tbl + TblSize
          /\ Wrote(t, state, state.tbl + TblSize, ColSize)
      BY <1>1, <1>3, <1>4, <3>1 DEF NewColumn, Goes, Own
    <3> QED
      BY <1>2, <2>7, <3>1, <3>2 DEF Moves, TblColWritten, NewColumn, Goes, Failed
  <2>8. CASE state.node = "col_type"
    <3>1. Starts(t, r, {}, a)
      BY <1>6, <2>8 DEF FirstReads
    <3>2. t.tbl = state.tbl /\ t.col = state.col /\ Unwritten(t, state)
      BY <1>3, <3>1 DEF Starts, Own
    <3> QED
      BY <1>2, <2>8, <3>1, <3>2 DEF Moves, Unmoved, Starts, Failed
  <2> QED
    BY <1>6, <2>1, <2>2, <2>3, <2>4, <2>5, <2>6, <2>7, <2>8 DEF FirstReads
<1>7. CASE LaterReads(t, r, a)
  <2>1. CASE state.node = "next_tbl_name"
    <3>1. /\ Goes(t, r, {"top", "clobbered", "tbl"}, a, "next_row_count") /\ a # END
          /\ Wrote(t, r, r.col + ColSize, TblSize) /\ t.tbl = r.col + ColSize
      BY <1>7, <2>1 DEF LaterReads, ColumnNodes
    <3>2. /\ t.tbl = state.col + ColSize /\ t.col = state.col
          /\ Wrote(t, state, state.col + ColSize, TblSize)
      BY <1>1, <1>3, <1>4, <3>1 DEF Goes, Own
    <3> QED
      BY <1>2, <2>1, <3>1, <3>2 DEF Moves, TblWritten, Goes, Failed
  <2>2. CASE state.node = "next_row_count"
    <3>1. Goes(t, r, {"tables"}, a, "tbl_col_flag")
      BY <1>7, <2>2 DEF LaterReads, ColumnNodes
    <3>2. t.tbl = state.tbl /\ t.col = state.col /\ Unwritten(t, state)
      BY <1>3, <3>1 DEF Goes, Own
    <3> QED
      BY <1>2, <2>2, <3>1, <3>2 DEF Moves, Unmoved, Goes, Failed
  <2>3. CASE state.node = "tbl_col_flag"
    <3>1. Goes(t, r, {"database"}, a, "tbl_col_name")
      BY <1>7, <2>3 DEF LaterReads, ColumnNodes
    <3>2. t.tbl = state.tbl /\ t.col = state.col /\ Unwritten(t, state)
      BY <1>3, <3>1 DEF Goes, Own
    <3> QED
      BY <1>2, <2>3, <3>1, <3>2 DEF Moves, Unmoved, Goes, Failed
  <2>4. CASE state.node = "tbl_col_name"
    <3>1. NewColumn(t, r, r.tbl + TblSize, a, "next_col_type") /\ a # END
      BY <1>7, <2>4 DEF LaterReads, ColumnNodes
    <3>2. /\ t.tbl = state.tbl /\ t.col = state.tbl + TblSize
          /\ Wrote(t, state, state.tbl + TblSize, ColSize)
      BY <1>1, <1>3, <1>4, <3>1 DEF NewColumn, Goes, Own
    <3> QED
      BY <1>2, <2>4, <3>1, <3>2 DEF Moves, TblColWritten, NewColumn, Goes, Failed
  <2>5. CASE state.node = "next_col_name"
    <3>1. NewColumn(t, r, r.col + ColSize, a, "next_col_type") /\ a # END
      BY <1>7, <2>5 DEF LaterReads, ColumnNodes
    <3>2. /\ t.tbl = state.tbl /\ t.col = state.col + ColSize
          /\ Wrote(t, state, state.col + ColSize, ColSize)
      BY <1>1, <1>3, <1>4, <3>1 DEF NewColumn, Goes, Own
    <3> QED
      BY <1>2, <2>5, <3>1, <3>2 DEF Moves, ColWritten, NewColumn, Goes, Failed
  <2>6. CASE state.node = "next_col_type"
    <3>1. Starts(t, r, {"database"}, a)
      BY <1>7, <2>6 DEF LaterReads, ColumnNodes
    <3>2. t.tbl = state.tbl /\ t.col = state.col /\ Unwritten(t, state)
      BY <1>3, <3>1 DEF Starts, Own
    <3> QED
      BY <1>2, <2>6, <3>1, <3>2 DEF Moves, Unmoved, Starts, Failed
  <2>7. CASE state.node = "next_join"
    <3>1. /\ Starts(t, r, {"top", "clobbered", "col", "database"}, a) /\ a # END
          /\ Wrote(t, r, r.col + ColSize, ColSize) /\ t.col = r.col + ColSize
      BY <1>7, <2>7 DEF LaterReads, ColumnNodes
    <3>2. /\ t.tbl = state.tbl /\ t.col = state.col + ColSize
          /\ Wrote(t, state, state.col + ColSize, ColSize)
      BY <1>1, <1>3, <1>4, <3>1 DEF Starts, Own
    <3> QED
      BY <1>2, <2>7, <3>1, <3>2 DEF Moves, ColWritten, Starts, Failed
  <2>8. CASE state.node \in ColumnNodes
    <3>1. Starts(t, r, {"join"}, a) \/ Outcome(t, r, a)
      BY <1>7, <2>8 DEF LaterReads, ColumnNodes
    <3>2. t.tbl = state.tbl /\ t.col = state.col /\ Unwritten(t, state)
      BY <1>3, <3>1 DEF Starts, Outcome, Own
    <3> QED
      BY <1>2, <2>8, <3>1, <3>2 DEF Moves, Unmoved, Starts, Outcome, Failed
  <2> QED
    BY <1>7, <2>1, <2>2, <2>3, <2>4, <2>5, <2>6, <2>7, <2>8 DEF LaterReads, ColumnNodes
<1> QED
  BY <1>5, <1>6, <1>7 DEF Reads

-----------------------------------------------------------------------------
(* The layout after a step, from where the specs are. *)
Based(s) == Numbers(s) /\ Intact(s) /\ Topped(s) /\ DbPlaced(s)

EarlyNodes == {"dispatch", "db_specs", "db_name", "tbl_flag", "tbl_name", "row_count",
               "fail", "error"}

(* Layout, by the function to be entered. *)
LEMMA LayoutAt ==
    ASSUME NEW t, Based(t)
    PROVE  /\ t.node \in EarlyNodes => Layout(t)
           /\ t.node \in {"col_flag", "col_name"} /\ t.tbl = t.db + DbSize => Layout(t)
           /\ t.node \in {"col_type", "next_col_type"} /\ ColPlaced(t, 6) => Layout(t)
           /\ t.node \in ColumnNodes /\ ColPlaced(t, 7) => Layout(t)
           /\ t.node \in AfterColumn /\ ColPlaced(t, 8) => Layout(t)
           /\ t.node = "next_row_count" /\ TblPlaced(t, 5) => Layout(t)
           /\ t.node = "tbl_col_flag" /\ TblPlaced(t, 6) => Layout(t)
           /\ t.node = "tbl_col_name" /\ TblPlaced(t, 7) => Layout(t)
<1>1. t.node \in EarlyNodes => Layout(t)
  BY DEF Layout, Based, EarlyNodes, AfterColumn, ColumnNodes
<1>2. t.node \in {"col_flag", "col_name"} /\ t.tbl = t.db + DbSize => Layout(t)
  BY DEF Layout, Based, AfterColumn, ColumnNodes
<1>3. t.node \in {"col_type", "next_col_type"} /\ ColPlaced(t, 6) => Layout(t)
  BY DEF Layout, Based, AfterColumn, ColumnNodes
<1>4. t.node \in ColumnNodes /\ ColPlaced(t, 7) => Layout(t)
  BY DEF Layout, Based, AfterColumn, ColumnNodes
<1>5. t.node \in AfterColumn /\ ColPlaced(t, 8) => Layout(t)
  BY DEF Layout, Based, AfterColumn, ColumnNodes
<1>6. t.node = "next_row_count" /\ TblPlaced(t, 5) => Layout(t)
  BY DEF Layout, Based, AfterColumn, ColumnNodes
<1>7. t.node = "tbl_col_flag" /\ TblPlaced(t, 6) => Layout(t)
  BY DEF Layout, Based, AfterColumn, ColumnNodes
<1>8. t.node = "tbl_col_name" /\ TblPlaced(t, 7) => Layout(t)
  BY DEF Layout, Based, AfterColumn, ColumnNodes
<1> QED
  BY <1>1, <1>2, <1>3, <1>4, <1>5, <1>6, <1>7, <1>8

(* The first TblSpec of a DB_SPEC. *)
LEMMA FirstSpace ==
    ASSUME NEW s, Numbers(s), s.spec \in Nat, DbPlaced(s)
    PROVE  Space(s.db + DbSize + TblSize, s.spec)
<1>1. PICK db \in Nat, spec \in Nat : db = s.db /\ spec = s.spec
  BY DEF Numbers
<1>2. PICK x \in Nat, y \in Nat : x = DbSize /\ y = TblSize
  BY Sized
<1>3. CASE db = 0
  <2>1. db + DbSize + TblSize = DbSize + TblSize
    BY <1>2, <1>3
  <2> QED
    BY <1>1, <2>1, SpaceStart
<1>4. CASE Space(db, spec - 6)
  <2>1. Space(db + x, spec - 6 + 2)
    BY <1>2, <1>4, Sized, SpaceGrow
  <2>2. Space(db + x + y, spec - 6 + 2 + 2)
    BY <1>2, <2>1, Sized, SpaceGrow
  <2>3. Space(db + x + y, spec)
    BY <2>2, SpaceMore
  <2> QED
    BY <1>1, <1>2, <2>3
<1> QED
  BY <1>1, <1>3, <1>4 DEF DbPlaced

(* A struct that is written after what is kept, in the allocation. *)
LEMMA WrittenWell ==
    ASSUME argc \in Nat, NEW s, Based(s), NEW t, NEW at \in Nat, NEW size \in Nat,
           Wrote(t, s, at, size), s.db <= at,
           NEW n \in Int, Space(at + size, n), n + 6 <= argc
    PROVE  t.top \in Nat /\ Intact(t) /\ Topped(t)
<1>1. at + size <= SpecAlloc
  BY SpaceFits
<1>2. PICK top \in Nat, db \in Nat, kept \in Nat : top = s.top /\ db = s.db /\ kept = s.kept
  BY DEF Based, Numbers
<1>3. kept <= db /\ db <= at
  BY <1>2 DEF Based, DbPlaced
<1>4. t.clobbered = (s.clobbered \/ at < kept) /\ ~(at < kept)
  BY <1>2, <1>3 DEF Wrote
<1>5. Intact(t)
  BY <1>4 DEF Based, Intact
<1>6. t.top = top \/ t.top = at + size
  BY <1>2 DEF Wrote, Larger
<1>7. Topped(t)
  BY <1>1, <1>2, <1>6 DEF Topped, Based
<1> QED
  BY <1>5, <1>6, <1>7

(* t is s, but for the specs that a read has put somewhere. *)
LEMMA BasedRead ==
    ASSUME NEW s, Based(s), NEW t, t.db = s.db, t.kept = s.kept, t.spec = s.spec,
           t.top \in Nat, Intact(t), Topped(t), t.tbl \in Nat, t.col \in Nat
    PROVE  Based(t)
BY DEF Based, Numbers, DbPlaced

(* Nothing written, nothing written over. *)
LEMMA BasedUnwritten ==
    ASSUME NEW s, Based(s), NEW t, Unwritten(t, s)
    PROVE  t.top \in Nat /\ Intact(t) /\ Topped(t)
BY DEF Based, Numbers, Unwritten, Intact, Topped

(* Placed as before, one argument on. *)
LEMMA PlacedOn ==
    ASSUME NEW s, Based(s), NEW t, t.db = s.db, s.from \in Int, t.from = s.from + 1,
           NEW j \in Nat, NEW k \in Nat, k <= j + 1
    PROVE  /\ t.col = s.col /\ ColPlaced(s, j) => ColPlaced(t, k)
           /\ t.tbl = s.tbl /\ TblPlaced(s, j) => TblPlaced(t, k)
<1>1. PICK db \in Nat, tbl \in Nat, col1 \in Nat, from \in Int :
         db = s.db /\ tbl = s.tbl /\ col1 = s.col /\ from = s.from
  BY DEF Based, Numbers
<1>2. from - j \in Int /\ from + 1 - k \in Int /\ from - j <= from + 1 - k
  OBVIOUS
<1>3. ASSUME t.col = s.col, ColPlaced(s, j) PROVE ColPlaced(t, k)
  <2>1. db <= col1 /\ Space(col1, from - j)
    BY <1>1, <1>3 DEF ColPlaced
  <2>2. Space(col1, from + 1 - k)
    BY <1>2, <2>1, SpaceMore
  <2> QED
    BY <1>1, <1>3, <2>1, <2>2 DEF ColPlaced
<1>4. ASSUME t.tbl = s.tbl, TblPlaced(s, j) PROVE TblPlaced(t, k)
  <2>1. db <= tbl /\ Space(tbl + TblSize, from - j)
    BY <1>1, <1>4 DEF TblPlaced
  <2>2. tbl + TblSize \in Nat
    BY Sized
  <2>3. Space(tbl + TblSize, from + 1 - k)
    BY <1>2, <2>1, <2>2, SpaceMore
  <2> QED
    BY <1>1, <1>4, <2>1, <2>3 DEF TblPlaced
<1> QED
  BY <1>3, <1>4

(* One argument further in the same DB_SPEC. *)
Onwards(t, s) ==
    /\ t.db = s.db /\ t.kept = s.kept /\ t.spec = s.spec
    /\ s.from \in Int /\ s.spec \in Nat /\ t.from = s.from + 1

(* The layout after an argument for which no spec is written, *)
LEMMA UnmovedLayout ==
    ASSUME NEW s, Layout(s), Based(s), NEW t, Onwards(t, s), Unmoved(t, s)
    PROVE  Layout(t)
<1>1. t.top \in Nat /\ Intact(t) /\ Topped(t)
  BY BasedUnwritten DEF Unmoved
<1>2. t.tbl = s.tbl /\ t.col = s.col /\ t.tbl \in Nat /\ t.col \in Nat
  BY DEF Unmoved, Based, Numbers
<1>3. Based(t)
  BY <1>1, <1>2, BasedRead DEF Onwards
<1>4. t.db = s.db /\ s.from \in Int /\ t.from = s.from + 1
  BY DEF Onwards
<1>5. CASE t.node \in {"fail", "db_name", "tbl_name"}
  BY <1>3, <1>5, LayoutAt DEF EarlyNodes
<1>6. CASE s.node = "col_flag" /\ t.node = "col_name"
  <2>1. t.tbl = t.db + DbSize
    BY <1>2, <1>4, <1>6 DEF Layout
  <2> QED
    BY <1>3, <1>6, <2>1, LayoutAt
<1>7. CASE s.node \in {"col_type", "next_col_type"} /\ t.node \in ColumnNodes
  <2>1. ColPlaced(s, 6)
    BY <1>7 DEF Layout
  <2>2. ColPlaced(t, 7)
    BY <1>2, <1>4, <2>1, PlacedOn
  <2> QED
    BY <1>3, <1>7, <2>2, LayoutAt
<1>8. CASE s.node \in ColumnNodes /\ t.node \in ColumnNodes \union {"close"}
  <2>1. ColPlaced(s, 7)
    BY <1>8 DEF Layout
  <2>2. ColPlaced(t, 7) /\ ColPlaced(t, 8)
    BY <1>2, <1>4, <2>1, PlacedOn
  <2> QED
    BY <1>3, <1>8, <2>2, LayoutAt DEF AfterColumn
<1>9. CASE s.node = "next_row_count" /\ t.node = "tbl_col_flag"
  <2>1. TblPlaced(s, 5)
    BY <1>9 DEF Layout
  <2>2. TblPlaced(t, 6)
    BY <1>2, <1>4, <2>1, PlacedOn
  <2> QED
    BY <1>3, <1>9, <2>2, LayoutAt
<1>10. CASE s.node = "tbl_col_flag" /\ t.node = "tbl_col_name"
  <2>1. TblPlaced(s, 6)
    BY <1>10 DEF Layout
  <2>2. TblPlaced(t, 7)
    BY <1>2, <1>4, <2>1, PlacedOn
  <2> QED
    BY <1>3, <1>10, <2>2, LayoutAt
<1> QED
  BY <1>5, <1>6, <1>7, <1>8, <1>9, <1>10 DEF Unmoved

(* The specs at the start of a DB_SPEC, which is long enough for them.     *)
LEMMA FirstLayout ==
    ASSUME argc \in Nat, NEW s, Layout(s), Based(s), NEW t, Onwards(t, s), s.spec + 8 <= argc,
           DbWritten(t, s) \/ FirstTblWritten(t, s) \/ FirstTblBegun(t, s)
    PROVE  Layout(t)
<1>1. PICK db \in Nat, spec \in Nat : db = s.db /\ spec = s.spec
  BY DEF Based, Numbers, Onwards
<1>2. PICK x \in Nat, y \in Nat : x = DbSize /\ y = TblSize
  BY Sized
<1>3. Space(db + x + y, spec) /\ spec + 6 <= argc
  <2>1. Space(s.db + DbSize + TblSize, s.spec)
    BY FirstSpace DEF Based, Onwards
  <2>2. spec + 8 <= argc
    BY <1>1
  <2> QED
    BY <1>1, <1>2, <2>1, <2>2
<1>4. s.tbl \in Nat /\ s.col \in Nat /\ s.db \in Nat
  BY DEF Based, Numbers
<1>5. t.db = s.db /\ t.kept = s.kept /\ t.spec = s.spec
  BY DEF Onwards
<1>6. CASE DbWritten(t, s)
  <2>1. Space(db + x, spec)
    BY <1>3, SpaceMore
  <2>2. /\ t.node \in {"fail", "tbl_flag"} /\ t.tbl = s.tbl /\ t.col = s.col
        /\ Wrote(t, s, db, x)
    BY <1>1, <1>2, <1>6 DEF DbWritten
  <2>3. t.top \in Nat /\ Intact(t) /\ Topped(t)
    BY <1>1, <1>3, <2>1, <2>2, WrittenWell
  <2>4. Based(t)
    BY <1>4, <1>5, <2>2, <2>3, BasedRead
  <2> QED
    BY <2>2, <2>4, LayoutAt DEF EarlyNodes
<1>7. CASE FirstTblWritten(t, s)
  <2>1. /\ t.node \in {"fail", "row_count"} /\ t.tbl = s.tbl /\ t.col = s.col
        /\ Wrote(t, s, db + x, y)
    BY <1>1, <1>2, <1>7 DEF FirstTblWritten
  <2>2. s.db <= db + x /\ db + x \in Nat
    BY <1>1
  <2>3. t.top \in Nat /\ Intact(t) /\ Topped(t)
    BY <1>3, <2>1, <2>2, WrittenWell
  <2>4. Based(t)
    BY <1>4, <1>5, <2>1, <2>3, BasedRead
  <2> QED
    BY <2>1, <2>4, LayoutAt DEF EarlyNodes
<1>8. CASE FirstTblBegun(t, s)
  <2>1. /\ t.node \in {"fail", "col_flag"} /\ t.tbl = t.db + DbSize /\ t.col = s.col
    BY <1>5, <1>8 DEF FirstTblBegun
  <2>2. t.top \in Nat /\ Intact(t) /\ Topped(t)
    BY <1>8, BasedUnwritten DEF FirstTblBegun
  <2>3. t.tbl \in Nat
    BY <1>1, <1>2, <1>5, <2>1
  <2>4. Based(t)
    BY <1>4, <1>5, <2>1, <2>2, <2>3, BasedRead
  <2> QED
    BY <2>1, <2>4, LayoutAt DEF EarlyNodes
<1> QED
  BY <1>6, <1>7, <1>8

(* A further TblSpec, and a further ColSpec. *)
LEMMA TblLayout ==
    ASSUME argc \in Nat, NEW s, Layout(s), Based(s), NEW t, Onwards(t, s), NEW a,
           TblWritten(t, s, a), t.from < argc
    PROVE  Layout(t)
<1>1. PICK db \in Nat, c \in Nat, from \in Int : db = s.db /\ c = s.col /\ from = s.from
  BY DEF Based, Numbers, Onwards
<1>2. PICK y \in Nat, z \in Nat : y = TblSize /\ z = ColSize /\ y <= z
  BY Sized
<1>3. /\ s.node = "next_tbl_name" /\ t.node \in {"fail", "next_row_count"}
      /\ t.tbl = c + z /\ t.col = c /\ Wrote(t, s, c + z, y)
  BY <1>1, <1>2 DEF TblWritten
<1>4. db <= c /\ Space(c, from - 8)
  <2>1. ColPlaced(s, 8)
    BY <1>3 DEF Layout, AfterColumn
  <2> QED
    BY <1>1, <2>1 DEF ColPlaced
<1>5. Space(c + z + y, from - 4)
  <2>1. Space(c + z, from - 8 + 2)
    BY <1>2, <1>4, SpaceGrow
  <2>2. Space(c + z + y, from - 8 + 2 + 2)
    BY <1>2, <2>1, SpaceGrow
  <2> QED
    BY <2>2, SpaceMore
<1>6. t.db = db /\ t.kept = s.kept /\ t.spec = s.spec /\ t.from = from + 1 /\ from + 1 < argc
  BY <1>1 DEF Onwards
<1>7. t.top \in Nat /\ Intact(t) /\ Topped(t)
  <2>1. c + z \in Nat /\ s.db <= c + z /\ from - 4 \in Int /\ from - 4 + 6 <= argc
    BY <1>1, <1>4, <1>6
  <2> QED
    BY <1>3, <1>5, <2>1, WrittenWell
<1>8. Based(t)
  BY <1>1, <1>3, <1>6, <1>7, BasedRead
<1>9. TblPlaced(t, 5)
  <2>1. db <= c + z /\ Space(c + z + y, from + 1 - 5)
    BY <1>4, <1>5, SpaceMore
  <2> QED
    BY <1>2, <1>3, <1>6, <2>1 DEF TblPlaced
<1> QED
  BY <1>3, <1>8, <1>9, LayoutAt DEF EarlyNodes

(* and after one for which a ColSpec is. *)
LEMMA ColLayout ==
    ASSUME argc \in Nat, NEW s, Layout(s), Based(s), NEW t, Onwards(t, s), NEW a,
           ColWritten(t, s, a), t.from < argc
    PROVE  Layout(t)
<1>1. PICK db \in Nat, c \in Nat, from \in Int : db = s.db /\ c = s.col /\ from = s.from
  BY DEF Based, Numbers, Onwards
<1>2. PICK z \in Nat : z = ColSize
  BY Sized
<1>3. /\ s.node \in {"next_col_name", "next_join"}
      /\ t.node \in {"fail", "next_col_type"} \union ColumnNodes
      /\ t.tbl = s.tbl /\ t.col = c + z /\ Wrote(t, s, c + z, z)
  BY <1>1, <1>2 DEF ColWritten
<1>4. db <= c /\ Space(c, from - 8)
  <2>1. ColPlaced(s, 8)
    BY <1>3 DEF Layout, AfterColumn
  <2> QED
    BY <1>1, <2>1 DEF ColPlaced
<1>5. Space(c + z, from - 6) /\ Space(c + z + z, from - 4)
  <2>1. Space(c + z, from - 8 + 2)
    BY <1>2, <1>4, SpaceGrow
  <2>2. Space(c + z + z, from - 8 + 2 + 2)
    BY <1>2, <2>1, SpaceGrow
  <2> QED
    BY <2>1, <2>2, SpaceMore
<1>6. t.db = db /\ t.kept = s.kept /\ t.spec = s.spec /\ t.from = from + 1 /\ from + 1 < argc
  BY <1>1 DEF Onwards
<1>7. t.top \in Nat /\ Intact(t) /\ Topped(t)
  <2>1. c + z \in Nat /\ s.db <= c + z /\ from - 4 \in Int /\ from - 4 + 6 <= argc
    BY <1>1, <1>4, <1>6
  <2> QED
    BY <1>2, <1>3, <1>5, <2>1, WrittenWell
<1>8. Based(t)
  <2>1. t.tbl \in Nat /\ t.col \in Nat
    BY <1>3 DEF Based, Numbers
  <2> QED
    BY <1>1, <1>6, <1>7, <2>1, BasedRead
<1>9. ColPlaced(t, 6) /\ ColPlaced(t, 7)
  <2>1. db <= c + z /\ Space(c + z, from + 1 - 6) /\ Space(c + z, from + 1 - 7)
    BY <1>4, <1>5, SpaceMore
  <2> QED
    BY <1>3, <1>6, <2>1 DEF ColPlaced
<1> QED
  BY <1>3, <1>8, <1>9, LayoutAt DEF EarlyNodes

(* The first ColSpec of a table. *)
LEMMA TblColLayout ==
    ASSUME argc \in Nat, NEW s, Layout(s), Based(s), NEW t, Onwards(t, s), NEW a,
           TblColWritten(t, s, a), t.from <= argc, s.node = "col_name" => Within(s, 5)
    PROVE  Layout(t)
<1>1. PICK db \in Nat, b \in Nat, from \in Int, spec \in Nat :
         db = s.db /\ b = s.tbl /\ from = s.from /\ spec = s.spec
  BY DEF Based, Numbers, Onwards
<1>2. PICK x \in Nat, y \in Nat, z \in Nat : x = DbSize /\ y = TblSize /\ z = ColSize
  BY Sized
<1>3. /\ s.node \in {"col_name", "tbl_col_name"}
      /\ t.node \in {"fail", "col_type", "next_col_type"}
      /\ t.tbl = b /\ t.col = b + y /\ Wrote(t, s, b + y, z)
  BY <1>1, <1>2 DEF TblColWritten
<1>4. t.db = db /\ t.kept = s.kept /\ t.spec = spec /\ t.from = from + 1 /\ from + 1 <= argc
  BY <1>1 DEF Onwards
<1>5. db <= b /\ Space(b + y, from - 5) /\ \E n \in Int : Space(b + y + z, n) /\ n + 6 <= argc
  <2>1. CASE s.node = "col_name"
    <3>1. b = db + x
      BY <1>1, <1>2, <2>1 DEF Layout
    <3>2. Space(db + x + y, spec)
      <4>1. Space(s.db + DbSize + TblSize, s.spec)
        BY FirstSpace DEF Based, Onwards
      <4> QED
        BY <1>1, <1>2, <4>1
    <3>3. from = spec + 5 /\ spec + 8 <= argc
      BY <1>1, <2>1 DEF Within
    <3>4. Space(b + y, from - 5)
      BY <3>1, <3>2, <3>3, SpaceMore
    <3>5. Space(b + y + z, spec + 2)
      BY <1>2, <3>1, <3>2, SpaceGrow
    <3>6. spec + 2 \in Int /\ spec + 2 + 6 <= argc
      BY <3>3
    <3> QED
      BY <3>1, <3>4, <3>5, <3>6
  <2>2. CASE s.node = "tbl_col_name"
    <3>1. db <= b /\ Space(b + y, from - 7)
      <4>1. TblPlaced(s, 7)
        BY <2>2 DEF Layout
      <4> QED
        BY <1>1, <1>2, <4>1 DEF TblPlaced
    <3>2. Space(b + y, from - 5)
      BY <3>1, SpaceMore
    <3>3. Space(b + y + z, from - 7 + 2)
      BY <1>2, <3>1, SpaceGrow
    <3>4. from - 7 + 2 \in Int /\ from - 7 + 2 + 6 <= argc
      BY <1>4
    <3> QED
      BY <3>1, <3>2, <3>3, <3>4
  <2> QED
    BY <1>3, <2>1, <2>2
<1>6. t.top \in Nat /\ Intact(t) /\ Topped(t)
  <2>1. b + y \in Nat /\ s.db <= b + y
    BY <1>1, <1>5
  <2> QED
    BY <1>3, <1>5, <2>1, WrittenWell
<1>7. Based(t)
  BY <1>1, <1>3, <1>4, <1>6, BasedRead
<1>8. ColPlaced(t, 6)
  <2>1. db <= b + y /\ Space(b + y, from + 1 - 6)
    BY <1>5, SpaceMore
  <2> QED
    BY <1>3, <1>4, <2>1 DEF ColPlaced
<1> QED
  BY <1>3, <1>7, <1>8, LayoutAt DEF EarlyNodes

(* The layout after a function that reads an argument *)
LEMMA LayoutRead ==
    ASSUME Shape, Place(state), Layout(state), NEW t, NEW r, NEW a,
           Entering(r, a), Reads(t, r, a)
    PROVE  Layout(t)
<1>1. argc \in Nat /\ state.from \in Int /\ state.spec \in Nat
  BY ArgcType, PlaceFrom
<1>2. PICK from \in Int, spec \in Nat, upto \in Nat :
         from = state.from /\ spec = state.spec /\ upto = argc
  BY <1>1
<1>3. /\ t.from = from + 1 /\ r.from = from + 1
      /\ t.spec = IF state.node = "db_specs" THEN t.from ELSE spec
  BY <1>2, ReadKeeps DEF Entering
<1>4. state.node \in FirstNodes => AtFirst(state)
  BY PlaceKinds
<1>5. state.node \in LaterNodes => from < upto
  BY <1>2, PlaceKinds DEF AtLater
<1>6. t.spec = spec
  <2>1. CASE state.node = "db_specs"
    <3>1. from = -1 /\ spec = 0
      BY <1>2, <1>4, <2>1 DEF AtFirst, FirstNodes
    <3> QED
      BY <1>3, <2>1, <3>1
  <2>2. CASE state.node # "db_specs"
    BY <1>3, <2>2
  <2> QED
    BY <2>1, <2>2
<1>7. t.db = state.db /\ t.kept = state.kept /\ Moves(t, state, a)
  BY ReadMoves
<1>8. Onwards(t, state)
  BY <1>1, <1>2, <1>3, <1>6, <1>7 DEF Onwards
<1>9. Based(state)
  <2>1. state.node \notin FinishedNodes
    BY NodesApart DEF NodeKinds, Entering, FinishedNodes
  <2> QED
    BY <2>1 DEF Layout, Based
<1>10. CASE Unmoved(t, state)
  BY <1>8, <1>9, <1>10, UnmovedLayout
<1>11. CASE DbWritten(t, state) \/ FirstTblWritten(t, state) \/ FirstTblBegun(t, state)
  <2>1. state.node \in {"db_name", "tbl_name", "row_count"}
    BY <1>11 DEF DbWritten, FirstTblWritten, FirstTblBegun
  <2>2. state.spec + 8 <= argc
    BY <1>4, <2>1 DEF AtFirst, FirstNodes, Within
  <2> QED
    BY <1>1, <1>8, <1>9, <1>11, <2>2, FirstLayout
<1>12. ASSUME state.node \in LaterNodes, a # END PROVE t.from < argc
  <2>1. (a = END) = (r.from = argc)
    <3>1. state.node \notin FirstNodes
      BY <1>12, NodesApart DEF NodeKinds
    <3> QED
      BY <3>1 DEF Entering
  <2>2. from + 1 # upto
    BY <1>2, <1>3, <1>12, <2>1
  <2> QED
    BY <1>2, <1>3, <1>5, <1>12, <2>2
<1>13. CASE TblWritten(t, state, a)
  <2>1. state.node \in LaterNodes /\ a # END
    BY <1>13 DEF TblWritten, LaterNodes
  <2>2. t.from < argc
    BY <1>12, <2>1
  <2> QED
    BY <1>1, <1>8, <1>9, <1>13, <2>2, TblLayout
<1>14. CASE ColWritten(t, state, a)
  <2>1. state.node \in LaterNodes /\ a # END
    BY <1>14 DEF ColWritten, LaterNodes
  <2>2. t.from < argc
    BY <1>12, <2>1
  <2> QED
    BY <1>1, <1>8, <1>9, <1>14, <2>2, ColLayout
<1>15. CASE TblColWritten(t, state, a)
  <2>1. state.node = "col_name" => Within(state, 5)
    BY <1>4 DEF AtFirst, FirstNodes
  <2>2. t.from <= argc
    <3>1. CASE state.node = "col_name"
      <4>1. from = spec + 5 /\ spec + 8 <= upto
        BY <1>2, <2>1, <3>1 DEF Within
      <4> QED
        BY <1>2, <1>3, <4>1
    <3>2. CASE state.node = "tbl_col_name"
      <4>1. from < upto
        BY <1>5, <3>2 DEF LaterNodes
      <4> QED
        BY <1>2, <1>3, <4>1
    <3> QED
      BY <1>15, <3>1, <3>2 DEF TblColWritten
  <2> QED
    BY <1>1, <1>8, <1>9, <1>15, <2>1, <2>2, TblColLayout
<1> QED
  BY <1>7, <1>10, <1>11, <1>13, <1>14, <1>15 DEF Moves

(* The end of a column, of a DB_SPEC and of the parsing.                   *)
LEMMA LayoutFinished ==
    ASSUME NEW t, t.node \in FinishedNodes, Numbers(t), Intact(t), Topped(t)
    PROVE  Layout(t)
BY DEF Layout, FinishedNodes, ColumnNodes, AfterColumn

(* and after the end of a column. *)
LEMMA LayoutEnded ==
    ASSUME NEW s, Place(s), Layout(s), s.node = "close", NEW t, Ended(t, s)
    PROVE  Layout(t)
<1>1. Based(s) /\ ColPlaced(s, 8)
  BY DEF Layout, Based, FinishedNodes, AfterColumn
<1>2. PICK c \in Nat, db \in Nat, from \in Int : c = s.col /\ db = s.db /\ from = s.from
  BY <1>1, PlaceFrom DEF Based, Numbers
<1>3. PICK z \in Nat : z = ColSize
  BY Sized
<1>4. /\ t.tbl = s.tbl /\ t.col = c /\ t.top = s.top /\ t.clobbered = s.clobbered
      /\ t.from = from
  BY <1>2 DEF Ended, Keeps, Closings, Fields, Own
<1>5. t.top \in Nat /\ Intact(t) /\ Topped(t) /\ t.tbl \in Nat /\ t.col \in Nat
  BY <1>1, <1>2, <1>4 DEF Based, Numbers, Intact, Topped
<1>6. ASSUME Added(t, s) PROVE t.kept = c + z
  BY <1>2, <1>3, <1>6 DEF Added
<1>7. CASE t.node = "done" /\ Added(t, s) /\ t.db = s.db
  <2>1. Numbers(t)
    BY <1>2, <1>3, <1>5, <1>6, <1>7 DEF Numbers
  <2> QED
    BY <1>5, <1>7, <2>1, LayoutFinished DEF FinishedNodes
<1>8. CASE /\ t.node \in {"next_join", "next_col_name", "next_tbl_name"} /\ NotAdded(t, s)
           /\ t.db = s.db /\ t.spec = s.spec
  <2>1. Based(t)
    BY <1>1, <1>5, <1>8, BasedRead DEF NotAdded
  <2>2. ColPlaced(t, 8)
    BY <1>1, <1>2, <1>4, <1>8 DEF ColPlaced
  <2> QED
    BY <1>8, <2>1, <2>2, LayoutAt DEF AfterColumn
<1>9. CASE Added(t, s) /\ t.db = s.col + ColSize /\ \E p : NextDb(t, p) /\ p.from = s.from
  <2>1. PICK p : NextDb(t, p) /\ p.from = from
    BY <1>2, <1>9
  <2>2. t.db = c + z /\ t.kept = c + z
    BY <1>2, <1>3, <1>6, <1>9
  <2>3. Numbers(t)
    BY <1>5, <2>2 DEF Numbers
  <2>4. CASE t.node = "done"
    BY <1>5, <2>3, <2>4, LayoutFinished DEF FinishedNodes
  <2>5. CASE t.node = "db_name" /\ t.spec = p.from
    <3>1. Space(c, from - 8)
      BY <1>1, <1>2 DEF ColPlaced
    <3>2. Space(c + z, from - 8 + 2)
      BY <1>3, <3>1, SpaceGrow
    <3>3. Space(c + z, from - 6)
      BY <3>2, SpaceMore
    <3>4. t.spec = from /\ c + z <= c + z
      BY <2>1, <2>5
    <3>5. DbPlaced(t)
      BY <2>2, <3>3, <3>4 DEF DbPlaced
    <3> QED
      BY <1>5, <2>3, <2>5, <3>5, LayoutAt DEF Based, EarlyNodes
  <2> QED
    BY <2>1, <2>4, <2>5 DEF NextDb
<1> QED
  BY <1>7, <1>8, <1>9 DEF Ended

(* The steps that neither read nor end a column.                           *)
LEMMA LayoutQuiet ==
    ASSUME NEW s, Shape, Place(s), Layout(s), NEW t,
           \/ s.node = "fail" /\ Reported(t, s)
           \/ s.node = "error" /\ Sought(t, s)
           \/ s.node = "dispatch" /\ Dispatched(t, s)
           \/ s.node = "done" /\ Decided(t, s)
    PROVE  Layout(t)
<1>1. Keeps(t, s, {"node", "from", "spec", "status", "told"}) /\ t.node \in QuietNodes
  BY QuietSteps
<1>2. /\ t.db = s.db /\ t.tbl = s.tbl /\ t.col = s.col /\ t.top = s.top /\ t.kept = s.kept
      /\ t.clobbered = s.clobbered
  BY <1>1 DEF Keeps, Fields
<1>3. Numbers(t) /\ Intact(t) /\ Topped(t)
  BY <1>2 DEF Layout, Numbers, Intact, Topped
<1>4. CASE t.node \in FinishedNodes
  BY <1>3, <1>4, LayoutFinished
<1>5. CASE t.node \in QuietNodes \ FinishedNodes
  <2>1. s.node # "done"
    BY <1>5 DEF Decided, FinishedNodes
  <2>2. Based(s)
    BY <2>1 DEF Layout, Based, FinishedNodes
  <2>3. PICK db \in Nat, old \in Nat, from \in Int, upto \in Nat :
           db = s.db /\ old = s.spec /\ from = s.from /\ upto = argc
    BY <2>2, ArgcType, PlaceFrom DEF Based, Numbers
  <2>4. t.spec \in Nat /\ old <= t.spec
    <3>1. CASE s.node = "error" /\ Sought(t, s)
      <4>1. PICK p : /\ Keeps(p, s, {"from"}) /\ NextDb(t, p)
                     /\ p.from \in {upto} \union (from + 1)..(upto - 1)
        BY <2>3, <3>1 DEF Sought
      <4>2. t.spec = p.from
        BY <1>5, <4>1 DEF NextDb, FinishedNodes
      <4>3. old <= from /\ from <= upto
        BY <2>3, <3>1, PlaceEnds
      <4> QED
        BY <4>1, <4>2, <4>3
    <3>2. CASE s.node = "fail" /\ Reported(t, s)
      <4>1. t.spec = s.spec
        BY <3>2 DEF Reported, Keeps, Fields
      <4> QED
        BY <2>3, <4>1
    <3>3. CASE s.node = "dispatch" /\ Dispatched(t, s)
      <4>1. t.spec = s.spec
        BY <3>3 DEF Dispatched, Keeps, Fields
      <4> QED
        BY <2>3, <4>1
    <3> QED
      BY <2>1, <3>1, <3>2, <3>3
  <2>5. DbPlaced(t)
    <3>1. PICK new \in Nat : new = t.spec
      BY <2>4
    <3>2. s.kept <= db /\ (db = 0 \/ Space(db, old - 6))
      BY <2>2, <2>3 DEF Based, DbPlaced
    <3>3. Space(db, old - 6) => Space(db, new - 6)
      <4>1. old - 6 <= new - 6
        BY <2>4, <3>1
      <4> QED
        BY <4>1, SpaceMore
    <3> QED
      BY <1>2, <2>3, <3>1, <3>2, <3>3 DEF DbPlaced
  <2>6. t.node \in EarlyNodes
    BY <1>5 DEF QuietNodes, FinishedNodes, EarlyNodes
  <2> QED
    BY <1>3, <2>5, <2>6, LayoutAt DEF Based
<1> QED
  BY <1>1, <1>4, <1>5

(* The layout at the start. *)
LEMMA LayoutStart == Layout(ParseStart)
<1>1. PICK s : s = ParseStart
  OBVIOUS
<1>2. /\ s.node = "dispatch" /\ s.db = 0 /\ s.tbl = 0 /\ s.col = 0 /\ s.top = 0 /\ s.kept = 0
      /\ s.clobbered = FALSE
  BY <1>1 DEF ParseStart
<1>3. Numbers(s) /\ Intact(s) /\ Topped(s) /\ DbPlaced(s)
  BY <1>2 DEF Numbers, Intact, Topped, DbPlaced
<1>4. Layout(s)
  BY <1>2, <1>3, LayoutAt DEF Based, EarlyNodes
<1> QED
  BY <1>1, <1>4

(* Every spec that is written lies in the allocation, and those of a valid *)
(* database are written no more: what parse_database_complete and the next *)
(* DB_SPEC rely on, and what generate_dispatch has estimated from the      *)
(* number of arguments.                                                    *)
THEOREM SpecsInAllocation == ParseSpec => []SpecsFit
<1>1. ParseInit => Layout(state)
  BY LayoutStart DEF ParseInit
<1>2. Parsed /\ Layout(state) /\ [ParseNext]_parseVars => Layout(state)'
  <2> SUFFICES ASSUME Parsed, Layout(state), [ParseNext]_parseVars PROVE Layout(state)'
    OBVIOUS
  <2>1. Shape /\ Place(state) /\ DOMAIN state.join = JoinFields
    BY DEF Parsed, WellTyped, JoinState
  <2>2. UNCHANGED input
    BY <2>1, StepCases
  <2>3. Layout(state')
    <3>1. CASE UNCHANGED state
      BY <3>1
    <3>2. CASE \E r, a : Entering(r, a) /\ Reads(state', r, a)
      BY <2>1, <3>2, LayoutRead
    <3>3. CASE state.node = "close" /\ Ended(state', state)
      BY <2>1, <3>3, LayoutEnded
    <3>4. CASE \/ state.node = "fail" /\ Reported(state', state)
               \/ state.node = "error" /\ Sought(state', state)
               \/ state.node = "dispatch" /\ Dispatched(state', state)
               \/ state.node = "done" /\ Decided(state', state)
      BY <2>1, <3>4, LayoutQuiet
    <3> QED
      BY <2>1, <3>1, <3>2, <3>3, <3>4, StepCases
  <2> QED
    BY <2>2, <2>3 DEF Layout, Topped, SpecAlloc, argc, Numbers, Intact, DbPlaced, ColPlaced,
                      TblPlaced
<1>3. Layout(state) => SpecsFit
  BY DEF Layout, Numbers, Intact, Topped, SpecsFit
<1> QED
  BY <1>1, <1>2, <1>3, AlwaysParsed, PTL DEF ParseSpec
=============================================================================
