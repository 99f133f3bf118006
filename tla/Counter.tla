------------------------------ MODULE Counter ------------------------------
(***************************************************************************)
(* build_counter (generate/counter.h, counter.c): an array of upto + 1     *)
(* pointers and behind it the strings "1" ... "upto", filled from the      *)
(* highest magnitude down to the lowest by incrementing an ASCII buffer.   *)
(* Columns take whole ranges of it, from pointers[i] to pointers[j], as    *)
(* the text of rows i + 1 .. j, so the strings must abut exactly.          *)
(***************************************************************************)
EXTENDS CounterSizes

CONSTANT Uptos    \* the values of counter->upto considered

ASSUME UptosAssumption == Uptos \subseteq 1..UPTO_MAX

VARIABLES
    upto,         \* counter->upto
    mag,          \* the magnitude being filled, -1 at the end
    current,      \* index of the pointer that is set next
    until,        \* index at which the magnitude ends
    buffer,       \* the digits of the string that is written next
    pointers,     \* index -> offset into digits, for the pointers set so far
    text          \* offset -> the digits written there

fillVars == <<upto, mag, current, until, buffer, pointers, text>>

(* mag_x_min_string: "1", "10", "100", ... *)
MinString(m) == [i \in 1..m + 1 |-> IF i = 1 THEN 1 ELSE 0]

(* A slip for comparison: nothing is carried. *)
IncrementNoCarry(d) == [d EXCEPT ![Len(d)] = @ + 1]

(* count_buffer_increment: the trailing nines become zeros and the digit   *)
(* before them goes up by one; the leftmost digit of the buffer stays 9.   *)
count_buffer_increment(d) ==
    LET carry == {i \in 2..Len(d) : \A j \in i..Len(d) : d[j] = 9}
        top   == Len(d) - IF carry = {} THEN 0
                          ELSE 1 + Len(d) - (CHOOSE i \in carry : \A j \in carry : i <= j)
    IN  [i \in 1..Len(d) |-> IF i > top THEN 0
                             ELSE IF i = top THEN (IF d[i] = 9 THEN 9 ELSE d[i] + 1)
                             ELSE d[i]]

(* counter_size_internals, the last pointer, and the first magnitude. *)
FillInit ==
    /\ upto \in Uptos
    /\ mag = Mag(upto)
    /\ current = MAG_MIN[mag + 1] - 1
    /\ until = upto
    /\ buffer = MinString(mag)
    /\ pointers = [i \in {upto} |-> counter_size_upto(upto)]
    /\ text = [o \in {} |-> <<>>]

(* SET_RANGE_DIGITS_MAG_UPTO: copy the buffer, point at the copy, and      *)
(* increment unless the magnitude is complete; then go to the next lower.  *)
SetDigits ==
    /\ mag >= 0
    /\ LET first  == MAG_MIN[mag + 1] - 1
           offset == SIZE_MAG_0_STR[mag + 1] + SIZE_MAG_STR[mag + 1] * (current - first)
       IN  /\ pointers' = [i \in DOMAIN pointers \cup {current} |->
                             IF i = current THEN offset ELSE pointers[i]]
           /\ text' = [o \in DOMAIN text \cup {offset} |->
                         IF o = offset THEN buffer ELSE text[o]]
           /\ IF current + 1 # until
              THEN /\ current' = current + 1
                   /\ buffer' = count_buffer_increment(buffer)
                   /\ UNCHANGED <<mag, until>>
              ELSE /\ mag' = mag - 1
                   /\ until' = first
                   /\ current' = IF mag = 0 THEN 0 ELSE MAG_MIN[mag] - 1
                   /\ buffer' = IF mag = 0 THEN <<>> ELSE MinString(mag - 1)
    /\ UNCHANGED upto

-----------------------------------------------------------------------------
(* At the end the pointers are all set and every one is the end of the     *)
(* string before it, across all changes of magnitude, the last one the end *)
(* of the allocation.  build_column_integer_unique takes the difference of *)
(* two pointers as the length of the text between them.                    *)
PointersAbut ==
    mag = -1 =>
        /\ DOMAIN pointers = 0..upto
        /\ pointers[0] = 0
        /\ \A k \in 1..upto : pointers[k] = pointers[k - 1] + counter_size_mag_upto(k)

(* The decimal digits of n, most significant first. *)
Decimal(n) ==
    [i \in 1..Mag(n) + 1 |-> (n \div MAG_MIN[Mag(n) + 2 - i]) % 10]

(* At the end pointers[k - 1] leads to the digits of k, and they and the   *)
(* null byte take the room reserved for them.                              *)
StringsInPlace ==
    mag = -1 => \A k \in 1..upto : /\ text[pointers[k - 1]] = Decimal(k)
                                   /\ Len(Decimal(k)) + 1 = counter_size_mag_upto(k)
=============================================================================
