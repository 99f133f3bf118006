----------------------------- MODULE TimeString -----------------------------
(***************************************************************************)
(* The values of TIMESTAMP and DATETIME columns: the time is fetched once, *)
(* converted (time/time_utils.h) and printed (time/time_string.h), and the *)
(* printed string is then counted up, digit by digit, once per value.      *)
(* "YYYY-MM-DD HH:MM:SS" is a record of its six numbers, whose digits are  *)
(* their tens and ones.                                                    *)
(***************************************************************************)
EXTENDS Integers

CONSTANTS Times,       \* what time() may return
          MaxValues    \* bound on the values of the column

ASSUME TimesAssumption == Times \subseteq Nat /\ MaxValues \in Nat \ {0}

VARIABLES
    type,     \* the type of the column: timestamp, datetime
    now,      \* what time() returns
    string,   \* the column's string
    values    \* values so far

timeVars == <<type, now, string, values>>

Tens(n) == n \div 10
Ones(n) == n % 10

MIN == [year |-> 1970, month |-> 1, day |-> 1, hour |-> 0, minute |-> 0, second |-> 1]
MAX == [year |-> 2038, month |-> 1, day |-> 19, hour |-> 3, minute |-> 14, second |-> 7]

-----------------------------------------------------------------------------
(* The conversion. *)

(* A slip for comparison: no century is a leap year. *)
NoCentury(year) == year % 4 = 0 /\ year % 100 # 0

is_leap_year(year) == year % 4 = 0 /\ (year % 100 # 0 \/ year % 400 = 0)

(* JANUARY_DAY_OFFSET_MAX and so on; a month's _MIN is one more than the   *)
(* _MAX of the month before.                                               *)
DAY_OFFSET_MAX == <<30, 58, 89, 120, 150, 181, 212, 242, 272, 302, 333, 365>>

timestamp_set_month_day(offset, leap) ==
    IF offset <= DAY_OFFSET_MAX[1] THEN [month |-> 1, day |-> 1 + offset]
    ELSE LET m == CHOOSE m \in 2..12 : /\ m = 12 \/ offset - leap <= DAY_OFFSET_MAX[m]
                                       /\ m = 2 \/ offset - leap > DAY_OFFSET_MAX[m - 1]
         IN  [month |-> m, day |-> offset - DAY_OFFSET_MAX[m - 1]]

TIME_SECONDS_PER_YEAR == 31556952
(* TIME_SECONDS_OFFSET is 1970 such years and this.  The sum is formed in  *)
(* 64 bits; written so, it stays within TLC's 32.                          *)
OffsetInYear == 13392

timestamp_init(time) ==
    LET sum == time + OffsetInYear
        rem == sum % TIME_SECONDS_PER_YEAR
        year == 1970 + sum \div TIME_SECONDS_PER_YEAR
        date == timestamp_set_month_day(rem \div 86400, IF is_leap_year(year) THEN 1 ELSE 0)
    IN  [year |-> year, month |-> date.month, day |-> date.day,
         hour |-> (rem % 86400) \div 3600, minute |-> (rem % 3600) \div 60, second |-> rem % 60]

(* The numbers each switch has a case for; others are printed as the       *)
(* default, 01 or 00.                                                      *)
PrintedDays    == (1..31) \ {4, 5}
PrintedHours   == 0..23
PrintedMinutes == 0..59
PrintedSeconds == 0..59

timestamp_string_init(timestamp) ==
    LET Printed(n, cases, default) == IF n \in cases THEN n ELSE default
    IN  [year   |-> timestamp.year,
         month  |-> Printed(timestamp.month, 1..12, 1),
         day    |-> Printed(timestamp.day, PrintedDays, 1),
         hour   |-> Printed(timestamp.hour, PrintedHours, 0),
         minute |-> Printed(timestamp.minute, PrintedMinutes, 0),
         second |-> Printed(timestamp.second, PrintedSeconds, 0)]

-----------------------------------------------------------------------------
(* The increment. *)
DayOver(s) == s.hour = 23 /\ s.minute = 59 /\ s.second = 59

clock_increment(s) ==
    CASE s.second < 59 -> [s EXCEPT !.second = @ + 1]
      [] s.second = 59 /\ s.minute < 59 -> [s EXCEPT !.second = 0, !.minute = @ + 1]
      [] OTHER -> [s EXCEPT !.second = 0, !.minute = 0, !.hour = (@ + 1) % 24]

(* The digits after which the year moves on: month 1x, day 31. *)
YearOver(s) == Tens(s.month) = 1 /\ s.day = 31

(* The month that follows day 31, of a month that begins with 0. *)
After31(month) == IF month \in {1, 3, 5, 7} THEN month + 1 ELSE 9

(* The month that follows day 30, or the same month if it has a day 31. *)
After30(month) == CASE month \in {10, 11}  -> 12
                    [] month \in {4, 6, 9} -> month + 1
                    [] OTHER               -> month

date_increment(s) ==
    LET To(month, day) == [s EXCEPT !.month = month, !.day = day]
        februaryEnds == s.month = 2 /\ Tens(s.day) = 2
    IN  CASE Ones(s.day) = 0 -> IF Tens(s.day) = 3 /\ After30(s.month) # s.month
                                THEN To(After30(s.month), 1) ELSE To(s.month, s.day + 1)
          [] Ones(s.day) = 1 -> IF Tens(s.day) = 3 THEN To(After31(s.month), 1)
                                ELSE To(s.month, s.day + 1)
          [] Ones(s.day) \in 2..7 -> To(s.month, s.day + 1)
          \* the tens move on from 8 as they do from 9
          [] Ones(s.day) = 8 -> IF ~februaryEnds THEN To(s.month, 10 * (Tens(s.day) + 1))
                                ELSE IF is_leap_year(s.year) THEN To(2, 29) ELSE To(3, 1)
          [] Ones(s.day) = 9 -> IF februaryEnds THEN To(3, 1)
                                ELSE To(s.month, 10 * (Tens(s.day) + 1))

NewYear(s, year) == [s EXCEPT !.year = year, !.month = 1, !.day = 1]

timestamp_new_year(s) == NewYear(s, IF s.year % 1000 = 999 THEN 2000 ELSE s.year + 1)

datetime_new_year(s) == NewYear(s, IF s.year = 9999 THEN 1000 ELSE s.year + 1)

(* A slip for comparison: the largest TIMESTAMP is not noticed. *)
NoOverflow(s) == [s EXCEPT !.second = @ + 1]

timestamp_string_increment_overflow(s) == IF s = MAX THEN MIN ELSE [s EXCEPT !.second = @ + 1]

timestamp_string_increment(s) ==
    LET t == clock_increment(s)
    IN  IF Ones(s.second) = 7 THEN timestamp_string_increment_overflow(s)
        ELSE IF ~DayOver(s) THEN t
        ELSE IF YearOver(s) THEN timestamp_new_year(t)
        ELSE date_increment(t)

datetime_string_increment(s) ==
    LET t == clock_increment(s)
    IN  IF ~DayOver(s) THEN t
        ELSE IF YearOver(s) THEN datetime_new_year(t)
        ELSE date_increment(t)

-----------------------------------------------------------------------------
TimeInit ==
    /\ type \in {"timestamp", "datetime"} /\ now \in Times
    /\ string = MIN /\ values = 0

(* timestamp_now_handle_cl, then the string. *)
timestamp_now ==
    /\ values = 0
    /\ string' = timestamp_string_init(timestamp_init(now))
    /\ values' = 1 /\ UNCHANGED <<type, now>>

NextValue ==
    /\ values \in 1..MaxValues - 1
    /\ string' = IF type = "timestamp" THEN timestamp_string_increment(string)
                 ELSE datetime_string_increment(string)
    /\ values' = values + 1 /\ UNCHANGED <<type, now>>

-----------------------------------------------------------------------------
(* The calendar, for reference. *)
Leap(year) == \/ year % 4 = 0 /\ year % 100 # 0
              \/ year % 400 = 0

Length(year, month) == CASE month = 2 -> IF Leap(year) THEN 29 ELSE 28
                         [] month \in {4, 6, 9, 11} -> 30
                         [] OTHER -> 31

Exists(s) == s.day <= Length(s.year, s.month)

(* Days from 1970-01-01, for a year of 31 days a month and the corrections *)
(* for shorter months that have passed.                                    *)
DayNumber(s) ==
    LET y == s.year - 1
        short(m, d) == IF s.month > m THEN d ELSE 0
    IN  365 * (s.year - 1970) + (y \div 4 - y \div 100 + y \div 400 - 477)
        + 31 * (s.month - 1) - short(2, IF Leap(s.year) THEN 2 ELSE 3)
        - short(4, 1) - short(6, 1) - short(9, 1) - short(11, 1) + s.day - 1

SecondOfDay(s) == 3600 * s.hour + 60 * s.minute + s.second

Before(s, t) == \/ DayNumber(s) < DayNumber(t)
                \/ DayNumber(s) = DayNumber(t) /\ SecondOfDay(s) < SecondOfDay(t)

Counting == values \in 1..MaxValues - 1 /\ Exists(string)
Wraps == type = "timestamp" /\ string = MAX

(* "1 second apart" (README.md): a value is followed by the next second of *)
(* the calendar, leap days, month and year ends included.  Not so the last *)
(* second of an 8th, 18th or 28th, where a day is skipped, and of October  *)
(* 30th and 31st, after which come December and the next year.             *)
SecondsApart ==
    [][Counting /\ ~Wraps
       /\ ~(DayOver(string) /\ (\/ Ones(string.day) = 8 /\ ~(string.month = 2 /\ string.day = 28)
                                \/ string.month = 10 /\ string.day >= 30))
       => IF DayOver(string)
          THEN DayNumber(string') = DayNumber(string) + 1 /\ SecondOfDay(string') = 0
          ELSE /\ DayNumber(string') = DayNumber(string)
               /\ SecondOfDay(string') = SecondOfDay(string) + 1]_timeVars

(* "ascending" (README.md): even where seconds are skipped the next value  *)
(* is a later one, is a date there is, and a TIMESTAMP is one MySQL can    *)
(* store: the largest is followed by the smallest.  And whatever date was  *)
(* printed first, the next day is one there is ("ill-formed days,          *)
(* guaranteed to set valid", time_string.h:471).                           *)
Ascending ==
    [][/\ Counting => /\ Exists(string')
                      /\ IF Wraps THEN string' = MIN ELSE Before(string, string')
                      /\ type = "timestamp" /\ ~Before(MAX, string) => ~Before(MAX, string')
       /\ values >= 1 /\ string'.day # string.day => Exists(string')]_timeVars

(* "starting from current timestamp" (README.md): the first value is the   *)
(* time that was fetched.  The table of month offsets and the year of mean *)
(* length do not keep to it, nor the 4th and 5th, printed as the 1st.      *)
StartsNow ==
    values = 1 => /\ DayNumber(string) = now \div 86400
                  /\ SecondOfDay(string) = now % 86400
=============================================================================
