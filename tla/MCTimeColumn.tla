---------------------------- MODULE MCTimeColumn ----------------------------
(***************************************************************************)
(* Columns for TLC: any column at one time, and one time column, of five   *)
(* rows in one row block, at any time.  The times: shortly before          *)
(* midnight, as the program sees it, of every day of some years, the last  *)
(* ones a TIMESTAMP can have, and every tenth second of a day of 2018.     *)
(***************************************************************************)
EXTENDS TimeColumn

Years == 1971..2037

YearStart(year) == (year - 1970) * TIME_SECONDS_PER_YEAR - OffsetInYear

Midnights == {YearStart(y) + 86400 * d + 86396 : y \in Years, d \in 0..364}
Mornings == {YearStart(y) + 86400 * d + 6 : y \in Years, d \in 0..365}
LastSeconds == {YearStart(2038) + 86400 * 18 + 11643 + s : s \in 0..8}
OneDay == {YearStart(2018) + 86400 * 44 + 10 * s + 6 : s \in 0..8639}
OneTime == YearStart(2018) + 86400 * 44 + 86396

MCTimes == Midnights \union Mornings \union LastSeconds \union OneDay

AnyColumn == TimeInit /\ type = "timestamp" /\ now = OneTime /\ ColumnInit

AnyTime ==
    /\ TimeInit
    /\ rows = 5 /\ max = RowBlockRowCountMax(20) /\ col = build_column_timestamp_unique
    /\ ColumnInit

MCSpec == (AnyColumn \/ AnyTime) /\ [][TimeColumnNext]_timeColumnVars
=============================================================================
