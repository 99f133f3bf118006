----------------------------- MODULE TimeColumn -----------------------------
(***************************************************************************)
(* A column whose values are times: the loop of its builder (GroupColumn)  *)
(* and the string it counts up (TimeString).  The string is set before the *)
(* loop, and moves on when the loop forms its next value.  A column of     *)
(* another type leaves the string alone.                                   *)
(***************************************************************************)
EXTENDS GroupColumn, TimeString

timeColumnVars == <<columnVars, timeVars>>

(* The time columns whose values move on.  The one of UUIDs with groups is *)
(* a builder of the same kind.                                             *)
OfTimes ==
    col \in {build_column_timestamp_unique, build_column_datetime_unique,
             build_column_timestamp_unique_group, build_column_datetime_unique_group}

Fetch == OfTimes /\ timestamp_now /\ UNCHANGED columnVars

(* timestamp_string_increment where the next value is formed. *)
Loop ==
    /\ NextCell \/ NextGroup \/ NextBlock
    /\ OfTimes => values > 0
    /\ IF OfTimes /\ value' # value THEN NextValue ELSE UNCHANGED timeVars

TimeColumnNext == Fetch \/ Loop \/ (Done /\ UNCHANGED timeVars)

TimeColumnSpec ==
    /\ ColumnInit /\ TimeInit
    /\ [][TimeColumnNext]_timeColumnVars
=============================================================================
