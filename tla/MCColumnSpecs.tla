---------------------------- MODULE MCColumnSpecs ----------------------------
(***************************************************************************)
(* The two modules that share ColumnSpecs, for TLC: the parser, which sets *)
(* columns up, and the random columns, which draw by what was set.  They   *)
(* have no variable in common, so a behaviour is one of either, while the  *)
(* other stays where it began.                                             *)
(***************************************************************************)
EXTENDS GenerateParse, RandomColumn

VARIABLE subject   \* "parser" or "column"

(* The two widths that the generators tell apart; the smaller types are    *)
(* never chosen for a random column.                                       *)
MCWidths == [tinyint |-> 2, smallint |-> 2, mediumint |-> 2, int |-> 4, bigint |-> 16]

MCNumerals == [n \in {"-2", "0", "1", "2", "3", "9"} |->
                 CASE n = "-2" -> -2 [] n = "0" -> 0 [] n = "1" -> 1
                   [] n = "2" -> 2   [] n = "3" -> 3 [] n = "9" -> 9]

Skeleton == {DbFlag, TblFlag, ColFlag, "2"}

Joins == Skeleton \union {"-s", "-j", "+"}

(* Each input is a number of arguments and the set they are drawn from,    *)
(* one set for each part of the grammar.                                   *)
MCInputs ==
    \* names and counts, and too few arguments
    [argc : 0..9, args : {Skeleton \union Words \union {"0", "9", "-ts"}}]
    \* several databases, tables and columns
    \union [argc : 10..18, args : {Skeleton \union {"-i", "1"}}]
    \* each type of column
    \union [argc : 8..14,
            args : {Skeleton \union {"-i", "-f", "-r", "-u", "-2", GrpFlag, "-e"},
                    Skeleton \union {"-u", "-f", "-r", "0", GrpFlag, "-l"}}]
    \union [argc : 8..12,
            args : {Skeleton \union {"-ts", "-dt", "-u", "-f", "word", GrpFlag},
                    Skeleton \union Words \union
                        {"-s", "-u", "-uu", "-f", "-h", "-n1", "-nl", "-nf", "9", GrpFlag}}]
    \* and of JOIN
    \union [argc : 8..15,
            args : {Joins \union {"-i", "-f", "-r", "-u", GrpFlag},
                    Joins \union {"word", "3", GrpFlag, "-e"}}]
    \union [argc : 8..14,
            args : {Joins \union {"-u", "-f", "-r", GrpFlag},
                    Joins \union {"-uu", "-h", "-nf", "-n1", "-nl", "-f", "-u"},
                    Joins \union {"-ts", "-dt", "-f", "", "too long"}}]
-----------------------------------------------------------------------------
OneAsk == [col |-> "u_integer", how |-> "default", values |-> <<>>, grouped |-> FALSE,
           joined |-> FALSE, rows |-> 1, grp |-> 1]

ParserInit ==
    /\ subject = "parser" /\ ParseInit
    /\ ask = OneAsk /\ col = SetColumn(OneAsk) /\ drawn = {} /\ value = {}

RandomInit ==
    /\ subject = "column" /\ Init
    /\ input = [argc |-> 0, args |-> {}] /\ state = ParseStart

(* A column with a span of zero divides by zero, and ends the process.     *)
Divides == subject = "column" /\ Gen.span = 0 /\ UNCHANGED vars

MCNext ==
    \/ subject = "parser" /\ ParseNext /\ UNCHANGED <<subject, vars>>
    \/ subject = "column" /\ Next /\ UNCHANGED <<subject, parseVars>>
    \/ Divides /\ UNCHANGED <<subject, parseVars>>

MCSpec == (ParserInit \/ RandomInit) /\ [][MCNext]_<<subject, parseVars, vars>>
=============================================================================
