------------------------------ MODULE MysqlSeed ------------------------------
(***************************************************************************)
(* The program: runs of its modes one after another, which share the       *)
(* database directory and the server.  Each run is one of the command      *)
(* lines in Runs.                                                          *)
(***************************************************************************)
EXTENDS GenerateFiles, ExecuteMode, RemoveMode

CONSTANT Runs   \* set of [mode, arg]

(* The arguments are those of argv; the parser of generate mode refuses a  *)
(* database without a table, and no table's file is named like a loader.   *)
ASSUME RunsAssumption ==
    \A r \in Runs :
        /\ r.mode \in {"execute", "remove"} => r.arg \in Seq(STRING)
        /\ r.mode = "generate" =>
              \A i \in DOMAIN r.arg.dbs :
                 r.arg.dbs[i].tables \in Seq(STRING \ {LOADER}) \ {<<>>}

VARIABLE runs   \* the number of runs begun

vars == <<fsVars, runVars, genVars, exeVars, server, short, logVars, remVars, runs>>

Init ==
    /\ dirs = {} /\ files = <<>> /\ faults = 0
    /\ mode = "none" /\ arg = <<>> /\ exit = "success"
    /\ start = [dirs |-> {}, files |-> <<>>, server |-> <<>>]
    /\ GenInit /\ ExeInit /\ RemInit
    /\ runs = 0

(* Help mode prints; anything else is an invalid mode flag. *)
help_dispatch(a) == IF a = <<>> \/ a[1] \in {"generate", "execute", "help"} THEN "success"
                    ELSE "failure"

mode_dispatch(r) ==
    /\ exit # "none" /\ runs < MaxRuns
    /\ runs' = runs + 1
    /\ mode' = r.mode /\ arg' = r.arg
    /\ short' = {}
    /\ start' = [dirs |-> dirs, files |-> files, server |-> server]
    /\ exit' = CASE r.mode \in {"generate", "execute", "remove"} -> "none"
                 [] r.mode = "help" -> help_dispatch(r.arg)
                 [] OTHER -> "failure"
    /\ gpc' = IF r.mode = "generate" THEN "parse" ELSE gpc
    /\ xpc' = IF r.mode = "execute" THEN "parse" ELSE xpc
    /\ rpc' = IF r.mode = "remove" THEN "open" ELSE rpc
    /\ UNCHANGED <<task, named, begun, pool, gone, names, status, worker, query, conn,
                   roots, seen, left, server>>
    /\ UNCHANGED fsVars /\ UNCHANGED logVars

Generate == GenNext /\ UNCHANGED exeVars /\ UNCHANGED remVars /\ UNCHANGED <<server, short, runs>>
            /\ UNCHANGED logVars
Execute  == ExeNext /\ UNCHANGED genVars /\ UNCHANGED remVars /\ UNCHANGED runs
Remove   == RemNext /\ UNCHANGED genVars /\ UNCHANGED exeVars /\ UNCHANGED <<server, short, runs>>
            /\ UNCHANGED logVars

(* The last run is over, or its executors wait for a lock whose release    *)
(* has failed.                                                             *)
Over ==
    /\ \/ exit # "none" /\ runs = MaxRuns
       \/ xpc = "run" /\ \E n \in conn.lock : worker[n] = "failed"
    /\ UNCHANGED vars

Next == (\E r \in Runs : mode_dispatch(r)) \/ Generate \/ Execute \/ Remove \/ Over

Spec == Init /\ [][Next]_vars

-----------------------------------------------------------------------------
(* The files that earlier runs have left are as they were, whatever this   *)
(* run of generate mode fails at and removes on the way out.               *)
OldFilesKept ==
    mode = "generate" => \A p \in DOMAIN start.files :
                            p \in DOMAIN files /\ files[p] = start.files[p]

(* After a success every directory is new and holds its loader and the     *)
(* file of each table, written and closed, cut only if a write was.        *)
GeneratedComplete ==
    mode = "generate" /\ exit = "success" =>
        /\ ~arg.wrong
        /\ \A k \in Loaders \union Tables :
              /\ PathOf(k)[1] \in dirs \ start.dirs
              /\ PathOf(k) \in DOMAIN files
              /\ files[PathOf(k)].by = k
              /\ files[PathOf(k)].state \in {"whole"} \union (IF faults > 0 THEN {"cut"} ELSE {})
        /\ \A k \in Loaders : files[PathOf(k)].tables = Specs[k[1]].tables

(* The credentials are the longest run of arguments at the front that has  *)
(* at most one user and one password, in either order.                     *)
ArgIn(i, S) == i <= Len(arg) /\ arg[i] \in S

AreCredentials(m) ==
    \/ m = 0
    \/ m = 1 /\ ArgIn(1, Pwd \union {"-uNAME"})
    \/ m = 2 /\ \/ ArgIn(1, {"-u"})
                \/ ArgIn(1, Pwd) /\ ArgIn(2, {"-uNAME"})
                \/ ArgIn(1, {"-uNAME"}) /\ ArgIn(2, Pwd)
    \/ m = 3 /\ \/ ArgIn(1, Pwd) /\ ArgIn(2, {"-u"})
                \/ ArgIn(1, {"-u"}) /\ ArgIn(3, Pwd)

Credentials ==
    CHOOSE m \in 0..3 : AreCredentials(m) /\ \A l \in 0..3 : AreCredentials(l) => l <= m

Asked == SubSeq(arg, Credentials + 1, Len(arg))

(* What the loader in the directory would load. *)
Script(d) == Range(files[<<d, LOADER>>].tables)

Loadable(d) ==
    /\ <<d, LOADER>> \in DOMAIN files /\ d \notin DOMAIN start.server
    /\ \A t \in Script(d) : <<d, t>> \in DOMAIN files
    /\ Cardinality(Script(d)) = Len(files[<<d, LOADER>>].tables)

(* Success means that every argument after the credentials is a database   *)
(* the server now holds, with all the tables of its loader, if that was    *)
(* written and read to its end; and if each could be loaded and nothing    *)
(* went wrong, it is a success.                                            *)
LoadedOrReported ==
    mode = "execute" =>
        /\ exit = "success" =>
              /\ Asked # <<>>
              /\ \A a \in Range(Asked) :
                    /\ a \in Dbs /\ a \in DOMAIN server
                    /\ files[<<a, LOADER>>].state = "whole" /\ a \notin short
                           => server[a] = Script(a)
        /\ exit = "failure" /\ faults = 0 =>
              ~ /\ Asked # <<>> /\ \A a \in Range(Asked) : a \in Dbs /\ Loadable(a)
                /\ Cardinality(Range(Asked)) = Len(Asked)

(* Before the log of the executors is written out, no message is mixed     *)
(* with another or out of order, every failed loading has one unless the   *)
(* buffer is full, and the buffer is not exceeded.                         *)
LogReadable ==
    /\ Len(log) <= LOG_SIZE
    /\ AllLoaded /\ ~Single =>
          \A n \in DOMAIN names :
              worker[n] = "failed" => Whole(n) /\ (Mentions(n) \/ Len(log) = LOG_SIZE)

(* The directories a run of remove mode was asked to remove. *)
Named == IF All THEN start.dirs ELSE Range(arg)

(* Nothing else is touched, and after a success nothing of them is left.   *)
RemovedExactly ==
    mode = "remove" =>
        /\ \A p \in DOMAIN start.files :
              p[1] \notin Named => p \in DOMAIN files /\ files[p] = start.files[p]
        /\ start.dirs \ Named \subseteq dirs
        /\ exit = "success" => Named \subseteq start.dirs /\ dirs = start.dirs \ Named
                               /\ \A p \in DOMAIN files : p[1] \in dirs

(* "any generated files are deleted ... on fatal errors before program     *)
(* termination" (README.md:391)                                            *)
GeneratedFilesDeleted ==
    mode = "generate" /\ exit \in {"failure", "crash"} =>
        dirs \subseteq start.dirs /\ DOMAIN files \subseteq DOMAIN start.files
=============================================================================
