----------------------------- MODULE RemoveMode -----------------------------
(***************************************************************************)
(* A run of remove mode (mysql_seed_remove.h): a traversal of the named    *)
(* directories, or of all, that unlinks each file and then removes each    *)
(* directory; what fails is reported and the traversal goes on.            *)
(***************************************************************************)
EXTENDS FileSystem

VARIABLES
    rpc,      \* off, open, fts, read
    roots,    \* the directories still to visit, in order
    seen,     \* files of the first of them already visited
    left      \* exit_status

remVars == <<rpc, roots, seen, left>>

RemInit == rpc = "off" /\ roots = <<>> /\ seen = {} /\ left = "success"

RemExit(how) == /\ Exit(how)
                /\ rpc' = "off" /\ roots' = <<>> /\ seen' = {} /\ left' = "success"

All == arg # <<>> /\ arg[1] = "-a"

(* Any order of the entries of the database directory. *)
Orders == {s \in [1..Cardinality(dirs) -> dirs] : \A i, j \in DOMAIN s : s[i] = s[j] => i = j}

(* mysql_seed_chdir_root, mysql_seed_chdir_db_root *)
remove_dispatch(ok) ==
    /\ rpc = "open" /\ chdir(ok)
    /\ IF ok /\ arg # <<>> THEN rpc' = "fts" /\ UNCHANGED <<roots, seen, left>> /\ UNCHANGED runVars
       ELSE RemExit("failure")

fts_open(ok) ==
    /\ rpc = "fts" /\ Call(ok) /\ UNCHANGED <<dirs, files>>
    /\ IF ok THEN /\ rpc' = "read" /\ roots' \in IF All THEN Orders ELSE {arg}
                  /\ UNCHANGED <<seen, left>> /\ UNCHANGED runVars
       ELSE RemExit("failure")

Failing == left' = "failure"
NextRoot == roots' = Tail(roots) /\ seen' = {} /\ UNCHANGED rpc /\ UNCHANGED runVars

(* FTS_NS, FTS_DNR: a name that is not there, a directory that cannot be   *)
(* read.                                                                   *)
fts_read_fails ==
    /\ rpc = "read" /\ roots # <<>> /\ seen = {} /\ UNCHANGED <<dirs, files>>
    /\ IF Head(roots) \in dirs THEN Fault ELSE NoFault
    /\ Failing /\ NextRoot

(* mysql_seed_remove_all has no test for the end of the traversal: it goes *)
(* on when the database directory itself cannot be read.                   *)
fts_read_root_fails ==
    /\ rpc = "read" /\ All /\ seen = {} /\ Len(roots) = Cardinality(dirs) /\ left = "success"
    /\ Fault /\ RemExit("crash") /\ UNCHANGED <<dirs, files>>

(* Files of the directory as it was when its reading began. *)
Entries(d) == In(d) \ seen

(* A slip for comparison: the file is looked for by its name alone. *)
UnlinkByName(ok) ==
    /\ rpc = "read" /\ roots # <<>> /\ Head(roots) \in dirs
    /\ \E p \in DOMAIN files \ seen :
          /\ unlink(p, ok) /\ seen' = seen \union {p}
          /\ IF ok THEN UNCHANGED left ELSE Failing
    /\ UNCHANGED <<rpc, roots>> /\ UNCHANGED runVars

RemoveFile(ok) ==
    /\ rpc = "read" /\ roots # <<>> /\ Head(roots) \in dirs
    /\ \E p \in Entries(Head(roots)) :
          /\ unlink(p, ok) /\ seen' = seen \union {p}
          /\ IF ok THEN UNCHANGED left ELSE Failing
    /\ UNCHANGED <<rpc, roots>> /\ UNCHANGED runVars

(* FTS_DP *)
RemoveDirectory(ok) ==
    /\ rpc = "read" /\ roots # <<>> /\ Head(roots) \in dirs /\ Entries(Head(roots)) = {}
    /\ rmdir(Head(roots), ok)
    /\ IF ok THEN UNCHANGED left ELSE Failing
    /\ NextRoot

fts_close(ok) ==
    /\ rpc = "read" /\ roots = <<>> /\ Call(ok) /\ UNCHANGED <<dirs, files>>
    /\ RemExit(IF ok THEN left ELSE "failure")

RemNext ==
    /\ Running("remove")
    /\ \/ \E ok \in BOOLEAN : \/ remove_dispatch(ok) \/ fts_open(ok) \/ RemoveFile(ok)
                              \/ RemoveDirectory(ok) \/ fts_close(ok)
       \/ fts_read_fails \/ fts_read_root_fails
=============================================================================
