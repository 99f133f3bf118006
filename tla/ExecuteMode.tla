----------------------------- MODULE ExecuteMode -----------------------------
(***************************************************************************)
(* A run of execute mode: credentials and names are taken from the         *)
(* arguments (mysql_seed_execute.h), then the loader script of each        *)
(* database is read and sent to the server, by main if there is one and by *)
(* the workers of a pool over a single connection if there are several     *)
(* (execute/execute.h, executor.h).                                        *)
(***************************************************************************)
EXTENDS FileSystem, ThreadLog

CONSTANT Dbs   \* names that are valid as names of databases

VARIABLES
    xpc,       \* main: off, parse, connect, run
    names,     \* the names to load
    status,    \* *exit_status of main, exit_status of the executor
    worker,    \* what each loading has done last
    query,     \* the statements each has read: the tables to load, and whether all
    conn,      \* the connection: its lock, the statements not flushed yet
    short,     \* names whose loader was not read to the end
    server     \* the databases of the server -> the tables they hold

exeVars == <<xpc, names, status, worker, query, conn>>

exeOff == [xpc |-> "off", names |-> <<>>, status |-> "success", worker |-> <<>>,
           query |-> <<>>, conn |-> [lock |-> {}, pending |-> <<>>, db |-> ""]]

SetExe(r) == /\ xpc' = r.xpc /\ names' = r.names /\ status' = r.status
             /\ worker' = r.worker /\ query' = r.query /\ conn' = r.conn

ExeInit == /\ xpc = "off" /\ names = <<>> /\ status = "success" /\ worker = <<>>
           /\ query = <<>> /\ conn = exeOff.conn /\ server = <<>> /\ short = {}
           /\ LogInit

-----------------------------------------------------------------------------
(* Credentials.  "-u" takes the next argument, "-uNAME" (or "--user=NAME") *)
(* does not; "-p" prompts, "-pWORD" does not.  from is an index; 0 stands  *)
(* for NULL: the run ends.                                                 *)
User == {"-u", "-uNAME"}
Pwd == {"-p", "-pWORD"}

Past(from) == IF from <= Len(arg) THEN from ELSE 0

execute_parse_user(from) ==
    CASE from > Len(arg) -> 0
      [] from <= Len(arg) /\ arg[from] = "-u" -> IF from = Len(arg) THEN 0 ELSE Past(from + 2)
      [] from <= Len(arg) /\ arg[from] = "-uNAME" -> Past(from + 1)
      [] OTHER -> from

execute_parse_pwd(from) ==
    CASE from > Len(arg) -> 0
      [] from <= Len(arg) /\ arg[from] \in Pwd -> Past(from + 1)
      [] OTHER -> from

execute_parse_credentials ==
    CASE arg[1] \in Pwd -> execute_parse_user(2)
      [] arg[1] = "-u" -> IF Len(arg) = 1 THEN 0 ELSE execute_parse_pwd(3)
      [] arg[1] = "-uNAME" -> execute_parse_pwd(2)
      [] OTHER -> 1

(* The valid names, in their order. *)
execute_parse_db_names(from) ==
    LET at == {i \in from..Len(arg) : arg[i] \in Dbs}
    IN  [n \in 1..Cardinality(at) |->
            arg[CHOOSE i \in at : Cardinality({j \in at : j < i}) = n - 1]]

ExeExit(how) == Exit(how) /\ SetExe(exeOff) /\ log' = <<>> /\ logLock' = {}

execute_dispatch ==
    LET from == IF arg = <<>> THEN 0 ELSE execute_parse_credentials
        valid == execute_parse_db_names(from)
        wrong == from > 0 /\ \E a \in from..Len(arg) : arg[a] \notin Dbs
    IN  /\ xpc = "parse" /\ UNCHANGED <<dirs, files, server>>
        /\ \/ from = 0 /\ NoFault /\ ExeExit("failure")
           \* the prompt or the allocation fails
           \/ Fault /\ ExeExit("failure")
           \/ /\ from > 0 /\ NoFault
              /\ IF valid = <<>> THEN ExeExit("failure")
                 ELSE /\ SetExe([exeOff EXCEPT !.xpc = "connect", !.names = valid,
                                   !.status = IF wrong THEN "failure" ELSE "success"])
                      /\ UNCHANGED runVars /\ UNCHANGED logVars

(* A task and its argument for each name. *)
init_executor_task_nodes ==
    /\ worker' = [n \in DOMAIN names |-> "todo"]
    /\ query' = [n \in DOMAIN names |-> [tables |-> <<>>, all |-> TRUE]]

(* mysql_init, mysql_real_connect, and for several databases the           *)
(* constructors, the allocation and the start of the pool.                 *)
mysql_seed_execute(ok) ==
    /\ xpc = "connect" /\ Call(ok) /\ UNCHANGED <<dirs, files, server>>
    /\ IF ok THEN /\ xpc' = "run" /\ thread_log_init /\ init_executor_task_nodes
                  /\ UNCHANGED <<names, status, conn>> /\ UNCHANGED runVars
       ELSE ExeExit("failure")

-----------------------------------------------------------------------------
(* One database.  Step: what worker n does next, all else being unchanged. *)
Step(n, next) == worker' = [worker EXCEPT ![n] = next] /\ UNCHANGED <<xpc, names>>
                 /\ UNCHANGED runVars

Quiet == UNCHANGED logVars

(* A single database is loaded by main, which prints instead of logging. *)
Single == Len(names) = 1

Failed(n, message) == Step(n, IF Single THEN "failed" ELSE message) /\ status' = "failure"

(* The loader is opened, its size fetched and allocated, read and closed.  *)
query_open(n, ok) ==
    /\ worker[n] = "todo" /\ open_read(<<names[n], LOADER>>, ok)
    /\ IF ok THEN Step(n, "opened") /\ UNCHANGED status ELSE Failed(n, "note")
    /\ UNCHANGED <<query, conn, server, short>> /\ Quiet

query_alloc(n, ok) ==
    /\ worker[n] = "opened" /\ fstat(ok)
    /\ IF ok THEN Step(n, "sized") /\ UNCHANGED status ELSE Failed(n, "note")
    /\ UNCHANGED <<query, conn, server, short>> /\ Quiet

query_load(n, how) ==
    LET loader == files[<<names[n], LOADER>>]
    IN  /\ worker[n] = "sized" /\ read_size(how)
        /\ IF how = "error" THEN Failed(n, "note") /\ UNCHANGED <<query, short>>
           ELSE /\ query' = [query EXCEPT ![n] =
                               [tables |-> loader.tables,
                                all |-> loader.state = "whole" /\ how = "whole"]]
                /\ short' = IF how = "cut" THEN short \union {names[n]} ELSE short
                /\ Step(n, "loaded") /\ UNCHANGED status
        /\ UNCHANGED <<conn, server>> /\ Quiet

server_lock(n, ok) ==
    /\ worker[n] = "loaded" /\ UNCHANGED <<dirs, files, query, server>> /\ Quiet
    /\ IF ok THEN /\ \E holders \in IF Single THEN {{n}} ELSE mutex_lock(conn.lock, n) :
                        conn' = [conn EXCEPT !.lock = holders]
                  /\ NoFault /\ Step(n, "locked") /\ UNCHANGED status
       ELSE ~Single /\ Fault /\ Failed(n, "note") /\ UNCHANGED conn

Prefixes(s) == {SubSeq(s, 1, m) : m \in 0..Len(s)}

create_database(d) ==
    server' = [e \in DOMAIN server \union {d} |-> IF e = d THEN {} ELSE server[e]]

(* A slip for comparison: the lock is given back before the results are    *)
(* flushed.                                                                *)
QueryUnlocks(n, ok) ==
    LET d == names[n]
        can == conn.pending = <<>> /\ d \notin DOMAIN server
    IN  /\ worker[n] = "locked" /\ UNCHANGED <<dirs, files, query>> /\ Quiet
        /\ IF ok THEN /\ can /\ NoFault /\ create_database(d)
                      /\ conn' = [lock |-> {}, pending |-> query[n].tables, db |-> d]
                      /\ Step(n, "flush") /\ UNCHANGED status
           ELSE /\ ~can /\ NoFault /\ UNCHANGED <<conn, server>> /\ Failed(n, "log")

(* The script's first statement creates the database, which fails if there *)
(* is one.  The statements of a script that was cut end somewhere.  A      *)
(* connection whose results were not all flushed refuses a query.          *)
mysql_real_query(n, ok) ==
    LET d == names[n]
        can == conn.pending = <<>> /\ d \notin DOMAIN server
    IN  /\ worker[n] = "locked" /\ UNCHANGED <<dirs, files, query>> /\ Quiet
        /\ IF ok THEN /\ can /\ NoFault
                      /\ create_database(d)
                      /\ \E rest \in IF query[n].all THEN {query[n].tables}
                                     ELSE Prefixes(query[n].tables) :
                            conn' = [conn EXCEPT !.pending = rest, !.db = d]
                      /\ Step(n, "flush") /\ UNCHANGED status
           ELSE /\ IF can /\ query[n].all THEN Fault ELSE NoFault
                /\ conn' = [conn EXCEPT !.lock = mutex_unlock(@, n)]
                /\ UNCHANGED server /\ Failed(n, "log")

(* Each further statement creates a table and loads its file; the first    *)
(* error ends them.  A result that cannot be stored leaves the rest.       *)
mysql_flush_results(n, how) ==
    LET t == Head(conn.pending)
        there == <<conn.db, t>> \in DOMAIN files /\ t \notin server[conn.db]
    IN  /\ worker[n] = "flush" /\ conn.pending # <<>>
        /\ UNCHANGED <<dirs, files, query>> /\ Quiet
        /\ CASE how = "ok" ->
                  /\ there /\ NoFault
                  /\ server' = [server EXCEPT ![conn.db] = @ \union {t}]
                  /\ conn' = [conn EXCEPT !.pending = Tail(@)]
                  /\ UNCHANGED <<worker, status, xpc, names>> /\ UNCHANGED runVars
             [] how = "error" ->
                  /\ ~there /\ NoFault
                  /\ conn' = [conn EXCEPT !.pending = <<>>, !.lock = mutex_unlock(@, n)]
                  /\ UNCHANGED server /\ Failed(n, "log")
             [] how = "lost" ->
                  /\ Fault /\ conn' = [conn EXCEPT !.lock = mutex_unlock(@, n)]
                  /\ UNCHANGED server /\ Failed(n, "log")

(* mutex_unlock_report *)
server_unlock(n, ok) ==
    /\ worker[n] = "flush" /\ conn.pending = <<>>
    /\ UNCHANGED <<dirs, files, query, server>> /\ Quiet
    /\ IF ok THEN /\ conn' = [conn EXCEPT !.lock = mutex_unlock(@, n)]
                  /\ NoFault /\ Step(n, "done") /\ UNCHANGED status
       ELSE ~Single /\ Fault /\ UNCHANGED conn /\ Failed(n, "note")

(* The message of a failed query has a header, the server's text and an    *)
(* end; those of other failures have one piece.                            *)
log_failure(n) ==
    LET pieces == [log1 |-> 1, log2 |-> 2, log3 |-> 3, note1 |-> 1]
        next == [log1 |-> "log2", log2 |-> "log3", log3 |-> "unlog", note1 |-> "unlog"]
    IN  /\ UNCHANGED fsVars /\ UNCHANGED <<server, status, query, conn>>
        /\ \/ /\ worker[n] \in {"log", "note"} /\ thread_log_lock(n)
              /\ Step(n, IF worker[n] = "log" THEN "log1" ELSE "note1")
           \/ /\ worker[n] \in DOMAIN pieces
              /\ thread_log_append(n, pieces[worker[n]]) /\ Step(n, next[worker[n]])
           \/ worker[n] = "unlog" /\ thread_log_unlock(n) /\ Step(n, "failed")

(* A checked pthread call of the pool fails. *)
execute_pool_fails ==
    /\ xpc = "run" /\ ~Single /\ Fault
    /\ ExeExit("failure") /\ UNCHANGED <<dirs, files, server>>

AllLoaded == xpc = "run" /\ \A n \in DOMAIN names : worker[n] \in {"done", "failed"}

(* The log is written out if status is a failure; the destructor may fail. *)
executor_shutdown(ok) ==
    /\ AllLoaded /\ Call(ok) /\ UNCHANGED <<dirs, files, server>>
    /\ ExeExit(IF ok THEN status ELSE "failure")

build_database(n) ==
    \/ \E ok \in BOOLEAN : query_open(n, ok) \/ query_alloc(n, ok)
    \/ \E how \in {"whole", "cut", "error"} : query_load(n, how)
    \/ /\ UNCHANGED short
       /\ \/ \E ok \in BOOLEAN : \/ server_lock(n, ok) \/ mysql_real_query(n, ok)
                                 \/ server_unlock(n, ok)
          \/ \E how \in {"ok", "error", "lost"} : mysql_flush_results(n, how)
          \/ log_failure(n)

ExeNext ==
    /\ Running("execute")
    /\ \/ xpc = "run" /\ \E n \in DOMAIN names : build_database(n)
       \/ /\ UNCHANGED short
          /\ \/ execute_dispatch \/ execute_pool_fails
             \/ \E ok \in BOOLEAN : mysql_seed_execute(ok) \/ executor_shutdown(ok)
=============================================================================
