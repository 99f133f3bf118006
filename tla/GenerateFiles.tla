---------------------------- MODULE GenerateFiles ----------------------------
(***************************************************************************)
(* What a run of generate mode does to the database directory: the loaders *)
(* of its first stage and the table files of its last (loader.c, table.c), *)
(* written by concurrent workers, and what main and the cancelled workers  *)
(* remove after a failure (generate.h, mysql_seed_file.c).                 *)
(***************************************************************************)
EXTENDS FileSystem

VARIABLES
    gpc,     \* main: off, parse, init, ctor, start, loaders, fill, tables, then the removal
    task,    \* what each task has done last
    named,   \* tasks whose file path is set
    begun,   \* loaders whose directory path is set
    pool,    \* "alive" or "dead"
    gone     \* what main's removal has dealt with, or will pass over

genVars == <<gpc, task, named, begun, pool, gone>>

(* arg.dbs: the valid DB_SPECs, each a name and a sequence of table names; *)
(* arg.wrong: the parser has refused another one.                          *)
Specs == arg.dbs
Loaders == {<<i, 0>> : i \in DOMAIN Specs}
Tables == UNION {{<<i, t>> : t \in DOMAIN Specs[i].tables} : i \in DOMAIN Specs}

PathOf(k) == <<Specs[k[1]].db, IF k[2] = 0 THEN LOADER ELSE Specs[k[1]].tables[k[2]]>>

genOff == [gpc |-> "off", task |-> <<>>, named |-> {}, begun |-> {}, pool |-> "alive", gone |-> {}]

SetGen(r) == /\ gpc' = r.gpc /\ task' = r.task /\ named' = r.named
             /\ begun' = r.begun /\ pool' = r.pool /\ gone' = r.gone

GenInit == gpc = "off" /\ task = <<>> /\ named = {} /\ begun = {} /\ pool = "alive" /\ gone = {}

(* The memory of the process and its threads are gone. *)
GenExit(how) == Exit(how) /\ SetGen(genOff)

GenBegin ==
    /\ SetGen([genOff EXCEPT !.gpc = "init", !.task = [k \in Loaders \union Tables |-> "todo"]])
    /\ UNCHANGED runVars

(* The arguments are parsed (GenerateParse); no valid DB_SPEC ends the run. *)
generate_dispatch ==
    /\ gpc = "parse" /\ UNCHANGED fsVars
    /\ IF Specs = <<>> THEN GenExit("failure") ELSE GenBegin

Works == Running("generate") /\ gpc # "off"
Do(k, next) == task' = [task EXCEPT ![k] = next]
Main(to) == gpc' = to /\ UNCHANGED <<task, named, begun, pool, gone>>

-----------------------------------------------------------------------------
(* A slip for comparison: the path of the loader is set before the         *)
(* directory is made.                                                      *)
PathBeforeDirectory(k, ok) ==
    /\ task[k] = "todo" /\ mkdir(PathOf(k)[1], ok)
    /\ begun' = begun \union {k} /\ named' = named \union {k}
    /\ IF ok THEN Do(k, "made") /\ UNCHANGED pool
       ELSE Do(k, "stopped") /\ pool' = "dead"

(* build_loader: the directory, then the path of the loader.  The paths of *)
(* the tables, set once the buffer is allocated (loader_put_header), are   *)
(* counted into this step: no table file exists before the last stage.     *)
MakeDirectory(k, ok) ==
    /\ task[k] = "todo" /\ mkdir(PathOf(k)[1], ok)
    /\ begun' = begun \union {k}
    /\ IF ok THEN Do(k, "made") /\ UNCHANGED pool
             ELSE Do(k, "stopped") /\ pool' = "dead"
    /\ named' = IF ok THEN named \union {k} \union {t \in Tables : t[1] = k[1]} ELSE named

(* The failure closures of a loader end at the pool; those of columns and  *)
(* tables call table->fail_cl, which nothing has set.                      *)
database_exit_on_failure(k) ==
    /\ Do(k, "cleanup") /\ pool' = "dead"
    /\ UNCHANGED <<gpc, named, begun, gone>> /\ UNCHANGED runVars

Fail(k) == IF k[2] = 0 THEN database_exit_on_failure(k) ELSE GenExit("crash")

LoaderMalloc(k) ==
    /\ task[k] = "made" /\ Fault
    /\ Do(k, "stopped") /\ pool' = "dead" /\ UNCHANGED <<named, begun>>
    /\ UNCHANGED <<dirs, files>>

Went(k, next) == Do(k, next) /\ UNCHANGED <<gpc, named, begun, pool, gone>> /\ UNCHANGED runVars

Ready(k) == IF k[2] = 0 THEN task[k] = "made" ELSE gpc = "tables" /\ task[k] = "todo"

(* The script of a loader: CREATE TABLE and LOAD DATA for each table. *)
loader_put_body(k) == IF k[2] = 0 THEN Specs[k[1]].tables ELSE <<>>

(* file_handle_process *)
file_handle_open(k, ok) ==
    /\ Ready(k)
    /\ open(PathOf(k), k, loader_put_body(k), ok)
    /\ IF ok THEN Went(k, "opened") ELSE Fail(k)

file_handle_write(k, how) ==
    /\ task[k] = "opened" /\ write(PathOf(k), k, how)
    /\ IF how = "error" THEN Fail(k) ELSE Went(k, "written")

file_handle_close(k, ok) ==
    /\ task[k] = "written" /\ close(ok)
    /\ IF ok THEN Went(k, "done") ELSE Fail(k)

(* The handler of a task that failed or was cancelled: close and unlink.   *)
(* The unlink is by name, whoever created the file.                        *)
file_handle_cleanup(k, ok) ==
    /\ task[k] = "cleanup" /\ unlink(PathOf(k), ok)
    /\ Went(k, "stopped")

(* A worker of a dead pool is cancelled at any of its calls.  At open the  *)
(* handler is in place already: it closes a descriptor that is not set,    *)
(* and unlinks the path.                                                   *)
Cancelled(k) ==
    /\ pool = "dead"
    /\ \/ task[k] \in {"todo", "made"} /\ Went(k, "stopped")
       \/ (Ready(k) \/ task[k] \in {"opened", "written"}) /\ Went(k, "cleanup")
    /\ UNCHANGED fsVars

build_loader(k) ==
    /\ gpc \notin {"init", "ctor"}
    /\ \/ \E ok \in BOOLEAN : MakeDirectory(k, ok)
       \/ LoaderMalloc(k)
    /\ UNCHANGED <<gpc, gone>> /\ UNCHANGED runVars

build_file(k) ==
    \/ \E ok \in BOOLEAN : file_handle_open(k, ok) \/ file_handle_close(k, ok)
    \/ \E how \in {"whole", "cut", "error"} : file_handle_write(k, how)

(* A column of the first stage or an allocation of the second fails, while *)
(* main waits or has gone on to remove what the other tasks made.          *)
column_exit_on_failure ==
    /\ \/ gpc \in {"start", "loaders", "fill"}
       \/ gpc \in {"rm_loaders", "rm_dir"} /\ gone \intersect Tables = {}
    /\ Fault
    /\ GenExit("crash") /\ UNCHANGED <<dirs, files>>

(* A checked pthread call fails in a worker, the supervisor or main.  When *)
(* it is one of the last reload, the tables may have been queued, but main *)
(* passes them over in its removal, as after a failure of the stages       *)
(* before.                                                                 *)
thread_pool_exit_on_failure ==
    /\ pool = "alive" /\ Fault /\ pool' = "dead"
    /\ \/ gpc \in {"loaders", "fill", "tables"} /\ UNCHANGED <<gpc, gone>>
       \/ /\ gpc = "fill" /\ \A k \in Loaders : task[k] = "done"
          /\ gpc' = "tables" /\ gone' = Tables
    /\ UNCHANGED <<dirs, files, task, named, begun>> /\ UNCHANGED runVars

-----------------------------------------------------------------------------
(* The working directory; the attributes, and main's first allocation. *)
mysql_seed_generate_constructors(ok) ==
    \/ /\ gpc = "init" /\ chdir(ok)
       /\ IF ok THEN Main("ctor") /\ UNCHANGED runVars ELSE GenExit("failure")
    \/ /\ gpc = "ctor" /\ thread_utils_constructor(ok)
       /\ IF ok THEN Main("start") /\ UNCHANGED runVars ELSE GenExit("failure")

(* A thread is not created: those before it may be at work already, and    *)
(* main returns.                                                           *)
thread_pool_start(ok) ==
    /\ gpc = "start" /\ Call(ok) /\ UNCHANGED <<dirs, files>>
    /\ IF ok THEN Main("loaders") /\ UNCHANGED runVars ELSE GenExit("failure")

(* A slip for comparison: the first stage is not waited for. *)
NextStageEarly ==
    /\ pool = "alive" /\ gpc \in {"loaders", "fill"}
    /\ Main(IF gpc = "loaders" THEN "fill" ELSE "tables")
    /\ UNCHANGED fsVars /\ UNCHANGED runVars

(* await, alive and reload between the stages. *)
NextStage ==
    /\ pool = "alive" /\ gpc \in {"loaders", "fill"}
    /\ \A k \in Loaders : task[k] = "done"
    /\ Main(IF gpc = "loaders" THEN "fill" ELSE "tables")
    /\ UNCHANGED fsVars /\ UNCHANGED runVars

DEAD_POOL_FAILURE ==
    /\ pool = "dead" /\ gpc \in {"loaders", "fill", "tables"}
    /\ Main(IF gpc = "tables" THEN "rm_tables" ELSE "rm_loaders")
    /\ UNCHANGED fsVars /\ UNCHANGED runVars

Gone(k, to) == gone' = gone \union {k} /\ gpc' = to
               /\ UNCHANGED <<task, named, begun, pool>> /\ UNCHANGED runVars

(* Unset paths are whatever the allocation held: no file of ours. *)
file_handle_unlink(k) ==
    IF k \in named THEN \E ok \in BOOLEAN : unlink(PathOf(k), ok) ELSE UNCHANGED fsVars

dirpath_remove(k) ==
    IF k \in begun THEN \E ok \in BOOLEAN : rmdir(PathOf(k)[1], ok) ELSE UNCHANGED fsVars

(* The first of S that is left: main goes through them in order. *)
FirstOf(S) == {k \in S : \A l \in S \ gone : l[1] > k[1] \/ (l[1] = k[1] /\ l[2] >= k[2])} \ gone

remove_free_table_files ==
    /\ gpc = "rm_tables"
    /\ IF Tables \subseteq gone
       THEN Main("rm_loaders") /\ UNCHANGED fsVars /\ UNCHANGED runVars
       ELSE \E k \in FirstOf(Tables) : file_handle_unlink(k) /\ Gone(k, gpc)

remove_loaders_dirs ==
    \/ /\ gpc = "rm_loaders"
       /\ IF Loaders \subseteq gone
          THEN GenExit("failure") /\ UNCHANGED fsVars
          ELSE \E k \in FirstOf(Loaders) :
                  /\ file_handle_unlink(k) /\ Main("rm_dir") /\ UNCHANGED runVars
    \/ /\ gpc = "rm_dir"
       /\ \E k \in FirstOf(Loaders) :
             dirpath_remove(k) /\ Gone(k, "rm_loaders")

(* The pool stops with success; the destructors may still fail. *)
Finish(ok) ==
    /\ gpc = "tables" /\ pool = "alive"
    /\ \A k \in Tables : task[k] = "done"
    /\ thread_utils_destructor(ok)
    /\ GenExit(IF ok /\ ~arg.wrong THEN "success" ELSE "failure")

GenNext ==
    /\ Works
    /\ \/ \E k \in Loaders \intersect DOMAIN task : build_loader(k)
       \/ \E k \in DOMAIN task : \/ build_file(k) \/ Cancelled(k)
                                 \/ \E ok \in BOOLEAN : file_handle_cleanup(k, ok)
       \/ generate_dispatch
       \/ column_exit_on_failure \/ thread_pool_exit_on_failure
       \/ NextStage \/ DEAD_POOL_FAILURE
       \/ remove_free_table_files \/ remove_loaders_dirs
       \/ \E ok \in BOOLEAN : \/ mysql_seed_generate_constructors(ok)
                              \/ thread_pool_start(ok) \/ Finish(ok)
=============================================================================
