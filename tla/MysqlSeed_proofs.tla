-------------------------- MODULE MysqlSeed_proofs --------------------------
(***************************************************************************)
(* The modes, for any command lines, any number of runs and any number of  *)
(* faults: what generate and remove mode do to the database directory,     *)
(* that the log which the executors of execute mode share stays readable,  *)
(* and that what execute mode reports is what the server holds.            *)
(*                                                                         *)
(* None of the properties is inductive.  That generate mode leaves         *)
(* the files of earlier runs alone rests on when a path is set: the paths  *)
(* of a loader and its tables are set only after mkdir has made their      *)
(* directory, so main's removal finds nothing old by them, and a task      *)
(* unlinks a file only after O_EXCL has created it or its directory was    *)
(* made.  That a success is complete rests on the pool: while it is alive  *)
(* no task has failed and nobody removes anything.                         *)
(*                                                                         *)
(* The arguments about execute mode come with its two parts, below.        *)
(***************************************************************************)
EXTENDS MysqlSeed, FiniteSetTheorems, TLAPS

(* A file is in a directory: open needs one, rmdir an empty one. *)
FilesInDirs ==
    /\ IsFiniteSet(dirs)
    /\ faults \in Nat
    /\ \A p \in DOMAIN files : p[1] \in dirs

GenRunning == gpc \notin {"off", "parse"}

(* Main and its tasks exist during a run of generate mode only. *)
GenShape ==
    /\ gpc # "off" => Running("generate")
    /\ gpc \in {"off", "parse"} => task = <<>> /\ named = {} /\ pool = "alive"
    /\ GenRunning => DOMAIN task = Loaders \union Tables

-----------------------------------------------------------------------------
(* The directory of every path that is set is new. *)
NamedIsNew ==
    \A k \in named : \A p \in DOMAIN start.files : p[1] # PathOf(k)[1]

(* The path of a loader, and those of its tables, are set when its         *)
(* directory has been made, and all of them before the last stage.         *)
Begun == {"made", "opened", "written", "done"}

NamesOf(k) == {k} \union {t \in Tables : t[1] = k[1]}

MadeIsNamed ==
    /\ \A k \in Loaders \intersect DOMAIN task : task[k] \in Begun => NamesOf(k) \subseteq named
    /\ gpc = "tables" => Tables \subseteq named

(* What a task closes and unlinks in its handler is not an old file. *)
OpenedIsNew ==
    \A k \in DOMAIN task :
        task[k] \in {"opened", "written", "cleanup", "done"} => PathOf(k) \notin DOMAIN start.files

KeptInv ==
    /\ FilesInDirs
    /\ GenShape
    /\ mode = "generate" => NamedIsNew /\ MadeIsNamed /\ OpenedIsNew
    /\ OldFilesKept

-----------------------------------------------------------------------------
(* Only the files of the database directory count here: execute mode       *)
(* changes none, whatever its workers do.                                  *)
FaultsGrow == faults' = faults \/ faults' = faults + 1

(* Execute mode touches no directory and no file. *)
LEMMA ExecuteFrame ==
    ASSUME ExeNext
    PROVE  /\ mode = "execute" /\ exit = "none"
           /\ UNCHANGED <<dirs, files, mode, arg, start>>
           /\ FaultsGrow
<1> USE DEF FaultsGrow, Fault, NoFault, Call, Exit, ExeExit, runVars, Running
<1>1. mode = "execute" /\ exit = "none"
  BY DEF ExeNext
<1>2. ASSUME NEW n, build_database(n)
      PROVE  UNCHANGED <<dirs, files, mode, arg, start>> /\ FaultsGrow
  <2> USE DEF Step, Failed
  <2>1. ASSUME NEW ok, query_open(n, ok) \/ query_alloc(n, ok)
        PROVE  UNCHANGED <<dirs, files, mode, arg, start>> /\ FaultsGrow
    BY <2>1 DEF query_open, query_alloc, open_read, fstat
  <2>2. ASSUME NEW how, query_load(n, how)
        PROVE  UNCHANGED <<dirs, files, mode, arg, start>> /\ FaultsGrow
    BY <2>2 DEF query_load, read_size
  <2>3. ASSUME NEW ok, server_lock(n, ok)
        PROVE  UNCHANGED <<dirs, files, mode, arg, start>> /\ FaultsGrow
    BY <2>3 DEF server_lock
  <2>4. ASSUME NEW ok, mysql_real_query(n, ok) \/ server_unlock(n, ok)
        PROVE  UNCHANGED <<dirs, files, mode, arg, start>> /\ FaultsGrow
    BY <2>4 DEF mysql_real_query, server_unlock
  <2>5. ASSUME NEW how \in {"ok", "error", "lost"}, mysql_flush_results(n, how)
        PROVE  UNCHANGED <<dirs, files, mode, arg, start>> /\ FaultsGrow
    BY <2>5 DEF mysql_flush_results
  <2>6. ASSUME log_failure(n)
        PROVE  UNCHANGED <<dirs, files, mode, arg, start>> /\ FaultsGrow
    BY <2>6 DEF log_failure, fsVars
  <2> QED
    BY <1>2, <2>1, <2>2, <2>3, <2>4, <2>5, <2>6 DEF build_database
<1>3. ASSUME execute_dispatch
      PROVE  UNCHANGED <<dirs, files, mode, arg, start>> /\ FaultsGrow
  BY <1>3 DEF execute_dispatch
<1>4. ASSUME execute_pool_fails
      PROVE  UNCHANGED <<dirs, files, mode, arg, start>> /\ FaultsGrow
  BY <1>4 DEF execute_pool_fails
<1>5. ASSUME NEW ok, mysql_seed_execute(ok) \/ executor_shutdown(ok)
      PROVE  UNCHANGED <<dirs, files, mode, arg, start>> /\ FaultsGrow
  BY <1>5 DEF mysql_seed_execute, executor_shutdown
<1> QED
  BY <1>1, <1>2, <1>3, <1>4, <1>5 DEF ExeNext

-----------------------------------------------------------------------------
(* The calls of generate mode.  Each leaves every file where it was but    *)
(* the one it is about, and none ends up outside a directory.              *)
LEMMA MkdirFrame ==
    ASSUME FilesInDirs, NEW d, NEW ok, mkdir(d, ok)
    PROVE  FilesInDirs' /\ files' = files
<1>1. dirs' = dirs \/ dirs' = dirs \union {d}
  BY DEF mkdir
<1>2. IsFiniteSet(dirs')
  BY <1>1, FS_AddElement DEF FilesInDirs
<1> QED
  BY <1>1, <1>2 DEF mkdir, FilesInDirs, Fault, NoFault

(* open with O_EXCL leaves every existing file as it is and fails on one *)
(* that exists.                                                          *)
LEMMA OpenFrame ==
    ASSUME FilesInDirs, NEW p, NEW by, NEW tables, NEW ok, open(p, by, tables, ok)
    PROVE  /\ FilesInDirs' /\ dirs' = dirs
           /\ \A q \in DOMAIN files : q \in DOMAIN files' /\ files'[q] = files[q]
           /\ ok => p \notin DOMAIN files
           /\ ~ok => files' = files
  BY DEF open, FilesInDirs, Fault, NoFault

(* A write changes the file written and no other. *)
LEMMA WriteFrame ==
    ASSUME FilesInDirs, NEW p, NEW by, NEW how, write(p, by, how)
    PROVE  /\ FilesInDirs' /\ dirs' = dirs
           /\ DOMAIN files' = DOMAIN files
           /\ \A q \in DOMAIN files : q # p => files'[q] = files[q]
           /\ how = "error" => files' = files
  BY DEF write, FilesInDirs, Fault, NoFault

(* unlink removes the file named and no other. *)
LEMMA UnlinkFrame ==
    ASSUME FilesInDirs, NEW p, NEW ok, unlink(p, ok)
    PROVE  /\ FilesInDirs' /\ dirs' = dirs
           /\ \A q \in DOMAIN files : q # p => q \in DOMAIN files' /\ files'[q] = files[q]
  BY DEF unlink, Restrict, FilesInDirs, Fault, NoFault

(* rmdir removes no file: it fails on a directory that is not empty. *)
LEMMA RmdirFrame ==
    ASSUME FilesInDirs, NEW d, NEW ok, rmdir(d, ok)
    PROVE  FilesInDirs' /\ files' = files
<1>1. dirs' = dirs \/ (dirs' = dirs \ {d} /\ In(d) = {})
  BY DEF rmdir
<1>2. IsFiniteSet(dirs')
  BY <1>1, FS_RemoveElement DEF FilesInDirs
<1> QED
  BY <1>1, <1>2 DEF rmdir, FilesInDirs, Fault, NoFault, In

(* A call that leaves directories and files alone keeps FilesInDirs. *)
LEMMA CallFrame ==
    ASSUME FilesInDirs, UNCHANGED <<dirs, files>>, FaultsGrow
    PROVE  FilesInDirs'
  BY DEF FilesInDirs, FaultsGrow

-----------------------------------------------------------------------------
(* Paths depend on the command line only. *)
LEMMA SamePaths ==
    ASSUME UNCHANGED arg
    PROVE  /\ \A k : PathOf(k)' = PathOf(k)
           /\ Loaders' = Loaders /\ Tables' = Tables
  BY DEF PathOf, Specs, Loaders, Tables

(* The run ends: what is left of it are the files. *)
LEMMA KeptAtExit ==
    ASSUME KeptInv, NEW how, how # "none", GenExit(how), UNCHANGED <<dirs, files>>, FaultsGrow,
           mode = "generate"
    PROVE  KeptInv'
<1>1. FilesInDirs'
  BY CallFrame DEF KeptInv
<1>2. GenShape' /\ named' = {} /\ task' = <<>>
  BY DEF GenExit, SetGen, genOff, GenShape, GenRunning, Running, Exit
<1>3. NamedIsNew' /\ MadeIsNamed' /\ OpenedIsNew'
  BY <1>2 DEF NamedIsNew, MadeIsNamed, OpenedIsNew, GenExit, SetGen, genOff
<1>4. OldFilesKept'
  BY DEF OldFilesKept, KeptInv, GenExit, Exit
<1> QED
  BY <1>1, <1>2, <1>3, <1>4 DEF KeptInv

(* A step that goes on with the run: it suffices to look at what it does   *)
(* to the old files, the paths and the tasks.                              *)
LEMMA KeptOnward ==
    ASSUME KeptInv, mode = "generate", exit = "none", GenRunning, GenRunning', UNCHANGED runVars,
           FilesInDirs',
           \A p \in DOMAIN start.files : p \in DOMAIN files' /\ files'[p] = files[p],
           DOMAIN task' = DOMAIN task,
           NamedIsNew', MadeIsNamed', OpenedIsNew'
    PROVE  KeptInv'
<1>1. GenShape'
  BY SamePaths DEF KeptInv, GenShape, GenRunning, Running, runVars
<1>2. OldFilesKept'
  BY DEF KeptInv, OldFilesKept, runVars
<1> QED
  BY <1>1, <1>2 DEF KeptInv

(* The same for a step that sets no path. *)
LEMMA KeptByTask ==
    ASSUME KeptInv, mode = "generate", exit = "none", GenRunning, UNCHANGED <<gpc, named>>,
           UNCHANGED runVars, FilesInDirs',
           \A p \in DOMAIN start.files : p \in DOMAIN files' /\ files'[p] = files[p],
           NEW k \in DOMAIN task, NEW to, Do(k, to), k \in Loaders /\ to \in Begun => task[k] \in Begun,
           to \in {"opened", "written", "cleanup", "done"} => PathOf(k) \notin DOMAIN start.files
    PROVE  KeptInv'
<1> USE DEF runVars
<1>1. DOMAIN task' = DOMAIN task /\ \A j \in DOMAIN task : j # k => task'[j] = task[j]
  BY DEF Do
<1>2. task'[k] = to
  BY DEF Do
<1>3. NamedIsNew'
  BY SamePaths DEF KeptInv, NamedIsNew
<1>4. MadeIsNamed'
  BY <1>1, <1>2, SamePaths DEF KeptInv, MadeIsNamed, NamesOf
<1>5. OpenedIsNew'
  BY <1>1, <1>2, SamePaths DEF KeptInv, OpenedIsNew
<1>6. GenRunning'
  BY DEF GenRunning
<1> QED
  BY <1>1, <1>3, <1>4, <1>5, <1>6, KeptOnward

(* And for a step of main. *)
LEMMA KeptByMain ==
    ASSUME KeptInv, mode = "generate", exit = "none", GenRunning, GenRunning',
           UNCHANGED <<task, named>>,
           gpc' = "tables" => gpc = "tables" \/ \A k \in Loaders : task[k] = "done",
           UNCHANGED runVars, FilesInDirs',
           \A p \in DOMAIN start.files : p \in DOMAIN files' /\ files'[p] = files[p]
    PROVE  KeptInv'
<1> USE DEF runVars
<1>1. NamedIsNew'
  BY SamePaths DEF KeptInv, NamedIsNew
<1>2. OpenedIsNew'
  BY SamePaths DEF KeptInv, OpenedIsNew
<1>3. MadeIsNamed /\ DOMAIN task = Loaders \union Tables
  BY DEF KeptInv, GenShape
<1>4. gpc' = "tables" => Tables \subseteq named
  <2>1. SUFFICES ASSUME \A k \in Loaders : task[k] = "done", NEW t \in Tables PROVE t \in named
    BY <1>3 DEF MadeIsNamed
  <2>2. <<t[1], 0>> \in Loaders
    BY DEF Tables, Loaders
  <2>3. t \in NamesOf(<<t[1], 0>>)
    BY DEF NamesOf
  <2> QED
    BY <1>3, <2>1, <2>2, <2>3 DEF MadeIsNamed, Begun
<1>5. MadeIsNamed'
  BY <1>3, <1>4, SamePaths DEF MadeIsNamed, NamesOf
<1> QED
  BY <1>1, <1>2, <1>5, KeptOnward

(* build_loader makes the directory and only then sets the paths. *)
LEMMA KeptByLoader ==
    ASSUME KeptInv, Works, NEW k \in Loaders \intersect DOMAIN task, build_loader(k)
    PROVE  KeptInv'
<1> USE DEF runVars, Works, Running
<1>1. GenRunning /\ FilesInDirs /\ OldFilesKept
  BY DEF KeptInv, GenShape, GenRunning
<1>2. ASSUME NEW ok \in BOOLEAN, MakeDirectory(k, ok) PROVE KeptInv'
  <2>1. FilesInDirs' /\ files' = files
    BY <1>1, <1>2, MkdirFrame DEF MakeDirectory
  <2>2. DOMAIN task' = DOMAIN task /\ \A j \in DOMAIN task : j # k => task'[j] = task[j]
    BY <1>2 DEF MakeDirectory, Do
  <2>3. CASE ok
    <3>1. PathOf(k)[1] \notin dirs /\ task'[k] = "made"
      BY <1>2, <2>3 DEF MakeDirectory, mkdir, Do
    <3>2. named' = named \union {k} \union {t \in Tables : t[1] = k[1]}
      BY <1>2, <2>3 DEF MakeDirectory
    <3>3. \A p \in DOMAIN start.files : p[1] # PathOf(k)[1]
      BY <1>1, <3>1 DEF FilesInDirs, OldFilesKept
    <3>4. \A t : t[1] = k[1] => PathOf(t)[1] = PathOf(k)[1]
      BY DEF PathOf
    <3>5. NamedIsNew'
      BY <3>2, <3>3, <3>4, SamePaths DEF build_loader, KeptInv, NamedIsNew
    <3>6. MadeIsNamed'
      BY <2>2, <3>2, SamePaths DEF build_loader, KeptInv, MadeIsNamed, NamesOf
    <3>7. OpenedIsNew'
      BY <2>2, <3>1, SamePaths DEF build_loader, KeptInv, OpenedIsNew
    <3> QED
      BY <1>1, <2>1, <2>2, <3>5, <3>6, <3>7, KeptOnward
         DEF build_loader, GenRunning, KeptInv, OldFilesKept
  <2>4. CASE ~ok
    <3>1. Do(k, "stopped") /\ UNCHANGED <<gpc, named>> /\ UNCHANGED runVars
      BY <1>2, <2>4 DEF MakeDirectory, build_loader
    <3> HIDE DEF runVars
    <3> QED
      BY <1>1, <2>1, <3>1, KeptByTask DEF OldFilesKept, Begun
  <2> QED
    BY <2>3, <2>4
<1>3. ASSUME LoaderMalloc(k) PROVE KeptInv'
  <2>1. FilesInDirs' /\ files' = files
    BY <1>1, <1>3, CallFrame DEF LoaderMalloc, FaultsGrow, Fault
  <2>2. Do(k, "stopped") /\ UNCHANGED <<gpc, named>> /\ UNCHANGED runVars
    BY <1>3 DEF LoaderMalloc, build_loader
  <2> HIDE DEF runVars
  <2> QED
    BY <1>1, <2>1, <2>2, KeptByTask DEF OldFilesKept, Begun
<1> QED
  BY <1>2, <1>3 DEF build_loader

(* The file of a task: created by O_EXCL, written, closed, and unlinked by *)
(* the handler of a task that has failed or was cancelled.                 *)
LEMMA KeptByFile ==
    ASSUME KeptInv, Works, NEW k \in DOMAIN task,
           build_file(k) \/ Cancelled(k) \/ \E ok \in BOOLEAN : file_handle_cleanup(k, ok)
    PROVE  KeptInv'
<1> USE DEF Works, Running
<1>1. GenRunning /\ FilesInDirs /\ OldFilesKept
  <2>1. task # <<>>
    OBVIOUS
  <2> QED
    BY <2>1 DEF KeptInv, GenShape, GenRunning
<1>2. Ready(k) => PathOf(k) \notin DOMAIN start.files
  <2>1. SUFFICES ASSUME Ready(k) PROVE k \in named
    BY DEF KeptInv, NamedIsNew
  <2>2. MadeIsNamed /\ k \in Loaders \union Tables
    BY <1>1 DEF KeptInv, GenShape
  <2>3. CASE k[2] = 0
    <3>1. k \in Loaders
      BY <2>2, <2>3 DEF Loaders, Tables
    <3> QED
      BY <2>1, <2>2, <2>3, <3>1 DEF Ready, MadeIsNamed, NamesOf, Begun
  <2>4. CASE k[2] # 0
    <3>1. k \in Tables
      BY <2>2, <2>4 DEF Loaders
    <3> QED
      BY <2>1, <2>2, <2>4, <3>1 DEF Ready, MadeIsNamed
  <2> QED
    BY <2>3, <2>4
<1>3. ASSUME FilesInDirs', files' = files, dirs' = dirs, FaultsGrow, Fail(k),
             k[2] = 0 => PathOf(k) \notin DOMAIN start.files
      PROVE  KeptInv'
  <2>1. CASE k[2] = 0
    <3>1. Do(k, "cleanup") /\ UNCHANGED <<gpc, named>> /\ UNCHANGED runVars
      BY <1>3, <2>1 DEF Fail, database_exit_on_failure
    <3> QED
      BY <1>1, <1>3, <2>1, <3>1, KeptByTask DEF OldFilesKept, Begun
  <2>2. CASE k[2] # 0
    BY <1>3, <2>2, KeptAtExit DEF Fail
  <2> QED
    BY <2>1, <2>2
<1>4. k \in Loaders /\ Ready(k) => task[k] \in Begun
  BY DEF Loaders, Ready, Begun
<1>5. ASSUME NEW ok \in BOOLEAN, file_handle_open(k, ok) PROVE KeptInv'
  <2>1. /\ FilesInDirs' /\ dirs' = dirs
        /\ \A q \in DOMAIN files : q \in DOMAIN files' /\ files'[q] = files[q]
        /\ ok => PathOf(k) \notin DOMAIN files
        /\ ~ok => files' = files
    BY <1>1, <1>5, OpenFrame DEF file_handle_open
  <2>2. CASE ok
    <3>1. Do(k, "opened") /\ UNCHANGED <<gpc, named>> /\ UNCHANGED runVars
      BY <1>5, <2>2 DEF file_handle_open, Went
    <3>2. k \in Loaders => task[k] \in Begun
      BY <1>5, <1>4 DEF file_handle_open
    <3> QED
      BY <1>1, <2>1, <2>2, <3>1, <3>2, KeptByTask DEF OldFilesKept
  <2>3. CASE ~ok
    <3>1. FaultsGrow
      BY <1>5, <2>3 DEF file_handle_open, open, Fault, NoFault, FaultsGrow
    <3> QED
      BY <1>2, <1>3, <1>5, <2>1, <2>3, <3>1 DEF file_handle_open, Ready
  <2> QED
    BY <2>2, <2>3
<1>6. ASSUME NEW how \in {"whole", "cut", "error"}, file_handle_write(k, how) PROVE KeptInv'
  <2>1. PathOf(k) \notin DOMAIN start.files
    BY <1>6 DEF file_handle_write, KeptInv, OpenedIsNew
  <2>2. /\ FilesInDirs' /\ dirs' = dirs
        /\ DOMAIN files' = DOMAIN files
        /\ \A q \in DOMAIN files : q # PathOf(k) => files'[q] = files[q]
        /\ how = "error" => files' = files
    BY <1>1, <1>6, WriteFrame DEF file_handle_write
  <2>3. CASE how = "error"
    <3>1. FaultsGrow
      BY <1>6, <2>3 DEF file_handle_write, write, Fault, FaultsGrow
    <3> QED
      BY <1>3, <1>6, <2>1, <2>2, <2>3, <3>1 DEF file_handle_write
  <2>4. CASE how # "error"
    <3>1. Do(k, "written") /\ UNCHANGED <<gpc, named>> /\ UNCHANGED runVars
      BY <1>6, <2>4 DEF file_handle_write, Went
    <3>2. task[k] \in Begun
      BY <1>6 DEF file_handle_write, Begun
    <3> QED
      BY <1>1, <2>1, <2>2, <3>1, <3>2, KeptByTask DEF OldFilesKept
  <2> QED
    BY <2>3, <2>4
<1>7. ASSUME NEW ok \in BOOLEAN, file_handle_close(k, ok) PROVE KeptInv'
  <2>1. PathOf(k) \notin DOMAIN start.files
    BY <1>7 DEF file_handle_close, KeptInv, OpenedIsNew
  <2>2. FilesInDirs' /\ dirs' = dirs /\ files' = files /\ FaultsGrow
    BY <1>1, <1>7, CallFrame DEF file_handle_close, close, Call, Fault, NoFault, FaultsGrow
  <2>3. CASE ~ok
    BY <1>3, <1>7, <2>1, <2>2, <2>3 DEF file_handle_close
  <2>4. CASE ok
    <3>1. Do(k, "done") /\ UNCHANGED <<gpc, named>> /\ UNCHANGED runVars
      BY <1>7, <2>4 DEF file_handle_close, Went
    <3>2. task[k] \in Begun
      BY <1>7 DEF file_handle_close, Begun
    <3> QED
      BY <1>1, <2>1, <2>2, <3>1, <3>2, KeptByTask DEF OldFilesKept
  <2> QED
    BY <2>3, <2>4
<1>8. ASSUME Cancelled(k) PROVE KeptInv'
  <2>1. FilesInDirs' /\ files' = files
    BY <1>1, <1>8, CallFrame DEF Cancelled, fsVars, FaultsGrow
  <2>2. PICK to \in {"cleanup", "stopped"} :
            /\ Do(k, to) /\ UNCHANGED <<gpc, named>> /\ UNCHANGED runVars
            /\ to = "cleanup" => Ready(k) \/ task[k] \in {"opened", "written"}
    BY <1>8 DEF Cancelled, Went
  <2>3. to = "cleanup" => PathOf(k) \notin DOMAIN start.files
    BY <1>2, <2>2 DEF KeptInv, OpenedIsNew
  <2> QED
    BY <1>1, <2>1, <2>2, <2>3, KeptByTask DEF OldFilesKept, Begun
<1>9. ASSUME NEW ok \in BOOLEAN, file_handle_cleanup(k, ok) PROVE KeptInv'
  <2>1. PathOf(k) \notin DOMAIN start.files
    BY <1>9 DEF file_handle_cleanup, KeptInv, OpenedIsNew
  <2>2. /\ FilesInDirs'
        /\ \A q \in DOMAIN files : q # PathOf(k) => q \in DOMAIN files' /\ files'[q] = files[q]
    BY <1>1, <1>9, UnlinkFrame DEF file_handle_cleanup
  <2>3. Do(k, "stopped") /\ UNCHANGED <<gpc, named>> /\ UNCHANGED runVars
    BY <1>9 DEF file_handle_cleanup, Went
  <2> QED
    BY <1>1, <2>1, <2>2, <2>3, KeptByTask DEF OldFilesKept, Begun
<1> QED
  BY <1>5, <1>6, <1>7, <1>8, <1>9 DEF build_file

(* Main removes what has a path, and the directories it has begun.  *)
LEMMA KeptByRemoval ==
    ASSUME KeptInv, Works, remove_free_table_files \/ remove_loaders_dirs
    PROVE  KeptInv'
<1> USE DEF Works, Running
<1>1. GenRunning /\ FilesInDirs /\ OldFilesKept
  BY DEF KeptInv, GenShape, GenRunning, remove_free_table_files, remove_loaders_dirs
<1>2. ASSUME NEW k, file_handle_unlink(k) \/ dirpath_remove(k)
      PROVE  /\ FilesInDirs'
             /\ \A p \in DOMAIN start.files : p \in DOMAIN files' /\ files'[p] = files[p]
  <2>1. CASE UNCHANGED fsVars
    BY <1>1, <2>1, CallFrame DEF fsVars, FaultsGrow, OldFilesKept
  <2>2. ASSUME NEW ok \in BOOLEAN, k \in named, unlink(PathOf(k), ok)
        PROVE  /\ FilesInDirs'
               /\ \A p \in DOMAIN start.files : p \in DOMAIN files' /\ files'[p] = files[p]
    <3>1. PathOf(k) \notin DOMAIN start.files
      BY <2>2 DEF KeptInv, NamedIsNew
    <3> QED
      BY <1>1, <2>2, <3>1, UnlinkFrame DEF OldFilesKept
  <2>3. ASSUME NEW ok \in BOOLEAN, rmdir(PathOf(k)[1], ok)
        PROVE  /\ FilesInDirs'
               /\ \A p \in DOMAIN start.files : p \in DOMAIN files' /\ files'[p] = files[p]
    BY <1>1, <2>3, RmdirFrame DEF OldFilesKept
  <2> QED
    BY <1>2, <2>1, <2>2, <2>3 DEF file_handle_unlink, dirpath_remove
<1>3. ASSUME GenRunning', gpc' # "tables", UNCHANGED <<task, named>>, UNCHANGED runVars,
             UNCHANGED fsVars \/ \E k : file_handle_unlink(k) \/ dirpath_remove(k)
      PROVE  KeptInv'
  <2>1. FilesInDirs' /\ \A p \in DOMAIN start.files : p \in DOMAIN files' /\ files'[p] = files[p]
    BY <1>1, <1>2, <1>3, CallFrame DEF fsVars, FaultsGrow, OldFilesKept
  <2> QED
    BY <1>1, <1>3, <2>1, KeptByMain
<1>4. CASE remove_free_table_files
  BY <1>3, <1>4 DEF remove_free_table_files, Main, Gone, GenRunning
<1>5. CASE remove_loaders_dirs
  <2>1. CASE GenExit("failure") /\ UNCHANGED fsVars
    BY <2>1, KeptAtExit DEF fsVars, FaultsGrow
  <2> QED
    BY <1>3, <1>5, <2>1 DEF remove_loaders_dirs, Main, Gone, GenRunning
<1> QED
  BY <1>4, <1>5

(* The other steps of generate mode touch no file. *)
LEMMA KeptByOthers ==
    ASSUME KeptInv, Works,
           \/ generate_dispatch \/ column_exit_on_failure \/ thread_pool_exit_on_failure
           \/ NextStage \/ DEAD_POOL_FAILURE
           \/ \E ok \in BOOLEAN : \/ mysql_seed_generate_constructors(ok)
                                  \/ thread_pool_start(ok) \/ Finish(ok)
    PROVE  KeptInv'
<1> USE DEF Works, Running
<1>1. UNCHANGED <<dirs, files>> /\ FaultsGrow
  BY DEF generate_dispatch, column_exit_on_failure, thread_pool_exit_on_failure, NextStage,
         DEAD_POOL_FAILURE, mysql_seed_generate_constructors, thread_pool_start, Finish, fsVars,
         chdir, thread_utils_constructor, thread_utils_destructor, Call, Fault, NoFault, FaultsGrow
<1>2. FilesInDirs' /\ OldFilesKept
  BY <1>1, CallFrame DEF KeptInv
<1>3. CASE \E how \in {"failure", "crash", "success"} : GenExit(how)
  BY <1>1, <1>3, KeptAtExit
<1>4. CASE GenBegin /\ gpc = "parse"
  <2>1. DOMAIN task' = Loaders' \union Tables' /\ named' = {} /\ GenRunning'
    BY <1>4, SamePaths DEF GenBegin, SetGen, genOff, GenRunning, runVars
  <2>2. \A k \in DOMAIN task' : task'[k] = "todo"
    BY <1>4 DEF GenBegin, SetGen, genOff
  <2>3. NamedIsNew' /\ MadeIsNamed' /\ OpenedIsNew'
    BY <1>4, <2>1, <2>2 DEF NamedIsNew, MadeIsNamed, Begun, OpenedIsNew, GenBegin, SetGen, genOff
  <2>4. OldFilesKept' /\ GenShape'
    BY <1>1, <1>2, <1>4, <2>1 DEF OldFilesKept, GenShape, GenBegin, GenRunning, runVars
  <2> QED
    BY <1>2, <2>3, <2>4 DEF KeptInv
<1>5. CASE /\ GenRunning /\ GenRunning' /\ UNCHANGED <<task, named>> /\ UNCHANGED runVars
           /\ gpc' = "tables" => gpc = "tables" \/ \A k \in Loaders : task[k] = "done"
  BY <1>1, <1>2, <1>5, KeptByMain DEF OldFilesKept
<1> QED
  BY <1>3, <1>4, <1>5
     DEF generate_dispatch, column_exit_on_failure, thread_pool_exit_on_failure, NextStage,
         DEAD_POOL_FAILURE, mysql_seed_generate_constructors, thread_pool_start, Finish, Main,
         GenRunning

(* Every step of generate mode keeps KeptInv. *)
LEMMA KeptByGenerate == ASSUME KeptInv, GenNext PROVE KeptInv'
  BY KeptByLoader, KeptByFile, KeptByRemoval, KeptByOthers DEF GenNext

(* Remove mode: the calls are those of generate mode. *)
LEMMA RemoveFrame ==
    ASSUME FilesInDirs, RemNext
    PROVE  /\ mode = "remove" /\ exit = "none"
           /\ UNCHANGED <<mode, arg, start>>
           /\ FilesInDirs'
<1>1. mode = "remove" /\ exit = "none"
  BY DEF RemNext, Running
<1>2. UNCHANGED <<mode, arg, start>>
  BY DEF RemNext, runVars, remove_dispatch, fts_open, RemoveFile, RemoveDirectory, fts_close,
         fts_read_fails, fts_read_root_fails, RemExit, Exit, NextRoot
<1>3. FilesInDirs'
  <2>1. ASSUME NEW ok \in BOOLEAN, remove_dispatch(ok) \/ fts_open(ok) \/ fts_close(ok)
        PROVE  FilesInDirs'
    BY <2>1, CallFrame DEF remove_dispatch, fts_open, fts_close, chdir, Call, Fault,
                            NoFault, FaultsGrow
  <2>2. ASSUME fts_read_fails \/ fts_read_root_fails PROVE FilesInDirs'
    BY <2>2, CallFrame DEF fts_read_fails, fts_read_root_fails, Fault, NoFault, FaultsGrow
  <2>3. ASSUME NEW ok \in BOOLEAN, RemoveFile(ok) PROVE FilesInDirs'
    BY <2>3, UnlinkFrame DEF RemoveFile
  <2>4. ASSUME NEW ok \in BOOLEAN, RemoveDirectory(ok) PROVE FilesInDirs'
    BY <2>4, RmdirFrame DEF RemoveDirectory
  <2> QED
    BY <2>1, <2>2, <2>3, <2>4 DEF RemNext
<1> QED
  BY <1>1, <1>2, <1>3

(* KeptInv is inductive over the three modes and the start of the next run. *)
LEMMA KeptInvStep == KeptInv /\ [Next]_vars => KeptInv'
<1> SUFFICES ASSUME KeptInv, [Next]_vars PROVE KeptInv'
  OBVIOUS
<1>1. ASSUME NEW r \in Runs, mode_dispatch(r) PROVE KeptInv'
  <2>1. FilesInDirs'
    BY <1>1, CallFrame DEF mode_dispatch, fsVars, KeptInv, FaultsGrow
  <2>2. gpc = "off" /\ UNCHANGED <<task, named, pool>>
    BY <1>1 DEF mode_dispatch, KeptInv, GenShape, Running
  <2>3. GenShape'
    BY <1>1, <2>2 DEF mode_dispatch, KeptInv, GenShape, GenRunning, Running
  <2>4. named' = {} /\ task' = <<>>
    BY <2>2 DEF KeptInv, GenShape
  <2>5. gpc' # "tables"
    BY <1>1, <2>2 DEF mode_dispatch
  <2>6. NamedIsNew' /\ MadeIsNamed' /\ OpenedIsNew'
    BY <2>4, <2>5 DEF NamedIsNew, MadeIsNamed, OpenedIsNew
  <2>7. OldFilesKept'
    BY <1>1 DEF mode_dispatch, OldFilesKept, fsVars
  <2> QED
    BY <2>1, <2>3, <2>7, <2>6 DEF KeptInv
<1>2. CASE Generate
  BY <1>2, KeptByGenerate DEF Generate
<1>3. ASSUME mode # "generate", UNCHANGED <<mode, arg, start>>, UNCHANGED genVars, FilesInDirs'
      PROVE  KeptInv'
  BY <1>3 DEF KeptInv, genVars, GenShape, GenRunning, Running, OldFilesKept
<1>4. CASE Execute
  BY <1>3, <1>4, ExecuteFrame, CallFrame DEF Execute, KeptInv
<1>5. CASE Remove
  BY <1>3, <1>5, RemoveFrame DEF Remove, KeptInv
<1>6. CASE UNCHANGED vars
  <2>1. UNCHANGED <<dirs, files, faults, mode, arg, exit, start, gpc, task, named, pool>>
    BY <1>6 DEF vars, fsVars, runVars, genVars
  <2> QED
    BY <2>1, SamePaths
       DEF KeptInv, FilesInDirs, GenShape, GenRunning, Running, NamedIsNew, MadeIsNamed,
           NamesOf, OpenedIsNew, OldFilesKept
<1> QED
  BY <1>1, <1>2, <1>4, <1>5, <1>6 DEF Next, Over

(* KeptInv holds before the first run. *)
LEMMA KeptInvInit == Init => KeptInv
<1> SUFFICES ASSUME Init PROVE KeptInv
  OBVIOUS
<1>1. FilesInDirs
  BY FS_EmptySet DEF Init, FilesInDirs
<1> QED
  BY <1>1 DEF Init, GenInit, KeptInv, GenShape, GenRunning, OldFilesKept

(* Generate mode leaves the files of earlier runs as they were, for any    *)
(* command lines and whatever fails: neither a cancelled worker's handler  *)
(* (mysql_seed_file.c) nor main's removal (generate.h) reaches them.       *)
THEOREM FilesOfEarlierRunsKept == Spec => []OldFilesKept
<1>1. KeptInv => OldFilesKept
  BY DEF KeptInv
<1> QED
  BY <1>1, KeptInvInit, KeptInvStep, PTL DEF Spec

-----------------------------------------------------------------------------
(* A file is cut only if a write was. *)
Sound(p) == files[p].state \in {"whole"} \union (IF faults > 0 THEN {"cut"} ELSE {})

(* The file of the task is there, and is the one it has created. *)
OwnFile(k) ==
    /\ PathOf(k) \in DOMAIN files
    /\ files[PathOf(k)].by = k
    /\ files[PathOf(k)].tables = loader_put_body(k)

(* What a task says of its file, as long as the pool is alive. *)
TaskAlive(k) ==
    /\ task[k] \in {"todo", "made", "opened", "written", "done"}
    /\ k \in Loaders /\ task[k] # "todo" => PathOf(k)[1] \in dirs \ start.dirs
    /\ task[k] \in {"opened", "written", "done"} => OwnFile(k)
    /\ task[k] \in {"written", "done"} => Sound(PathOf(k))

(* An alive pool: nobody has failed, nothing is removed, and the tables    *)
(* wait for all loaders.                                                   *)
AliveInv ==
    gpc # "off" /\ pool = "alive" =>
        /\ gpc \in {"parse", "init", "ctor", "start", "loaders", "fill", "tables"}
        /\ start.dirs \subseteq dirs
        /\ \A k \in DOMAIN task : TaskAlive(k)
        /\ gpc = "tables" => \A k \in Loaders : task[k] = "done"

CompleteInv == KeptInv /\ AliveInv /\ GeneratedComplete

-----------------------------------------------------------------------------
(* Remove mode.  Its traversal is over the named directories; as long as   *)
(* nothing has failed, each one it has left behind was there and is gone.  *)
RemShape ==
    /\ rpc # "off" => Running("remove")
    /\ rpc # "read" => roots = <<>> /\ seen = {} /\ left = "success"
    /\ rpc \in {"open", "fts"} => dirs = start.dirs /\ files = start.files

OthersKept ==
    /\ \A p \in DOMAIN start.files :
          p[1] \notin Named => p \in DOMAIN files /\ files[p] = start.files[p]
    /\ start.dirs \ Named \subseteq dirs
    /\ dirs \subseteq start.dirs

Traversed ==
    /\ left \in {"success", "failure"}
    /\ roots \in Seq(Named)
    /\ left = "success" => \A d \in Named : d \in Range(roots) \/ d \in start.dirs \ dirs

RemoveInv ==
    /\ FilesInDirs
    /\ RemShape
    /\ mode = "remove" => OthersKept /\ arg \in Seq(STRING)
    /\ rpc = "read" => Traversed
    /\ RemovedExactly

-----------------------------------------------------------------------------
(* A task is not disturbed by a step that leaves its file alone. *)
LEMMA TaskAliveKept ==
    ASSUME NEW k, TaskAlive(k), UNCHANGED <<arg, start>>, dirs \subseteq dirs',
           faults \in Nat, FaultsGrow, task'[k] = task[k],
           PathOf(k) \in DOMAIN files /\ files[PathOf(k)].by = k
               => PathOf(k) \in DOMAIN files' /\ files'[PathOf(k)] = files[PathOf(k)]
    PROVE  TaskAlive(k)'
<1>1. PathOf(k)' = PathOf(k) /\ Loaders' = Loaders
  BY SamePaths
<1>2. loader_put_body(k)' = loader_put_body(k)
  BY DEF loader_put_body, Specs
<1>3. OwnFile(k) => OwnFile(k)'
  BY <1>1, <1>2 DEF OwnFile
<1>4. OwnFile(k) /\ Sound(PathOf(k)) => Sound(PathOf(k))'
  BY <1>1 DEF OwnFile, Sound, FaultsGrow
<1> QED
  BY <1>1, <1>3, <1>4 DEF TaskAlive

(* One task moves on, the others keep theirs. *)
LEMMA AliveByTask ==
    ASSUME KeptInv, AliveInv, GenRunning, pool = "alive",
           UNCHANGED <<arg, start, gpc>>,
           dirs \subseteq dirs', FaultsGrow,
           NEW k \in DOMAIN task, NEW to, Do(k, to), task[k] # "done", TaskAlive(k)',
           \A p \in DOMAIN files : files[p].by # k => p \in DOMAIN files' /\ files'[p] = files[p]
    PROVE  AliveInv'
<1>1. DOMAIN task' = DOMAIN task /\ \A j \in DOMAIN task : j # k => task'[j] = task[j]
  BY DEF Do
<1>2. \A j \in DOMAIN task : TaskAlive(j)
  BY DEF AliveInv, GenRunning
<1>3. \A j \in DOMAIN task' : TaskAlive(j)'
  BY <1>1, <1>2, TaskAliveKept DEF KeptInv, FilesInDirs
<1>4. start'.dirs \subseteq dirs' /\ Loaders' = Loaders
  BY SamePaths DEF AliveInv, GenRunning
<1>5. gpc' = "tables" => \A j \in Loaders : task'[j] = "done"
  <2>1. Loaders \subseteq DOMAIN task
    BY DEF KeptInv, GenShape
  <2> QED
    BY <1>1, <2>1 DEF AliveInv, GenRunning
<1> QED
  BY <1>3, <1>4, <1>5 DEF AliveInv, GenRunning

(* Main moves on without a failure. *)
LEMMA AliveByMain ==
    ASSUME KeptInv, AliveInv, GenRunning, pool = "alive",
           UNCHANGED <<arg, start, task, dirs, files>>,
           FaultsGrow,
           gpc' \in {"init", "ctor", "start", "loaders", "fill", "tables"},
           gpc' = "tables" => gpc = "tables" \/ \A k \in Loaders : task[k] = "done"
    PROVE  AliveInv'
<1>1. \A j \in DOMAIN task : TaskAlive(j)
  BY DEF AliveInv, GenRunning
<1>2. \A j \in DOMAIN task' : TaskAlive(j)'
  BY <1>1, TaskAliveKept DEF KeptInv, FilesInDirs
<1>3. start'.dirs \subseteq dirs' /\ Loaders' = Loaders
  BY SamePaths DEF AliveInv, GenRunning
<1> QED
  BY <1>2, <1>3 DEF AliveInv, GenRunning

(* A step of a loader task keeps AliveInv (build_loader). *)
LEMMA AliveByLoader ==
    ASSUME KeptInv, AliveInv, Works, NEW k \in Loaders \intersect DOMAIN task, build_loader(k)
    PROVE  AliveInv'
<1> SUFFICES ASSUME pool' = "alive" PROVE AliveInv'
  BY DEF AliveInv
<1>1. PICK ok \in BOOLEAN : MakeDirectory(k, ok)
  BY DEF build_loader, LoaderMalloc
<1>2. ok /\ pool = "alive" /\ Do(k, "made") /\ task[k] = "todo"
  BY <1>1 DEF MakeDirectory
<1>3. /\ PathOf(k)[1] \notin dirs /\ dirs' = dirs \union {PathOf(k)[1]}
      /\ files' = files /\ FaultsGrow
  BY <1>1, <1>2 DEF MakeDirectory, mkdir, NoFault, FaultsGrow
<1>4. UNCHANGED <<arg, start, gpc>> /\ GenRunning
  BY DEF build_loader, runVars, KeptInv, GenShape, GenRunning, Works
<1>5. start.dirs \subseteq dirs
  BY <1>2, <1>4 DEF AliveInv, GenRunning
<1>6. TaskAlive(k)'
  <2>1. task'[k] = "made"
    BY <1>2 DEF Do
  <2>2. PathOf(k)' = PathOf(k)
    BY <1>4, SamePaths
  <2> QED
    BY <1>3, <1>4, <1>5, <2>1, <2>2 DEF TaskAlive
<1> QED
  BY <1>2, <1>3, <1>4, <1>6, AliveByTask

(* A step of a file task, its failure and its cleanup keep AliveInv *)
(* (table.c, file_handle_cleanup).                                  *)
LEMMA AliveByFile ==
    ASSUME KeptInv, AliveInv, Works, NEW k \in DOMAIN task,
           build_file(k) \/ Cancelled(k) \/ \E ok \in BOOLEAN : file_handle_cleanup(k, ok)
    PROVE  AliveInv'
<1> SUFFICES ASSUME pool' = "alive", gpc' # "off" PROVE AliveInv'
  BY DEF AliveInv
<1>1. ~Fail(k)
  BY DEF Fail, database_exit_on_failure, GenExit, SetGen, genOff
<1>2. \E to : Went(k, to)
  BY <1>1 DEF build_file, file_handle_open, file_handle_close, file_handle_write, Cancelled,
              file_handle_cleanup
<1>3. pool = "alive" /\ UNCHANGED <<arg, start, gpc>>
  BY <1>2 DEF Went, runVars
<1>4. GenRunning
  <2>1. task # <<>>
    OBVIOUS
  <2> QED
    BY <2>1 DEF KeptInv, GenShape, GenRunning
<1>5. TaskAlive(k)
  BY <1>3, <1>4 DEF AliveInv, GenRunning
<1>6. build_file(k)
  BY <1>3, <1>5 DEF TaskAlive, Cancelled, file_handle_cleanup
<1>7. PathOf(k)' = PathOf(k) /\ loader_put_body(k)' = loader_put_body(k) /\ Loaders' = Loaders
  BY <1>3, SamePaths DEF loader_put_body, Specs
<1>8. k \in Loaders => k[2] = 0
  BY DEF Loaders
<1>9. FilesInDirs
  BY DEF KeptInv
<1>10. ASSUME NEW ok \in BOOLEAN, file_handle_open(k, ok) PROVE AliveInv'
  <2>1. ok /\ open(PathOf(k), k, loader_put_body(k), TRUE) /\ Do(k, "opened") /\ Ready(k)
    BY <1>1, <1>10 DEF file_handle_open, Went
  <2>2. /\ dirs' = dirs /\ FaultsGrow
        /\ \A q \in DOMAIN files : q \in DOMAIN files' /\ files'[q] = files[q]
    BY <1>9, <2>1, OpenFrame DEF open, NoFault, FaultsGrow
  <2>3. /\ PathOf(k) \in DOMAIN files' /\ files'[PathOf(k)].by = k
        /\ files'[PathOf(k)].tables = loader_put_body(k)
    BY <2>1 DEF open
  <2>4. task'[k] = "opened" /\ task[k] # "done"
    BY <2>1 DEF Do, Ready
  <2>5. TaskAlive(k)'
    BY <1>3, <1>5, <1>7, <1>8, <2>1, <2>2, <2>3, <2>4 DEF TaskAlive, OwnFile, Ready
  <2> QED
    BY <1>3, <1>4, <2>1, <2>2, <2>4, <2>5, AliveByTask
<1>11. ASSUME NEW how \in {"whole", "cut", "error"}, file_handle_write(k, how) PROVE AliveInv'
  <2>1. /\ how \in {"whole", "cut"} /\ write(PathOf(k), k, how) /\ Do(k, "written")
        /\ task[k] = "opened"
    BY <1>1, <1>11 DEF file_handle_write, Went
  <2>2. OwnFile(k)
    BY <1>5, <2>1 DEF TaskAlive
  <2>3. /\ dirs' = dirs /\ FaultsGrow
        /\ files' = [files EXCEPT ![PathOf(k)].state = how]
        /\ how = "cut" => faults' > 0
    BY <1>9, <2>1, <2>2 DEF write, OwnFile, Fault, NoFault, FaultsGrow, FilesInDirs
  <2>4. task'[k] = "written"
    BY <2>1 DEF Do
  <2>5. /\ PathOf(k) \in DOMAIN files'
        /\ files'[PathOf(k)] = [files[PathOf(k)] EXCEPT !.state = how]
        /\ \A q \in DOMAIN files : q # PathOf(k) => q \in DOMAIN files' /\ files'[q] = files[q]
    BY <2>2, <2>3 DEF OwnFile
  <2>6. files'[PathOf(k)].by = k /\ files'[PathOf(k)].tables = loader_put_body(k)
    BY <2>2, <2>5 DEF OwnFile
  <2>7. OwnFile(k)'
    BY <1>7, <2>5, <2>6 DEF OwnFile
  <2>8. files'[PathOf(k)].state = how
    BY <2>5
  <2>9. Sound(PathOf(k))'
    BY <1>7, <2>1, <2>3, <2>8 DEF Sound
  <2>10. TaskAlive(k)'
    BY <1>3, <1>5, <1>7, <2>1, <2>3, <2>4, <2>7, <2>9 DEF TaskAlive
  <2>11. \A p \in DOMAIN files : files[p].by # k => p # PathOf(k)
    BY <2>2 DEF OwnFile
  <2> QED
    BY <1>3, <1>4, <2>1, <2>3, <2>5, <2>10, <2>11, AliveByTask
<1>12. ASSUME NEW ok \in BOOLEAN, file_handle_close(k, ok) PROVE AliveInv'
  <2>1. ok /\ Do(k, "done") /\ task[k] = "written" /\ UNCHANGED <<dirs, files>> /\ FaultsGrow
    BY <1>1, <1>12 DEF file_handle_close, Went, close, Call, NoFault, FaultsGrow
  <2>2. faults \in Nat /\ (faults > 0 => faults' > 0)
    BY <1>9, <2>1 DEF FilesInDirs, FaultsGrow
  <2>3. task'[k] = "done"
    BY <2>1 DEF Do
  <2>4. TaskAlive(k)'
    BY <1>3, <1>5, <1>7, <2>1, <2>2, <2>3 DEF TaskAlive, OwnFile, Sound
  <2> QED
    BY <1>3, <1>4, <2>1, <2>4, AliveByTask
<1> QED
  BY <1>6, <1>10, <1>11, <1>12 DEF build_file

(* Main removes something in a dead pool only. *)
LEMMA AliveByOthers ==
    ASSUME KeptInv, AliveInv, Works,
           \/ generate_dispatch \/ column_exit_on_failure \/ thread_pool_exit_on_failure
           \/ NextStage \/ DEAD_POOL_FAILURE
           \/ remove_free_table_files \/ remove_loaders_dirs
           \/ \E ok \in BOOLEAN : \/ mysql_seed_generate_constructors(ok)
                                  \/ thread_pool_start(ok) \/ Finish(ok)
    PROVE  AliveInv'
<1> SUFFICES ASSUME pool' = "alive", gpc' # "off" PROVE AliveInv'
  BY DEF AliveInv
<1>1. \A how : ~GenExit(how)
  BY DEF GenExit, SetGen, genOff
<1>2. ASSUME generate_dispatch PROVE AliveInv'
  <2>1. GenBegin /\ gpc = "parse" /\ UNCHANGED fsVars
    BY <1>1, <1>2 DEF generate_dispatch
  <2>2. pool = "alive" /\ gpc' = "init" /\ UNCHANGED <<arg, start, dirs>>
    BY <2>1 DEF KeptInv, GenShape, GenBegin, SetGen, genOff, runVars, fsVars
  <2>3. \A k \in DOMAIN task' : task'[k] = "todo"
    BY <2>1 DEF GenBegin, SetGen, genOff
  <2>4. \A k \in DOMAIN task' : TaskAlive(k)'
    BY <2>3 DEF TaskAlive
  <2> QED
    BY <2>1, <2>2, <2>4 DEF AliveInv
<1>3. ASSUME remove_free_table_files \/ remove_loaders_dirs \/ DEAD_POOL_FAILURE PROVE FALSE
  <2>1. pool = "alive"
    BY <1>1, <1>3 DEF remove_free_table_files, remove_loaders_dirs, DEAD_POOL_FAILURE, Main, Gone
  <2> QED
    BY <1>3, <2>1 DEF remove_free_table_files, remove_loaders_dirs, DEAD_POOL_FAILURE, AliveInv
<1>4. ASSUME NextStage PROVE AliveInv'
  <2>1. /\ pool = "alive" /\ UNCHANGED <<arg, start, task, dirs, files>> /\ FaultsGrow
        /\ gpc \in {"loaders", "fill"} /\ gpc' \in {"fill", "tables"}
        /\ \A k \in Loaders : task[k] = "done"
    BY <1>4 DEF NextStage, Main, runVars, fsVars, FaultsGrow
  <2> QED
    BY <2>1, AliveByMain DEF GenRunning
<1>5. ASSUME NEW ok \in BOOLEAN, mysql_seed_generate_constructors(ok) \/ thread_pool_start(ok)
      PROVE  AliveInv'
  <2>1. /\ pool = "alive" /\ UNCHANGED <<arg, start, task, dirs, files>> /\ FaultsGrow
        /\ gpc \in {"init", "ctor", "start"} /\ gpc' \in {"ctor", "start", "loaders"}
    BY <1>1, <1>5 DEF mysql_seed_generate_constructors, thread_pool_start, Main, runVars, chdir,
                      thread_utils_constructor, Call, Fault, NoFault, FaultsGrow
  <2> QED
    BY <2>1, AliveByMain DEF GenRunning
<1> QED
  BY <1>1, <1>2, <1>3, <1>4, <1>5
     DEF column_exit_on_failure, thread_pool_exit_on_failure, Finish

(* Finish is the one step that ends in success, and it waits for every     *)
(* task of the last stage.                                                 *)
LEMMA SuccessIsFinish ==
    ASSUME GenNext, exit' = "success"
    PROVE  \E ok \in BOOLEAN : Finish(ok) /\ ok /\ ~arg.wrong
<1> USE DEF Works, Running, Exit, runVars
<1>1. exit = "none"
  BY DEF GenNext
<1>2. \A how \in {"failure", "crash"} : ~GenExit(how)
  BY DEF GenExit
<1>3. ASSUME NEW k, build_loader(k) PROVE FALSE
  BY <1>1, <1>3 DEF build_loader
<1>4. ASSUME NEW k, build_file(k) \/ Cancelled(k) \/ \E ok \in BOOLEAN : file_handle_cleanup(k, ok)
      PROVE  FALSE
  BY <1>1, <1>2, <1>4 DEF build_file, file_handle_open, file_handle_close, file_handle_write,
                     Cancelled, file_handle_cleanup, Went, Fail, database_exit_on_failure
<1>5. ~(remove_free_table_files \/ remove_loaders_dirs)
  BY <1>1, <1>2 DEF remove_free_table_files, remove_loaders_dirs, Gone
<1>6. ~(\/ generate_dispatch \/ column_exit_on_failure \/ thread_pool_exit_on_failure
        \/ NextStage \/ DEAD_POOL_FAILURE)
  BY <1>1, <1>2 DEF generate_dispatch, GenBegin, column_exit_on_failure,
                    thread_pool_exit_on_failure, NextStage, DEAD_POOL_FAILURE
<1>7. \A ok \in BOOLEAN : ~(mysql_seed_generate_constructors(ok) \/ thread_pool_start(ok))
  BY <1>1, <1>2 DEF mysql_seed_generate_constructors, thread_pool_start
<1>8. \A ok \in BOOLEAN : Finish(ok) => ok /\ ~arg.wrong
  BY <1>2 DEF Finish
<1> QED
  BY <1>3, <1>4, <1>5, <1>6, <1>7, <1>8 DEF GenNext

(* When main finishes with success, what AliveInv says of the tasks that *)
(* are done is that every file is complete.                              *)
LEMMA CompleteAtFinish ==
    ASSUME KeptInv, AliveInv, Works, Finish(TRUE), ~arg.wrong
    PROVE  GeneratedComplete'
<1>1. /\ gpc = "tables" /\ pool = "alive" /\ \A k \in Tables : task[k] = "done"
      /\ UNCHANGED <<dirs, files, faults, mode, arg, start>>
  BY DEF Finish, thread_utils_destructor, Call, NoFault, GenExit, Exit
<1>2. DOMAIN task = Loaders \union Tables
  BY <1>1 DEF KeptInv, GenShape, GenRunning
<1>3. \A k \in Loaders \union Tables : task[k] = "done" /\ TaskAlive(k)
  BY <1>1, <1>2 DEF AliveInv
<1>4. ASSUME NEW k \in Loaders \union Tables PROVE PathOf(k)[1] \in dirs \ start.dirs
  <2>1. PICK i \in DOMAIN Specs : k[1] = i
    BY DEF Loaders, Tables
  <2>2. <<i, 0>> \in Loaders
    BY DEF Loaders
  <2>3. PathOf(<<i, 0>>)[1] = PathOf(k)[1]
    BY <2>1 DEF PathOf
  <2>4. task[<<i, 0>>] = "done" /\ TaskAlive(<<i, 0>>)
    BY <1>3, <2>2
  <2> QED
    BY <2>2, <2>3, <2>4 DEF TaskAlive
<1>5. \A k \in Loaders : k[2] = 0
  BY DEF Loaders
<1>6. \A k \in Loaders \union Tables : OwnFile(k) /\ Sound(PathOf(k))
  BY <1>3 DEF TaskAlive
<1>7. \A k \in Loaders : files[PathOf(k)].tables = Specs[k[1]].tables
  BY <1>5, <1>6 DEF OwnFile, loader_put_body
<1>8. Specs' = Specs /\ arg'.wrong = arg.wrong
  BY <1>1 DEF Specs
<1>9. \A k : PathOf(k)' = PathOf(k)
  BY <1>1, SamePaths
<1>10. Loaders' = Loaders /\ Tables' = Tables
  BY <1>1, SamePaths
<1> QED
  BY <1>1, <1>4, <1>6, <1>7, <1>8, <1>9, <1>10 DEF GeneratedComplete, OwnFile, Sound

(* CompleteInv is inductive. *)
LEMMA CompleteInvStep == CompleteInv /\ [Next]_vars => CompleteInv'
<1> SUFFICES ASSUME CompleteInv, [Next]_vars PROVE CompleteInv'
  OBVIOUS
<1>1. KeptInv /\ AliveInv /\ GeneratedComplete
  BY DEF CompleteInv
<1>2. KeptInv'
  BY <1>1, KeptInvStep
<1> SUFFICES AliveInv' /\ GeneratedComplete'
  BY <1>2 DEF CompleteInv
<1>3. ASSUME NEW r \in Runs, mode_dispatch(r) PROVE AliveInv' /\ GeneratedComplete'
  <2>1. /\ exit # "none" /\ start'.dirs = dirs' /\ UNCHANGED <<task, pool>>
        /\ mode' = "generate" => exit' = "none"
        /\ gpc' \in {gpc, "parse"}
    BY <1>3 DEF mode_dispatch, fsVars
  <2>2. gpc = "off" /\ task' = <<>>
    BY <1>1, <2>1 DEF KeptInv, GenShape, Running
  <2> QED
    BY <2>1, <2>2 DEF AliveInv, GeneratedComplete
<1>4. CASE Generate
  <2>1. GenNext /\ Works /\ mode = "generate" /\ exit = "none"
    BY <1>4 DEF Generate, GenNext, Works, Running
  <2>2. AliveInv'
    BY <1>1, <2>1, AliveByLoader, AliveByFile, AliveByOthers DEF GenNext
  <2>3. CASE exit' = "success"
    BY <1>1, <2>1, <2>2, <2>3, SuccessIsFinish, CompleteAtFinish
  <2>4. CASE exit' # "success"
    BY <2>2, <2>4 DEF GeneratedComplete
  <2> QED
    BY <2>3, <2>4
<1>5. ASSUME mode # "generate", UNCHANGED mode, UNCHANGED genVars
      PROVE  AliveInv' /\ GeneratedComplete'
  <2>1. gpc' = "off"
    BY <1>1, <1>5 DEF KeptInv, GenShape, Running, genVars
  <2> QED
    BY <1>5, <2>1 DEF AliveInv, GeneratedComplete
<1>6. CASE Execute
  BY <1>5, <1>6, ExecuteFrame DEF Execute
<1>7. CASE Remove
  BY <1>1, <1>5, <1>7, RemoveFrame DEF Remove, KeptInv
<1>8. CASE UNCHANGED vars
  <2>1. UNCHANGED <<dirs, files, faults, mode, arg, exit, start, gpc, task, pool>>
    BY <1>8 DEF vars, fsVars, runVars, genVars
  <2>2. Specs' = Specs
    BY <2>1 DEF Specs
  <2>3. \A k : PathOf(k)' = PathOf(k) /\ loader_put_body(k)' = loader_put_body(k)
    BY <2>1, SamePaths, <2>2 DEF loader_put_body
  <2>4. Loaders' = Loaders /\ Tables' = Tables
    BY <2>1, SamePaths
  <2>5. AliveInv'
    BY <1>1, <2>1, <2>3, <2>4 DEF AliveInv, TaskAlive, OwnFile, Sound
  <2>6. GeneratedComplete'
    BY <1>1, <2>1, <2>2, <2>3, <2>4 DEF GeneratedComplete
  <2> QED
    BY <2>5, <2>6
<1> QED
  BY <1>3, <1>4, <1>6, <1>7, <1>8 DEF Next, Over

(* CompleteInv holds before the first run. *)
LEMMA CompleteInvInit == Init => CompleteInv
  BY KeptInvInit DEF Init, GenInit, CompleteInv, AliveInv, GeneratedComplete

(* A run of generate mode that reports success has made every directory    *)
(* anew and left in it the loader and all table files, written and closed, *)
(* whatever interleaving of its workers led there (loader.c, table.c,      *)
(* generate.h).                                                            *)
THEOREM SuccessIsWhole == Spec => []GeneratedComplete
<1>1. CompleteInv => GeneratedComplete
  BY DEF CompleteInv
<1> QED
  BY <1>1, CompleteInvInit, CompleteInvStep, PTL DEF Spec

-----------------------------------------------------------------------------
(* fts_open with -a: the entries of the database directory, in any order,  *)
(* are all of it.                                                          *)
LEMMA OrdersCover ==
    ASSUME IsFiniteSet(dirs), NEW s \in Orders
    PROVE  s \in Seq(dirs) /\ Range(s) = dirs
<1>1. PICK n \in Nat : n = Cardinality(dirs)
  BY FS_CardinalityType
<1>2. s \in [1..n -> dirs] /\ \A i, j \in 1..n : s[i] = s[j] => i = j
  BY <1>1 DEF Orders
<1>3. IsFiniteSet(1..n) /\ Cardinality(1..n) = n
  BY FS_Interval
<1>4. s \in Injection(1..n, dirs)
  BY <1>2 DEF Injection, IsInjective
<1>5. s \in Surjection(1..n, dirs)
  BY <1>1, <1>3, <1>4, FS_Injection
<1>6. Range(s) = dirs
  BY <1>2, <1>5 DEF Surjection, Range
<1> QED
  BY <1>2, <1>6

(* What a sequence holds is its head or in its tail. *)
LEMMA HeadOrTail ==
    ASSUME NEW S, NEW s \in Seq(S), s # <<>>
    PROVE  /\ Head(s) \in S /\ Tail(s) \in Seq(S)
           /\ \A d \in Range(s) : d = Head(s) \/ d \in Range(Tail(s))
<1>1. Head(s) \in S /\ Tail(s) \in Seq(S) /\ Len(s) \in Nat /\ Len(s) > 0
  OBVIOUS
<1>2. ASSUME NEW i \in 1..Len(s), i # 1 PROVE s[i] \in Range(Tail(s))
  <2>1. i - 1 \in DOMAIN Tail(s) /\ Tail(s)[i - 1] = s[i]
    BY <1>1, <1>2
  <2> QED
    BY <2>1 DEF Range
<1>3. \A d \in Range(s) : d = Head(s) \/ d \in Range(Tail(s))
  BY <1>1, <1>2 DEF Range
<1> QED
  BY <1>1, <1>3

(* A run that ends: Named is what the command line says and what was there *)
(* at the start, so it does not change.                                    *)
LEMMA SameNamed ==
    ASSUME UNCHANGED <<arg, start>>
    PROVE  Named' = Named /\ All' = All
  BY DEF Named, All

(* A run of remove mode that ends keeps RemoveInv when what it reports is *)
(* true.                                                                  *)
LEMMA RemovedAtExit ==
    ASSUME RemoveInv, FilesInDirs', mode = "remove", NEW how, how # "none", RemExit(how),
           UNCHANGED <<dirs, files>>,
           how = "success" => Traversed /\ left = "success" /\ roots = <<>>
    PROVE  RemoveInv'
<1>1. /\ exit' = how /\ UNCHANGED <<mode, arg, start>>
      /\ rpc' = "off" /\ roots' = <<>> /\ seen' = {} /\ left' = "success"
  BY DEF RemExit, Exit
<1>2. Named' = Named
  BY <1>1, SameNamed
<1>3. OthersKept /\ OthersKept' /\ arg \in Seq(STRING)
  BY <1>1, <1>2 DEF RemoveInv, OthersKept
<1>4. how = "success" => Named \subseteq start.dirs \ dirs
  BY DEF Traversed, Range
<1>5. RemovedExactly'
  BY <1>1, <1>2, <1>3, <1>4 DEF OthersKept, RemovedExactly, FilesInDirs
<1> QED
  BY <1>1, <1>3, <1>5 DEF RemoveInv, RemShape, Running

(* A step of the traversal.  *)
LEMMA RemovedByStep ==
    ASSUME RemoveInv, FilesInDirs', mode = "remove", exit = "none",
           UNCHANGED runVars, rpc' = "read", OthersKept', Traversed'
    PROVE  RemoveInv'
<1>1. RemShape'
  BY DEF RemShape, Running, runVars
<1>2. RemovedExactly'
  BY DEF OthersKept, RemovedExactly, runVars
<1> QED
  BY <1>1, <1>2 DEF RemoveInv, runVars

(* Parsing the names and opening the traversal keep RemoveInv *)
(* (remove_dispatch, fts_open).                               *)
LEMMA RemovedByOpen ==
    ASSUME RemoveInv, FilesInDirs', Running("remove"), NEW ok \in BOOLEAN,
           remove_dispatch(ok) \/ fts_open(ok)
    PROVE  RemoveInv'
<1> USE DEF Running
<1>1. mode = "remove" /\ exit = "none" /\ UNCHANGED <<dirs, files>>
  BY DEF remove_dispatch, fts_open, chdir
<1>2. CASE RemExit("failure")
  BY <1>1, <1>2, RemovedAtExit
<1>3. CASE rpc' = "fts" /\ UNCHANGED <<roots, seen, left>> /\ UNCHANGED runVars /\ rpc = "open"
  <2>1. RemShape'
    BY <1>1, <1>3 DEF RemoveInv, RemShape, runVars
  <2>2. Named' = Named
    BY <1>3, SameNamed DEF runVars
  <2>3. OthersKept' /\ RemovedExactly' /\ arg' \in Seq(STRING)
    BY <1>1, <1>3, <2>2 DEF RemoveInv, OthersKept, RemovedExactly, runVars
  <2> QED
    BY <1>3, <2>1, <2>3 DEF RemoveInv
<1>4. CASE rpc = "fts" /\ ok
  <2>1. /\ rpc' = "read" /\ roots' \in (IF All THEN Orders ELSE {arg})
        /\ UNCHANGED <<seen, left>> /\ UNCHANGED runVars
    BY <1>4 DEF fts_open, remove_dispatch
  <2>2. dirs = start.dirs /\ arg \in Seq(STRING) /\ OthersKept /\ IsFiniteSet(dirs)
    BY <1>1, <1>4 DEF RemoveInv, RemShape, FilesInDirs
  <2>3. Named' = Named
    BY <2>1, SameNamed DEF runVars
  <2>4. roots' \in Seq(Named) /\ Range(roots') = Named
    <3>1. CASE All
      BY <2>1, <2>2, <3>1, OrdersCover DEF Named
    <3>2. CASE ~All
      <4>1. roots' = arg /\ Named = Range(arg)
        BY <2>1, <3>2 DEF Named
      <4>2. arg \in Seq(Range(arg))
        BY <2>2 DEF Range
      <4> QED
        BY <4>1, <4>2
    <3> QED
      BY <3>1, <3>2
  <2>5. Traversed'
    BY <1>4, <2>1, <2>3, <2>4 DEF RemoveInv, RemShape, Traversed
  <2>6. OthersKept'
    BY <1>1, <2>1, <2>2, <2>3 DEF OthersKept, runVars
  <2> QED
    BY <1>1, <2>1, <2>5, <2>6, RemovedByStep
<1> QED
  BY <1>2, <1>3, <1>4 DEF remove_dispatch, fts_open

(* Every step of the traversal, its failures included, keeps RemoveInv *)
(* (remove_databases).                                                 *)
LEMMA RemovedByTraversal ==
    ASSUME RemoveInv, FilesInDirs', Running("remove"),
           fts_read_fails \/ \E ok \in BOOLEAN : RemoveFile(ok) \/ RemoveDirectory(ok)
    PROVE  RemoveInv'
<1> USE DEF Running
<1>1. /\ mode = "remove" /\ exit = "none" /\ rpc = "read" /\ roots # <<>>
      /\ rpc' = "read" /\ UNCHANGED runVars
  BY DEF fts_read_fails, RemoveFile, RemoveDirectory, NextRoot
<1>2. OthersKept /\ Traversed /\ roots \in Seq(Named)
  BY <1>1 DEF RemoveInv, Traversed
<1>3. /\ Head(roots) \in Named /\ Tail(roots) \in Seq(Named)
      /\ \A d \in Range(roots) : d = Head(roots) \/ d \in Range(Tail(roots))
  BY <1>1, <1>2, HeadOrTail
<1>4. Named' = Named /\ UNCHANGED <<arg, start>>
  BY <1>1, SameNamed DEF runVars
<1>5. ASSUME fts_read_fails PROVE OthersKept' /\ Traversed'
  <2>1. UNCHANGED <<dirs, files>> /\ left' = "failure" /\ roots' = Tail(roots)
    BY <1>5 DEF fts_read_fails, Failing, NextRoot
  <2> QED
    BY <1>2, <1>3, <1>4, <2>1 DEF OthersKept, Traversed
<1>6. ASSUME NEW ok \in BOOLEAN, RemoveFile(ok) PROVE OthersKept' /\ Traversed'
  <2>1. PICK p \in Entries(Head(roots)) : unlink(p, ok)
    BY <1>6 DEF RemoveFile
  <2>2. p[1] \in Named
    BY <1>3, <2>1 DEF Entries, In
  <2>3. /\ dirs' = dirs
        /\ \A q \in DOMAIN files : q # p => q \in DOMAIN files' /\ files'[q] = files[q]
    BY <2>1, UnlinkFrame DEF RemoveInv
  <2>4. roots' = roots /\ left' \in {left, "failure"}
    BY <1>6 DEF RemoveFile, Failing
  <2>5. OthersKept'
    BY <1>2, <1>4, <2>2, <2>3 DEF OthersKept
  <2> QED
    BY <1>2, <1>4, <2>3, <2>4, <2>5 DEF Traversed
<1>7. ASSUME NEW ok \in BOOLEAN, RemoveDirectory(ok) PROVE OthersKept' /\ Traversed'
  <2>1. /\ files' = files /\ roots' = Tail(roots) /\ Head(roots) \in dirs
        /\ ok => dirs' = dirs \ {Head(roots)} /\ left' = left
        /\ ~ok => dirs' = dirs /\ left' = "failure"
    BY <1>7 DEF RemoveDirectory, rmdir, NextRoot, Failing
  <2>2. OthersKept'
    BY <1>2, <1>3, <1>4, <2>1 DEF OthersKept
  <2>3. Traversed'
    BY <1>2, <1>3, <1>4, <2>1 DEF OthersKept, Traversed
  <2> QED
    BY <2>2, <2>3
<1> QED
  BY <1>1, <1>5, <1>6, <1>7, RemovedByStep

(* The other modes have nothing to do with it. *)
LEMMA GenerateFrame ==
    ASSUME GenNext
    PROVE  mode = "generate" /\ UNCHANGED <<mode, arg, start>>
<1> USE DEF runVars, GenExit, Exit
<1>1. ASSUME NEW k,
             \/ build_loader(k) \/ build_file(k) \/ Cancelled(k)
             \/ \E ok \in BOOLEAN : file_handle_cleanup(k, ok)
      PROVE  UNCHANGED <<mode, arg, start>>
  BY <1>1 DEF build_loader, build_file, file_handle_open, file_handle_close, file_handle_write,
              Cancelled, file_handle_cleanup, Went, Fail, database_exit_on_failure
<1>2. ASSUME \/ generate_dispatch \/ column_exit_on_failure \/ thread_pool_exit_on_failure
             \/ NextStage \/ DEAD_POOL_FAILURE \/ remove_free_table_files \/ remove_loaders_dirs
      PROVE  UNCHANGED <<mode, arg, start>>
  BY <1>2 DEF generate_dispatch, GenBegin, column_exit_on_failure, thread_pool_exit_on_failure,
              NextStage, DEAD_POOL_FAILURE, remove_free_table_files, remove_loaders_dirs, Gone
<1>3. ASSUME NEW ok \in BOOLEAN,
             mysql_seed_generate_constructors(ok) \/ thread_pool_start(ok) \/ Finish(ok)
      PROVE  UNCHANGED <<mode, arg, start>>
  BY <1>3 DEF mysql_seed_generate_constructors, thread_pool_start, Finish
<1> QED
  BY <1>1, <1>2, <1>3 DEF GenNext, Works, Running

(* RemoveInv is inductive. *)
LEMMA RemoveInvStep == KeptInv /\ RemoveInv /\ [Next]_vars => RemoveInv'
<1> SUFFICES ASSUME KeptInv, RemoveInv, [Next]_vars PROVE RemoveInv'
  OBVIOUS
<1>1. FilesInDirs'
  BY KeptInvStep DEF KeptInv
<1>2. ASSUME NEW r \in Runs, mode_dispatch(r) PROVE RemoveInv'
  <2>1. /\ UNCHANGED <<dirs, files, roots, seen, left>> /\ exit # "none"
        /\ start' = [dirs |-> dirs, files |-> files, server |-> server]
        /\ mode' = "remove" => exit' = "none" /\ arg' \in Seq(STRING)
        /\ rpc' = rpc \/ (rpc' = "open" /\ mode' = "remove")
    BY <1>2, RunsAssumption DEF mode_dispatch, fsVars
  <2>2. rpc = "off"
    BY <2>1 DEF RemoveInv, RemShape, Running
  <2>3. RemShape' /\ OthersKept' /\ RemovedExactly'
    BY <2>1, <2>2 DEF RemoveInv, RemShape, Running, OthersKept, RemovedExactly
  <2> QED
    BY <1>1, <2>1, <2>2, <2>3 DEF RemoveInv
<1>3. ASSUME mode # "remove", UNCHANGED <<mode, remVars>> PROVE RemoveInv'
  <2>1. rpc = "off" /\ rpc' = "off" /\ mode' # "remove"
    BY <1>3 DEF RemoveInv, RemShape, Running, remVars
  <2> QED
    BY <1>1, <1>3, <2>1 DEF RemoveInv, RemShape, RemovedExactly, remVars
<1>4. CASE Generate
  BY <1>3, <1>4, GenerateFrame DEF Generate
<1>5. CASE Execute
  BY <1>3, <1>5, ExecuteFrame DEF Execute
<1>6. CASE Remove
  <2>1. RemNext /\ Running("remove")
    BY <1>6 DEF Remove, RemNext
  <2>2. ASSUME NEW ok \in BOOLEAN, fts_close(ok) PROVE RemoveInv'
    <3>1. PICK how \in {"failure", "success", left} :
            RemExit(how) /\ (how = "success" => how = left)
      BY <2>2 DEF fts_close
    <3>2. rpc = "read" /\ roots = <<>> /\ UNCHANGED <<dirs, files>>
      BY <2>2 DEF fts_close
    <3>3. how # "none"
      BY <3>1, <3>2 DEF RemoveInv, Traversed
    <3> QED
      BY <1>1, <2>1, <3>1, <3>2, <3>3, RemovedAtExit DEF RemoveInv, Running
  <2>3. ASSUME fts_read_root_fails PROVE RemoveInv'
    BY <1>1, <2>1, <2>3, RemovedAtExit DEF fts_read_root_fails, Running
  <2> QED
    BY <1>1, <2>1, <2>2, <2>3, RemovedByOpen, RemovedByTraversal DEF RemNext
<1>7. CASE UNCHANGED vars
  <2>1. /\ UNCHANGED <<dirs, files, mode, arg, exit, start>>
        /\ UNCHANGED <<rpc, roots, seen, left>>
    BY <1>7 DEF vars, fsVars, runVars, remVars
  <2>2. Named' = Named
    BY <2>1, SameNamed
  <2> QED
    BY <1>1, <2>1, <2>2
       DEF RemoveInv, RemShape, Running, OthersKept, Traversed, RemovedExactly
<1> QED
  BY <1>2, <1>4, <1>5, <1>6, <1>7 DEF Next, Over

(* Remove mode touches nothing but what it was asked to remove, and if it  *)
(* reports success all of that is gone, for any arguments and any fault of *)
(* the traversal (mysql_seed_remove.h).                                    *)
THEOREM RemovesExactlyTheNamed == Spec => []RemovedExactly
<1>1. Init => RemoveInv
  BY FS_EmptySet DEF Init, RemInit, RemoveInv, FilesInDirs, RemShape, RemovedExactly
<1>2. RemoveInv => RemovedExactly
  BY DEF RemoveInv
<1> QED
  BY <1>1, <1>2, KeptInvInit, KeptInvStep, RemoveInvStep, PTL DEF Spec

-----------------------------------------------------------------------------
(***************************************************************************)
(* Execute mode: the log                                                   *)
(*                                                                         *)
(* A message of the log is whole because its pieces are appended under the *)
(* lock, so LogInv says how far the holder of the lock has come and where  *)
(* in the log its pieces begin.                                            *)
(***************************************************************************)
(* Where a worker is before its failure is noted, and while it notes it. *)
Loading == {"todo", "opened", "sized", "loaded", "locked", "flush"}
Noting == {"log1", "log2", "log3", "note1", "unlog"}
WorkerStates == Loading \union Noting \union {"done", "log", "note", "failed"}

(* Main's list of names and the state of each loading. *)
ExeShape ==
    /\ xpc \in {"off", "parse", "connect", "run"}
    /\ xpc # "off" => Running("execute")
    /\ mode = "execute" => arg \in Seq(STRING)
    /\ names \in Seq(Range(names))
    /\ xpc = "run" => /\ DOMAIN worker = DOMAIN names /\ DOMAIN query = DOMAIN names
                      /\ \A n \in DOMAIN names : worker[n] \in WorkerStates

(* Thread n has appended j pieces, the last pieces of the log unless the   *)
(* buffer is full.                                                         *)
Wrote(n, j) ==
    \E b \in 0..Len(log) :
        /\ \A a \in DOMAIN log : log[a].who = n <=> a > b
        /\ \A a \in DOMAIN log : a > b => log[a].piece = a - b
        /\ Len(log) = b + j \/ Len(log) = LOG_SIZE

(* What the log holds of a loading. *)
Noted(n) ==
    /\ worker[n] \in Loading \union {"done", "log", "note", "log1", "note1"} => ~Mentions(n)
    /\ worker[n] \in Noting => logLock = {n}
    /\ worker[n] = "log2" => Wrote(n, 1)
    /\ worker[n] = "log3" => Wrote(n, 2)
    /\ worker[n] = "unlog" => \E j \in 1..3 : Wrote(n, j)
    /\ worker[n] = "failed" => Whole(n) /\ (Mentions(n) \/ Len(log) = LOG_SIZE)

LogInv ==
    /\ ExeShape
    /\ log \in Seq([who : Nat, piece : Nat]) /\ Len(log) <= LOG_SIZE
    /\ xpc = "run" /\ ~Single => \A n \in DOMAIN names : Noted(n)

-----------------------------------------------------------------------------
(* A worker that is loading does one thing to the shared state of the      *)
(* executors and notes nothing yet.                                        *)
LEMMA LoadingStep ==
    ASSUME NEW n, build_database(n), ~log_failure(n)
    PROVE  /\ UNCHANGED <<xpc, names, log, logLock>> /\ UNCHANGED runVars
           /\ worker[n] \in Loading
           /\ \/ worker' = worker
              \/ \E to \in Loading \union {"done", "log", "note"} :
                    worker' = [worker EXCEPT ![n] = to]
              \/ Single /\ worker' = [worker EXCEPT ![n] = "failed"]
<1> USE DEF Loading, Step, Failed, Quiet, logVars
<1>1. CASE \E ok \in BOOLEAN : query_open(n, ok) \/ query_alloc(n, ok)
  BY <1>1 DEF query_open, query_alloc
<1>2. CASE \E how \in {"whole", "cut", "error"} : query_load(n, how)
  BY <1>2 DEF query_load
<1>3. CASE \E ok \in BOOLEAN : server_lock(n, ok)
  BY <1>3 DEF server_lock
<1>4. CASE \E ok \in BOOLEAN : mysql_real_query(n, ok)
  BY <1>4 DEF mysql_real_query
<1>5. CASE \E ok \in BOOLEAN : server_unlock(n, ok)
  BY <1>5 DEF server_unlock
<1>6. CASE \E how \in {"ok", "error", "lost"} : mysql_flush_results(n, how)
  BY <1>6 DEF mysql_flush_results
<1> QED
  BY <1>1, <1>2, <1>3, <1>4, <1>5, <1>6 DEF build_database

(* Nothing is written past the end of the buffer. *)
LEMMA AppendTyped ==
    ASSUME LogInv, NEW n \in Nat, NEW piece \in Nat, thread_log_append(n, piece)
    PROVE  log' \in Seq([who : Nat, piece : Nat]) /\ Len(log') <= LOG_SIZE
<1>1. log \in Seq([who : Nat, piece : Nat]) /\ Len(log) \in Nat /\ Len(log) <= LOG_SIZE
  BY DEF LogInv
<1>2. CASE Len(log) < LOG_SIZE
  <2>1. log' = Append(log, [who |-> n, piece |-> piece])
    BY <1>2 DEF thread_log_append
  <2>2. log' \in Seq([who : Nat, piece : Nat]) /\ Len(log') = Len(log) + 1
    BY <1>1, <2>1
  <2> QED
    BY <1>1, <1>2, <2>2, LogAssumption
<1>3. CASE ~(Len(log) < LOG_SIZE)
  BY <1>1, <1>3 DEF thread_log_append
<1> QED
  BY <1>2, <1>3

(* What thread n appends says nothing about another. *)
LEMMA AppendOther ==
    ASSUME LogInv, NEW n \in Nat, NEW m \in Nat, m # n, NEW piece \in Nat,
           thread_log_append(n, piece)
    PROVE  /\ Mentions(m)' <=> Mentions(m)
           /\ Whole(m) => Whole(m)'
           /\ Len(log) = LOG_SIZE => Len(log') = LOG_SIZE
<1>1. log \in Seq([who : Nat, piece : Nat])
  BY DEF LogInv
<1>2. CASE log' = log
  BY <1>2 DEF Mentions, Whole
<1>3. CASE log' = Append(log, [who |-> n, piece |-> piece]) /\ Len(log) < LOG_SIZE
  <2>1. /\ DOMAIN log = 1..Len(log) /\ Len(log) \in Nat
        /\ DOMAIN log' = 1..(Len(log) + 1)
        /\ \A a \in 1..Len(log) : log'[a] = log[a]
        /\ log'[Len(log) + 1].who = n
    BY <1>1, <1>3
  <2>2. \A a \in DOMAIN log' : log'[a].who = m => a \in DOMAIN log /\ log'[a] = log[a]
    BY <2>1
  <2>3. Mentions(m)' <=> Mentions(m)
    BY <2>1, <2>2 DEF Mentions
  <2>4. Whole(m) => Whole(m)'
    BY <2>1, <2>2 DEF Whole
  <2>5. Len(log) # LOG_SIZE
    <3>1. Len(log) \in Nat /\ LOG_SIZE \in Nat
      BY <1>1, LogAssumption
    <3> QED
      BY <1>3, <3>1
  <2> QED
    BY <2>3, <2>4, <2>5
<1> QED
  BY <1>2, <1>3 DEF thread_log_append

(* The next piece of the thread that has the lock. *)
LEMMA AppendOwn ==
    ASSUME LogInv, NEW n \in Nat, NEW j \in Nat,
           thread_log_append(n, j + 1),
           j = 0 => ~Mentions(n), j > 0 => Wrote(n, j)
    PROVE  Wrote(n, j + 1)'
<1>1. log \in Seq([who : Nat, piece : Nat]) /\ Len(log) \in Nat /\ Len(log) <= LOG_SIZE
  BY DEF LogInv
<1>2. PICK b \in 0..Len(log) :
          /\ \A a \in DOMAIN log : log[a].who = n <=> a > b
          /\ \A a \in DOMAIN log : a > b => log[a].piece = a - b
          /\ Len(log) = b + j \/ Len(log) = LOG_SIZE
  <2>1. CASE j = 0
    <3>1. \A a \in DOMAIN log : log[a].who # n
      BY <2>1 DEF Mentions
    <3>2. \A a \in DOMAIN log : ~(a > Len(log))
      BY <1>1
    <3>3. Len(log) \in 0..Len(log) /\ Len(log) = Len(log) + j
      BY <1>1, <2>1
    <3> QED
      BY <3>1, <3>2, <3>3
  <2>2. CASE j > 0
    BY <2>2 DEF Wrote
  <2> QED
    BY <2>1, <2>2
<1>3. CASE Len(log) < LOG_SIZE
  <2>1. log' = Append(log, [who |-> n, piece |-> j + 1]) /\ Len(log) = b + j
    BY <1>2, <1>3, <1>1, LogAssumption DEF thread_log_append
  <2>2. /\ DOMAIN log = 1..Len(log) /\ DOMAIN log' = 1..(Len(log) + 1) /\ Len(log') = Len(log) + 1
        /\ \A a \in 1..Len(log) : log'[a] = log[a]
        /\ log'[Len(log) + 1] = [who |-> n, piece |-> j + 1]
    BY <1>1, <2>1
  <2>3. \A a \in DOMAIN log' : log'[a].who = n <=> a > b
    BY <1>1, <1>2, <2>1, <2>2
  <2>4. \A a \in DOMAIN log' : a > b => log'[a].piece = a - b
    <3>1. log'[Len(log) + 1].piece = Len(log) + 1 - b
      <4>1. log'[Len(log) + 1].piece = j + 1
        BY <2>2
      <4>2. Len(log) = b + j /\ b \in Int /\ Len(log) \in Int
        BY <1>1, <2>1
      <4>3. j + 1 = Len(log) + 1 - b
        BY <4>2
      <4> QED
        BY <4>1, <4>3
    <3>2. ASSUME NEW a \in DOMAIN log', a > b PROVE log'[a].piece = a - b
      <4>1. CASE a = Len(log) + 1
        BY <3>1, <4>1
      <4>2. CASE a # Len(log) + 1
        <5>1. a \in DOMAIN log /\ log'[a] = log[a]
          BY <1>1, <2>2, <4>2
        <5> QED
          BY <1>2, <3>2, <5>1
      <4> QED
        BY <4>1, <4>2
    <3> QED
      BY <3>2
  <2>5. Len(log') = b + (j + 1) /\ b \in 0..Len(log')
    BY <1>1, <2>1, <2>2
  <2> QED
    BY <2>3, <2>4, <2>5 DEF Wrote
<1>4. CASE ~(Len(log) < LOG_SIZE)
  <2>1. log' = log /\ Len(log) = LOG_SIZE
    BY <1>1, <1>4, LogAssumption DEF thread_log_append
  <2> QED
    BY <1>2, <2>1 DEF Wrote
<1> QED
  BY <1>3, <1>4

(* A thread that has appended some of its pieces has them contiguous in the *)
(* log, or the log is full (thread_log_append_string).                      *)
LEMMA WroteIsWhole ==
    ASSUME LogInv, NEW n \in Nat, NEW j \in 1..3, Wrote(n, j)
    PROVE  Whole(n) /\ (Mentions(n) \/ Len(log) = LOG_SIZE)
<1>1. log \in Seq([who : Nat, piece : Nat]) /\ Len(log) \in Nat /\ DOMAIN log = 1..Len(log)
  BY DEF LogInv
<1>2. PICK b \in 0..Len(log) :
          /\ \A a \in DOMAIN log : log[a].who = n <=> a > b
          /\ \A a \in DOMAIN log : a > b => log[a].piece = a - b
          /\ Len(log) = b + j \/ Len(log) = LOG_SIZE
  BY DEF Wrote
<1>3. Whole(n)
  <2> SUFFICES ASSUME NEW x \in DOMAIN log, NEW y \in DOMAIN log,
                      log[x].who = n, log[y].who = n, x < y
               PROVE  log[y].piece - log[x].piece = y - x
    BY DEF Whole
  <2>1. log[x].piece = x - b /\ log[y].piece = y - b
    BY <1>2
  <2>2. x \in Nat /\ y \in Nat /\ b \in Nat
    BY <1>1
  <2> QED
    BY <2>1, <2>2
<1>4. ASSUME Len(log) = b + j PROVE Mentions(n)
  <2>1. b + j \in DOMAIN log /\ b + j > b
    BY <1>1, <1>4
  <2> QED
    BY <1>2, <2>1 DEF Mentions
<1> QED
  BY <1>2, <1>3, <1>4

-----------------------------------------------------------------------------
(* execute_parse_credentials finds the end of the credentials, or NULL if  *)
(* nothing follows them.                                                   *)
LEMMA CredentialsParsed ==
    ASSUME arg \in Seq(STRING), arg # <<>>
    PROVE  /\ Credentials \in 0..3
           /\ execute_parse_credentials = IF Credentials < Len(arg) THEN Credentials + 1 ELSE 0
<1>1. Len(arg) \in Nat /\ Len(arg) >= 1
  OBVIOUS
<1>2. ASSUME NEW m \in 0..3, AreCredentials(m), \A l \in 0..3 : AreCredentials(l) => l <= m
      PROVE  Credentials = m
  <2>1. /\ Credentials \in 0..3 /\ AreCredentials(Credentials)
        /\ \A l \in 0..3 : AreCredentials(l) => l <= Credentials
    BY <1>2 DEF Credentials
  <2>2. Credentials <= m /\ m <= Credentials
    BY <1>2, <2>1
  <2> QED
    BY <2>1, <2>2
<1> USE DEF AreCredentials, ArgIn, Pwd, execute_parse_credentials, execute_parse_user,
            execute_parse_pwd, Past
<1>3. CASE arg[1] \in Pwd /\ ArgIn(2, {"-u"})
  <2>1. AreCredentials(3)
    BY <1>1, <1>3
  <2>2. Credentials = 3
    BY <1>2, <2>1
  <2>3. execute_parse_credentials = IF Len(arg) = 2 THEN 0 ELSE Past(4)
    BY <1>1, <1>3
  <2>4. (IF Len(arg) = 2 THEN 0 ELSE Past(4)) = IF 3 < Len(arg) THEN 4 ELSE 0
    <3>1. \A n \in Nat : 2 <= n => (IF n = 2 THEN 0 ELSE IF 4 <= n THEN 4 ELSE 0)
                                   = IF 3 < n THEN 4 ELSE 0
      OBVIOUS
    <3> QED
      BY <1>1, <1>3, <3>1
  <2> QED
    BY ONLY <2>2, <2>3, <2>4
<1>4. CASE arg[1] \in Pwd /\ ArgIn(2, {"-uNAME"})
  BY <1>1, <1>2, <1>4
<1>5. CASE arg[1] \in Pwd /\ ~ArgIn(2, {"-u", "-uNAME"})
  BY <1>1, <1>2, <1>5
<1>6. CASE arg[1] = "-u" /\ ArgIn(3, Pwd)
  BY <1>1, <1>2, <1>6
<1>7. CASE arg[1] = "-u" /\ ~ArgIn(3, Pwd)
  BY <1>1, <1>2, <1>7
<1>8. CASE arg[1] = "-uNAME" /\ ArgIn(2, Pwd)
  BY <1>1, <1>2, <1>8
<1>9. CASE arg[1] = "-uNAME" /\ ~ArgIn(2, Pwd)
  BY <1>1, <1>2, <1>9
<1>10. CASE arg[1] \notin Pwd \union {"-u", "-uNAME"}
  BY <1>1, <1>2, <1>10
<1> QED
  BY <1>3, <1>4, <1>5, <1>6, <1>7, <1>8, <1>9, <1>10

-----------------------------------------------------------------------------
(* execute_parse_db_names and its _recover: every valid name after the     *)
(* credentials is in the list.                                             *)
ValidAt(from) == {i \in from..Len(arg) : arg[i] \in Dbs}

(* A proper subset of a finite set is smaller. *)
LEMMA SmallerSubset ==
    ASSUME NEW S, IsFiniteSet(S), NEW T \in SUBSET S, T # S
    PROVE  Cardinality(T) < Cardinality(S)
<1>1. IsFiniteSet(T) /\ Cardinality(T) <= Cardinality(S) /\ Cardinality(T) # Cardinality(S)
  BY FS_Subset
<1>2. Cardinality(T) \in Nat /\ Cardinality(S) \in Nat
  BY <1>1, FS_CardinalityType
<1> QED
  BY <1>1, <1>2

(* Only finitely many arguments name a database. *)
LEMMA ValidFinite ==
    ASSUME arg \in Seq(STRING), NEW from \in Nat, NEW i \in Nat
    PROVE  /\ IsFiniteSet(ValidAt(from)) /\ Cardinality(ValidAt(from)) \in Nat
           /\ IsFiniteSet({j \in ValidAt(from) : j < i})
           /\ Cardinality({j \in ValidAt(from) : j < i}) \in Nat
<1>1. Len(arg) \in Nat
  OBVIOUS
<1>2. IsFiniteSet(from..Len(arg))
  BY <1>1, FS_Interval
<1>3. ValidAt(from) \subseteq from..Len(arg)
  BY DEF ValidAt
<1>4. IsFiniteSet(ValidAt(from))
  BY <1>2, <1>3, FS_Subset
<1>5. IsFiniteSet({j \in ValidAt(from) : j < i})
  BY <1>4, FS_Subset
<1> QED
  BY <1>4, <1>5, FS_CardinalityType

(* The parsed names are a sequence with one entry per valid argument *)
(* (execute_parse_db_names).                                         *)
LEMMA NamesShape ==
    ASSUME arg \in Seq(STRING), NEW from \in Nat
    PROVE  /\ execute_parse_db_names(from) \in Seq(Range(execute_parse_db_names(from)))
           /\ Len(execute_parse_db_names(from)) = Cardinality(ValidAt(from))
           /\ DOMAIN execute_parse_db_names(from) = 1..Cardinality(ValidAt(from))
<1> DEFINE s == execute_parse_db_names(from)
           c == Cardinality(ValidAt(from))
<1>1. c \in Nat
  BY ValidFinite
<1>2. s = [n \in 1..c |-> s[n]] /\ DOMAIN s = 1..c
  BY DEF execute_parse_db_names, ValidAt
<1> HIDE DEF s, c
<1>3. s \in [1..c -> Range(s)]
  BY <1>2 DEF Range
<1>4. s \in Seq(Range(s)) /\ Len(s) = c
  BY <1>1, <1>3
<1> QED
  BY <1>2, <1>4 DEF s, c

(* Two valid arguments have a different number of them before. *)
LEMMA CountBefore ==
    ASSUME arg \in Seq(STRING), NEW from \in Nat, NEW i \in ValidAt(from), NEW k \in ValidAt(from),
           i < k
    PROVE  Cardinality({j \in ValidAt(from) : j < i}) < Cardinality({j \in ValidAt(from) : j < k})
<1>1. i \in Nat /\ k \in Nat /\ ValidAt(from) \subseteq Nat
  BY DEF ValidAt
<1>2. {j \in ValidAt(from) : j < i} \subseteq {j \in ValidAt(from) : j < k}
  BY <1>1
<1>3. {j \in ValidAt(from) : j < i} # {j \in ValidAt(from) : j < k}
  BY <1>1
<1>4. IsFiniteSet({j \in ValidAt(from) : j < k})
  BY <1>1, ValidFinite
<1> QED
  BY <1>2, <1>3, <1>4, SmallerSubset

(* Every valid argument is among the parsed names, at the place the count *)
(* of the valid ones before it gives.                                     *)
LEMMA NamesCover ==
    ASSUME arg \in Seq(STRING), NEW from \in Nat, NEW i \in ValidAt(from)
    PROVE  \E n \in DOMAIN execute_parse_db_names(from) :
              /\ execute_parse_db_names(from)[n] = arg[i]
              /\ n = Cardinality({j \in ValidAt(from) : j < i}) + 1
<1> DEFINE before(k) == Cardinality({j \in ValidAt(from) : j < k})
<1>1. ValidAt(from) \subseteq Nat
  BY DEF ValidAt
<1>2. \A k \in ValidAt(from) : before(k) \in Nat
  BY <1>1, ValidFinite
<1>3. before(i) < Cardinality(ValidAt(from)) /\ Cardinality(ValidAt(from)) \in Nat
  <2>1. {j \in ValidAt(from) : j < i} \subseteq ValidAt(from)
    OBVIOUS
  <2>2. {j \in ValidAt(from) : j < i} # ValidAt(from)
    BY <1>1
  <2>3. IsFiniteSet(ValidAt(from)) /\ Cardinality(ValidAt(from)) \in Nat
    BY <1>1, ValidFinite
  <2> QED
    BY <2>1, <2>2, <2>3, SmallerSubset
<1>4. ASSUME NEW k \in ValidAt(from), before(k) = before(i) PROVE k = i
  <2>1. k \in Nat /\ i \in Nat /\ before(k) \in Nat /\ before(i) \in Nat
    BY <1>1, <1>2
  <2>2. (k < i => before(k) < before(i)) /\ (i < k => before(i) < before(k))
    BY CountBefore
  <2> HIDE DEF before
  <2> QED
    BY <1>4, <2>1, <2>2
<1>5. (CHOOSE k \in ValidAt(from) : before(k) = before(i)) = i
  BY <1>4
<1>6. before(i) + 1 \in 1..Cardinality(ValidAt(from)) /\ (before(i) + 1) - 1 = before(i)
  BY <1>2, <1>3
<1>7. execute_parse_db_names(from) =
          [n \in 1..Cardinality(ValidAt(from)) |->
              arg[CHOOSE k \in ValidAt(from) : before(k) = n - 1]]
  BY DEF execute_parse_db_names, ValidAt
<1>8. execute_parse_db_names(from)[before(i) + 1]
        = arg[CHOOSE k \in ValidAt(from) : before(k) = before(i)]
  BY <1>6, <1>7
<1> QED
  BY <1>5, <1>6, <1>7, <1>8

-----------------------------------------------------------------------------
(* A log that nobody has written to is of no consequence to the others. *)
LEMMA NotedKept ==
    ASSUME NEW m, Noted(m), UNCHANGED <<log, logLock>>, worker'[m] = worker[m]
    PROVE  Noted(m)'
  BY DEF Noted, Mentions, Wrote, Whole

(* A step of a worker keeps the shape of execute mode's state. *)
LEMMA ExeShapeByWorker ==
    ASSUME ExeShape, Running("execute"), xpc = "run", NEW n \in DOMAIN names, build_database(n)
    PROVE  ExeShape' /\ UNCHANGED <<xpc, names, mode, arg, exit, start>>
<1>1. UNCHANGED <<xpc, names>> /\ UNCHANGED runVars
  <2>1. CASE log_failure(n)
    BY <2>1 DEF log_failure, Step
  <2>2. CASE ~log_failure(n)
    BY <2>2, LoadingStep
  <2> QED
    BY <2>1, <2>2
<1>2. worker' = worker \/ \E to \in WorkerStates : worker' = [worker EXCEPT ![n] = to]
  <2>1. CASE log_failure(n)
    BY <2>1 DEF log_failure, Step, WorkerStates, Noting
  <2>2. CASE ~log_failure(n)
    BY <2>2, LoadingStep DEF WorkerStates, Loading
  <2> QED
    BY <2>1, <2>2
<1>3. query' = query \/ \E q : query' = [query EXCEPT ![n] = q]
  <2>1. CASE log_failure(n)
    BY <2>1 DEF log_failure
  <2> QED
    BY <2>1 DEF build_database, query_open, query_alloc, query_load, server_lock, mysql_real_query,
                server_unlock, mysql_flush_results
<1>4. DOMAIN worker' = DOMAIN names /\ DOMAIN query' = DOMAIN names
  BY <1>2, <1>3 DEF ExeShape
<1>5. \A m \in DOMAIN names : worker'[m] \in WorkerStates
  BY <1>2 DEF ExeShape
<1> QED
  BY <1>1, <1>4, <1>5 DEF ExeShape, Running, runVars

(* A step of a worker, from its connection to the last piece of its note, *)
(* keeps LogInv (build_database, log_failure).                            *)
LEMMA LogByWorker ==
    ASSUME LogInv, Running("execute"), xpc = "run", NEW n \in DOMAIN names, build_database(n)
    PROVE  LogInv'
<1>1. ExeShape' /\ UNCHANGED <<xpc, names>>
  BY ExeShapeByWorker DEF LogInv
<1>2. Single' = Single
  BY <1>1 DEF Single
<1>3. DOMAIN names \subseteq Nat /\ DOMAIN worker = DOMAIN names
  <2>1. names \in Seq(Range(names)) /\ DOMAIN worker = DOMAIN names
    BY DEF LogInv, ExeShape
  <2> QED
    BY <2>1
<1>4. CASE ~log_failure(n)
  <2>1. /\ UNCHANGED <<log, logLock>> /\ worker[n] \in Loading
        /\ \/ worker' = worker
           \/ \E to \in Loading \union {"done", "log", "note"} :
                worker' = [worker EXCEPT ![n] = to]
           \/ Single /\ worker' = [worker EXCEPT ![n] = "failed"]
    BY <1>4, LoadingStep
  <2>2. ASSUME ~Single, NEW m \in DOMAIN names PROVE Noted(m)'
    <3>1. Noted(m)
      BY <2>2 DEF LogInv
    <3>2. CASE m # n \/ worker' = worker
      <4>1. worker'[m] = worker[m]
        BY <1>3, <2>1, <3>2
      <4> QED
        BY <2>1, <3>1, <4>1, NotedKept
    <3>3. CASE m = n /\ worker' # worker
      <4>1. worker'[n] \in Loading \union {"done", "log", "note"}
        <5>1. PICK to \in Loading \union {"done", "log", "note"} :
                worker' = [worker EXCEPT ![n] = to]
          BY <2>1, <2>2, <3>3
        <5> QED
          BY <1>3, <5>1
      <4>2. ~Mentions(n)'
        BY <2>1, <3>1, <3>3 DEF Noted, Mentions
      <4> QED
        BY <3>3, <4>1, <4>2 DEF Noted, Loading, Noting
    <3> QED
      BY <3>2, <3>3
  <2> QED
    BY <1>1, <1>2, <2>1, <2>2 DEF LogInv
<1>5. CASE log_failure(n) /\ Single
  <2>1. log' = log \/ \E piece \in 1..3 : thread_log_append(n, piece)
    BY <1>5 DEF log_failure, thread_log_lock, thread_log_unlock
  <2>2. log' \in Seq([who : Nat, piece : Nat]) /\ Len(log') <= LOG_SIZE
    BY <1>3, <2>1, AppendTyped DEF LogInv
  <2> QED
    BY <1>1, <1>2, <1>5, <2>2 DEF LogInv
<1>6. CASE log_failure(n) /\ ~Single
  <2>0. \A m \in DOMAIN names : Noted(m)
    BY <1>6 DEF LogInv
  <2>1. ASSUME worker[n] \in {"log", "note"}, thread_log_lock(n),
               Step(n, IF worker[n] = "log" THEN "log1" ELSE "note1")
        PROVE  LogInv'
    <3>1. /\ log' = log /\ logLock = {} /\ logLock' = {n}
          /\ worker'[n] \in {"log1", "note1"}
          /\ \A m \in DOMAIN names : m # n => worker'[m] = worker[m]
      BY <1>3, <2>1 DEF thread_log_lock, mutex_lock, Step
    <3>2. ASSUME NEW m \in DOMAIN names PROVE Noted(m)'
      <4>1. CASE m # n
        <5>1. worker[m] \notin Noting
          BY <2>0, <3>1 DEF Noted
        <5> QED
          BY <2>0, <3>1, <4>1, <5>1 DEF Noted, Mentions, Wrote, Whole, Noting
      <4>2. CASE m = n
        <5>1. ~Mentions(n)'
          BY <2>0, <2>1, <3>1 DEF Noted, Mentions
        <5> QED
          BY <3>1, <4>2, <5>1 DEF Noted, Noting, Loading
      <4> QED
        BY <4>1, <4>2
    <3> QED
      BY <1>1, <3>1, <3>2 DEF LogInv
  <2>2. ASSUME worker[n] = "unlog", thread_log_unlock(n), Step(n, "failed") PROVE LogInv'
    <3>1. /\ log' = log /\ logLock = {n}
          /\ worker'[n] = "failed"
          /\ \A m \in DOMAIN names : m # n => worker'[m] = worker[m]
      BY <1>3, <2>0, <2>2 DEF thread_log_unlock, Step, Noted, Noting
    <3>2. ASSUME NEW m \in DOMAIN names PROVE Noted(m)'
      <4>1. CASE m # n
        <5>1. worker[m] \notin Noting
          BY <2>0, <3>1, <4>1 DEF Noted
        <5> QED
          BY <2>0, <3>1, <4>1, <5>1 DEF Noted, Mentions, Wrote, Whole, Noting
      <4>2. CASE m = n
        <5>1. PICK j \in 1..3 : Wrote(n, j)
          BY <2>0, <2>2 DEF Noted
        <5>2. Whole(n) /\ (Mentions(n) \/ Len(log) = LOG_SIZE)
          BY <1>3, <5>1, WroteIsWhole
        <5> QED
          BY <3>1, <4>2, <5>2 DEF Noted, Noting, Loading, Whole, Mentions
      <4> QED
        BY <4>1, <4>2
    <3> QED
      BY <1>1, <3>1, <3>2 DEF LogInv
  <2>3. ASSUME NEW j \in 0..2, NEW to \in {"log2", "log3", "unlog"},
               worker[n] \in {"log1", "log2", "log3", "note1"},
               thread_log_append(n, j + 1), Step(n, to),
               to = "log2" => j = 0, to = "log3" => j = 1,
               j = 0 => worker[n] \in {"log1", "note1"},
               j = 1 => worker[n] = "log2", j = 2 => worker[n] = "log3"
        PROVE  LogInv'
    <3>1. /\ logLock' = logLock /\ logLock = {n}
          /\ worker'[n] = to
          /\ \A m \in DOMAIN names : m # n => worker'[m] = worker[m]
      BY <1>3, <2>0, <2>3 DEF thread_log_append, Step, Noted, Noting
    <3>2. Wrote(n, j + 1)'
      <4>1. (j = 0 => ~Mentions(n)) /\ (j > 0 => Wrote(n, j))
        BY <2>0, <2>3 DEF Noted
      <4> QED
        BY <1>3, <2>3, <4>1, AppendOwn
    <3>3. ASSUME NEW m \in DOMAIN names PROVE Noted(m)'
      <4>1. CASE m # n
        <5>1. worker[m] \notin Noting
          BY <2>0, <3>1, <4>1 DEF Noted
        <5>2. /\ Mentions(m)' <=> Mentions(m)
              /\ Whole(m) => Whole(m)'
              /\ Len(log) = LOG_SIZE => Len(log') = LOG_SIZE
          BY <1>3, <2>3, <4>1, AppendOther
        <5> QED
          BY <2>0, <3>1, <4>1, <5>1, <5>2 DEF Noted, Noting
      <4>2. CASE m = n
        BY <2>3, <3>1, <3>2, <4>2 DEF Noted, Noting, Loading
      <4> QED
        BY <4>1, <4>2
    <3>4. log' \in Seq([who : Nat, piece : Nat]) /\ Len(log') <= LOG_SIZE
      BY <1>3, <2>3, AppendTyped
    <3> QED
      BY <1>1, <3>3, <3>4 DEF LogInv
  <2>4. ASSUME worker[n] \in {"log1", "log2", "log3", "note1"},
               thread_log_append(n, [log1 |-> 1, log2 |-> 2, log3 |-> 3, note1 |-> 1][worker[n]]),
               Step(n,
                    [log1 |-> "log2", log2 |-> "log3", log3 |-> "unlog", note1 |-> "unlog"][worker[n]])
        PROVE  LogInv'
    <3>1. CASE worker[n] = "log1"
      BY <2>3, <2>4, <3>1
    <3>2. CASE worker[n] = "log2"
      BY <2>3, <2>4, <3>2
    <3>3. CASE worker[n] = "log3"
      BY <2>3, <2>4, <3>3
    <3>4. CASE worker[n] = "note1"
      BY <2>3, <2>4, <3>4
    <3> QED
      BY <2>4, <3>1, <3>2, <3>3, <3>4
  <2> QED
    BY <1>6, <2>1, <2>2, <2>4 DEF log_failure
<1> QED
  BY <1>4, <1>5, <1>6

(* The run ends: the log is gone with the process. *)
LEMMA ShapeAtExit ==
    ASSUME ExeShape, NEW how, ExeExit(how)
    PROVE  /\ ExeShape' /\ xpc' = "off" /\ log' = <<>>
           /\ UNCHANGED <<mode, arg, start>> /\ exit' = how
<1>1. /\ xpc' = "off" /\ names' = <<>> /\ log' = <<>>
      /\ UNCHANGED <<mode, arg, start>> /\ exit' = how
  BY DEF ExeExit, SetExe, exeOff, Exit
<1>2. names' \in Seq(Range(names'))
  BY <1>1 DEF Range
<1> QED
  BY <1>1, <1>2 DEF ExeShape

(* Main's steps before the loading. *)
LEMMA ShapeByMain ==
    ASSUME ExeShape, Running("execute"),
           execute_dispatch \/ \E ok \in BOOLEAN : mysql_seed_execute(ok)
    PROVE  /\ ExeShape' /\ UNCHANGED <<mode, arg, start>>
           /\ \/ \E how : ExeExit(how)
              \/ xpc' = "connect" /\ UNCHANGED <<log, exit>>
              \/ /\ xpc' = "run" /\ thread_log_init /\ init_executor_task_nodes
                 /\ UNCHANGED <<names, status, conn, exit>>
<1> USE DEF runVars
<1>1. CASE \E how : ExeExit(how)
  BY <1>1, ShapeAtExit
<1>2. CASE \E ok \in BOOLEAN : mysql_seed_execute(ok) /\ ok
  <2>1. /\ xpc' = "run" /\ UNCHANGED <<names, status, conn, mode, arg, start, exit>>
        /\ thread_log_init /\ init_executor_task_nodes
    BY <1>2 DEF mysql_seed_execute
  <2>2. /\ DOMAIN worker' = DOMAIN names /\ DOMAIN query' = DOMAIN names
        /\ \A n \in DOMAIN names : worker'[n] = "todo"
    BY <2>1 DEF init_executor_task_nodes
  <2>3. ExeShape'
    BY <2>1, <2>2 DEF ExeShape, Running, WorkerStates, Loading
  <2> QED
    BY <2>1, <2>3
<1>3. CASE execute_dispatch /\ xpc' = "connect"
  <2>1. PICK from : /\ from = (IF arg = <<>> THEN 0 ELSE execute_parse_credentials)
                    /\ from > 0 /\ names' = execute_parse_db_names(from)
                    /\ UNCHANGED <<mode, arg, start, exit, log>>
    BY <1>3 DEF execute_dispatch, ExeExit, SetExe, exeOff, logVars
  <2>2. arg \in Seq(STRING)
    BY DEF ExeShape, Running
  <2>3. from \in Nat
    <3>1. CASE arg = <<>>
      BY <2>1, <3>1
    <3>2. CASE arg # <<>>
      <4>1. /\ Credentials \in 0..3
            /\ from = IF Credentials < Len(arg) THEN Credentials + 1 ELSE 0
        BY <2>1, <2>2, <3>2, CredentialsParsed
      <4> QED
        BY <4>1
    <3> QED
      BY <3>1, <3>2
  <2>4. names' \in Seq(Range(names'))
    BY <2>1, <2>2, <2>3, NamesShape
  <2> QED
    BY <1>3, <2>1, <2>4 DEF ExeShape, Running
<1> QED
  BY <1>1, <1>2, <1>3 DEF execute_dispatch, mysql_seed_execute, SetExe, exeOff

(* LogInv is inductive: the workers by LogByWorker, main by ShapeByMain, *)
(* the other modes leave the log alone.                                  *)
LEMMA LogInvStep == LogInv /\ [Next]_vars => LogInv'
<1> SUFFICES ASSUME LogInv, [Next]_vars PROVE LogInv'
  OBVIOUS
<1>1. ExeShape
  BY DEF LogInv
<1>2. ASSUME log' = log \/ log' = <<>>, ExeShape', xpc' # "run" PROVE LogInv'
  <2>1. log' \in Seq([who : Nat, piece : Nat]) /\ Len(log') <= LOG_SIZE
    <3>1. CASE log' = log
      BY <3>1 DEF LogInv
    <3>2. CASE log' = <<>>
      BY <3>2, LogAssumption
    <3> QED
      BY <1>2, <3>1, <3>2
  <2> QED
    BY <1>2, <2>1 DEF LogInv
<1>3. ASSUME NEW r \in Runs, mode_dispatch(r) PROVE LogInv'
  <2>1. /\ exit # "none" /\ UNCHANGED <<names, worker, query, log, logLock>>
        /\ xpc' = xpc \/ (xpc' = "parse" /\ mode' = "execute" /\ exit' = "none")
        /\ mode' = "execute" => arg' \in Seq(STRING)
    BY <1>3, RunsAssumption DEF mode_dispatch, logVars
  <2>2. xpc = "off"
    BY <1>1, <2>1 DEF ExeShape, Running
  <2>3. ExeShape'
    BY <1>1, <2>1, <2>2 DEF ExeShape, Running
  <2> QED
    BY <1>2, <2>1, <2>2, <2>3
<1>4. ASSUME mode # "execute", UNCHANGED <<mode, exeVars, logVars>> PROVE LogInv'
  <2>1. xpc' = "off" /\ names' = names /\ log' = log
    BY <1>1, <1>4 DEF ExeShape, Running, exeVars, logVars
  <2>2. ExeShape'
    BY <1>1, <1>4, <2>1 DEF ExeShape
  <2> QED
    BY <1>2, <2>1, <2>2
<1>5. CASE Generate
  BY <1>4, <1>5, GenerateFrame DEF Generate
<1>6. CASE Remove
  <2>1. mode = "remove" /\ UNCHANGED mode
    BY <1>6 DEF Remove, RemNext, Running, remove_dispatch, fts_open, RemoveFile, RemoveDirectory,
                fts_close, fts_read_fails, fts_read_root_fails, RemExit, Exit, NextRoot, runVars
  <2> QED
    BY <1>4, <1>6, <2>1 DEF Remove
<1>7. CASE Execute
  <2>1. Running("execute")
    BY <1>7 DEF Execute, ExeNext
  <2>2. ASSUME \E how : ExeExit(how) PROVE LogInv'
    BY <1>1, <1>2, <2>2, ShapeAtExit
  <2>3. CASE execute_dispatch \/ \E ok \in BOOLEAN : mysql_seed_execute(ok)
    <3>1. /\ ExeShape'
          /\ \/ \E how : ExeExit(how)
             \/ xpc' = "connect" /\ UNCHANGED <<log, exit>>
             \/ /\ xpc' = "run" /\ thread_log_init /\ init_executor_task_nodes
                /\ UNCHANGED <<names, status, conn, exit>>
      BY <1>1, <2>1, <2>3, ShapeByMain
    <3>2. CASE xpc' = "run" /\ thread_log_init /\ init_executor_task_nodes /\ names' = names
      <4>1. log' = <<[who |-> 0, piece |-> 0]>>
        BY <3>2 DEF thread_log_init
      <4>2. log' \in Seq([who : Nat, piece : Nat]) /\ Len(log') <= LOG_SIZE
        BY <4>1, LogAssumption
      <4>3. names \in Seq(Range(names))
        BY <1>1 DEF ExeShape
      <4>4. ASSUME NEW n \in DOMAIN names PROVE Noted(n)'
        <5>1. n # 0 /\ worker'[n] = "todo"
          BY <3>2, <4>3 DEF init_executor_task_nodes
        <5>2. ~Mentions(n)'
          BY <4>1, <5>1 DEF Mentions
        <5> QED
          BY <5>1, <5>2 DEF Noted, Noting, Loading
      <4> QED
        BY <3>1, <3>2, <4>2, <4>4 DEF LogInv
    <3> QED
      BY <1>2, <2>2, <3>1, <3>2
  <2>4. CASE xpc = "run" /\ \E n \in DOMAIN names : build_database(n)
    BY <2>1, <2>4, LogByWorker
  <2>5. CASE execute_pool_fails \/ \E ok \in BOOLEAN : executor_shutdown(ok)
    BY <2>2, <2>5 DEF execute_pool_fails, executor_shutdown
  <2> QED
    BY <1>7, <2>3, <2>4, <2>5 DEF Execute, ExeNext
<1>8. CASE UNCHANGED vars
  <2>1. UNCHANGED <<xpc, names, worker, query, log, logLock, mode, arg, exit>>
    BY <1>8 DEF vars, exeVars, logVars, runVars
  <2>2. ExeShape'
    BY <1>1, <2>1 DEF ExeShape, Running
  <2>3. \A n : Noted(n) => Noted(n)'
    BY <2>1, NotedKept
  <2> QED
    BY <2>1, <2>2, <2>3 DEF LogInv, Single
<1> QED
  BY <1>3, <1>5, <1>6, <1>7, <1>8 DEF Next, Over

(* LogInv holds before the first run. *)
LEMMA LogInvInit == Init => LogInv
<1> SUFFICES ASSUME Init PROVE LogInv
  OBVIOUS
<1>1. names \in Seq(Range(names)) /\ log \in Seq([who : Nat, piece : Nat]) /\ Len(log) <= LOG_SIZE
  BY LogAssumption DEF Init, ExeInit, LogInit, Range
<1> QED
  BY <1>1 DEF Init, ExeInit, LogInv, ExeShape

(* The log that main writes out after the executors are done has every     *)
(* failure once, whole and unmixed, unless the buffer was too small, which *)
(* is never exceeded (thread_log.h, execute.h).                            *)
THEOREM LogStaysReadable == Spec => []LogReadable
<1>1. LogInv => LogReadable
  BY DEF LogInv, LogReadable, AllLoaded, Noted
<1> QED
  BY <1>1, LogInvInit, LogInvStep, PTL DEF Spec

-----------------------------------------------------------------------------
(***************************************************************************)
(* Execute mode: what it reports                                           *)
(*                                                                         *)
(* The argument spans several runs: a loader that a run of generate mode   *)
(* has left says which tables to load (ScriptInv), the executors send one  *)
(* script at a time over the one connection and flush its results before   *)
(* they give it back (LoadedSoFar), and a loading of which nothing went    *)
(* wrong meets no obstacle (Smooth).                                       *)
(***************************************************************************)

(* What generate mode has left for execute mode, over any number of runs:  *)
(* every loader names its tables, and as long as nothing went wrong a      *)
(* loader that is not whole is alone in its directory, because no table    *)
(* file is opened before all loaders are done.                             *)
Scripts == Seq(STRING \ {LOADER}) \ {<<>>}

OnlyLoader(d) == \A q \in DOMAIN files : q[1] = d => q[2] = LOADER

SpecsNamed == mode = "generate" => \A i \in DOMAIN Specs : Specs[i].tables \in Scripts

ScriptsNamed ==
    \A p \in DOMAIN files : p = <<p[1], p[2]>> /\ (p[2] = LOADER => files[p].tables \in Scripts)

CutIsAlone ==
    \A p \in DOMAIN files : p[2] = LOADER /\ files[p].state # "whole" => OnlyLoader(p[1])

Young == {"made", "opened", "written"}

YoungIsAlone ==
    \A k \in DOMAIN task : k \in Loaders /\ task[k] \in Young => OnlyLoader(PathOf(k)[1])

ScriptInv ==
    /\ SpecsNamed /\ ScriptsNamed
    /\ faults = 0 => CutIsAlone /\ YoungIsAlone /\ (gpc = "tables" => pool = "alive")

-----------------------------------------------------------------------------
(* A run of execute mode that should succeed. *)
Good ==
    /\ Asked # <<>>
    /\ \A a \in Range(Asked) : a \in Dbs /\ Loadable(a)
    /\ Cardinality(Range(Asked)) = Len(Asked)

(* What the parser has taken from the arguments. *)
Parsed ==
    /\ Asked # <<>>
    /\ status = "success" => \A a \in Range(Asked) : a \in Dbs
    /\ \A a \in Range(Asked) : a \in Dbs => a \in Range(names)
    /\ Good => names = Asked

Created == {"flush", "done"}
HasQuery == {"loaded", "locked"} \union Created

(* How far a loading has come. *)
LoadedSoFar(n) ==
    LET loader == <<names[n], LOADER>>
    IN  /\ status = "success" => worker[n] \in Loading \union {"done"}
        /\ worker[n] \in {"locked", "flush"} => conn.lock = {n}
        /\ worker[n] \in {"opened", "sized"} \union HasQuery => loader \in DOMAIN files
        /\ worker[n] \in HasQuery =>
              /\ query[n].tables = files[loader].tables
              /\ files[loader].state = "whole" /\ names[n] \notin short => query[n].all
        /\ worker[n] \in Created => names[n] \in DOMAIN server
        /\ worker[n] = "flush" =>
              /\ conn.db = names[n]
              /\ query[n].all =>
                    server[names[n]] \union Range(conn.pending) = Range(query[n].tables)
        /\ worker[n] = "done" /\ query[n].all => server[names[n]] = Range(query[n].tables)

(* A database is created once. *)
CreatedOnce ==
    \A m, n \in DOMAIN names :
        worker[m] \in Created /\ worker[n] \in Created /\ names[m] = names[n] => m = n

(* Nothing has gone wrong: no loading meets an obstacle. *)
Smooth ==
    /\ status = "success"
    /\ conn.pending # <<>> => \E n \in DOMAIN names : worker[n] = "flush"
    /\ \A d \in DOMAIN server :
          d \in DOMAIN start.server \/ \E n \in DOMAIN names : worker[n] \in Created /\ names[n] = d
    /\ \A n \in DOMAIN names :
          /\ worker[n] \in HasQuery => query[n].all
          /\ worker[n] = "flush" =>
                /\ \A i, j \in DOMAIN conn.pending : conn.pending[i] = conn.pending[j] => i = j
                /\ server[names[n]] \intersect Range(conn.pending) = {}

ConnShape ==
    /\ DOMAIN conn = {"lock", "pending", "db"}
    /\ conn.pending \in Seq(STRING)
    /\ xpc # "run" => conn.pending = <<>>

Underway ==
    /\ CreatedOnce
    /\ \A n \in DOMAIN names : LoadedSoFar(n)
    /\ Good /\ faults = 0 => Smooth

LoadInv ==
    /\ CompleteInv /\ LogInv /\ ScriptInv
    /\ ConnShape
    /\ xpc \in {"parse", "connect"} => server = start.server
    /\ xpc \in {"connect", "run"} => Parsed
    /\ xpc = "connect" /\ Good => status = "success"
    /\ xpc = "run" => Underway
    /\ LoadedOrReported

-----------------------------------------------------------------------------
(* The parts of ScriptInv over a step that opens no file: what is removed  *)
(* leaves the other files as they were.                                    *)
LEMMA AloneKept ==
    ASSUME DOMAIN files' \subseteq DOMAIN files, NEW d, OnlyLoader(d)
    PROVE  OnlyLoader(d)'
  BY DEF OnlyLoader

(* A step that opens no file, damages none without a fault and leaves no *)
(* loader task younger than it was keeps ScriptInv.                      *)
LEMMA ScriptsSettle ==
    ASSUME ScriptInv, faults \in Nat, FaultsGrow, UNCHANGED <<mode, arg>>,
           DOMAIN files' \subseteq DOMAIN files,
           \A p \in DOMAIN files' : /\ files'[p].tables = files[p].tables
                                    /\ \/ files'[p].state \in {files[p].state, "whole"}
                                       \/ faults' # 0,
           \A k \in DOMAIN task' :
               k \in Loaders /\ task'[k] \in Young => k \in DOMAIN task /\ task[k] \in Young,
           faults' = 0 /\ gpc' = "tables" => pool' = "alive"
    PROVE  ScriptInv'
<1>1. Specs' = Specs /\ Loaders' = Loaders /\ \A k : PathOf(k)' = PathOf(k)
  BY SamePaths DEF Specs
<1>3. faults' = 0 => faults = 0
  BY DEF FaultsGrow
<1>4. SpecsNamed' /\ ScriptsNamed'
  BY <1>1 DEF ScriptInv, SpecsNamed, ScriptsNamed
<1>5. ASSUME faults' = 0 PROVE CutIsAlone'
  <2> SUFFICES ASSUME NEW p \in DOMAIN files', p[2] = LOADER, files'[p].state # "whole"
               PROVE  OnlyLoader(p[1])'
    BY DEF CutIsAlone
  <2>1. files[p].state # "whole" /\ p \in DOMAIN files
    BY <1>5
  <2> QED
    BY <1>3, <1>5, <2>1, AloneKept DEF ScriptInv, CutIsAlone
<1>6. ASSUME faults' = 0 PROVE YoungIsAlone'
  <2> SUFFICES ASSUME NEW k \in DOMAIN task', k \in Loaders, task'[k] \in Young
               PROVE  OnlyLoader(PathOf(k)[1])'
    BY <1>1 DEF YoungIsAlone
  <2>1. PICK d : d = PathOf(k)[1] /\ d = (PathOf(k)[1])'
    BY <1>1
  <2>2. OnlyLoader(d)
    BY <1>3, <1>6, <2>1 DEF ScriptInv, YoungIsAlone
  <2>3. OnlyLoader(d)'
    BY <2>2, AloneKept
  <2> QED
    BY <2>1, <2>3
<1> QED
  BY <1>4, <1>5, <1>6 DEF ScriptInv

(* Once the tables are being written, the loaders are done. *)
LEMMA LoadersDone ==
    ASSUME CompleteInv, ScriptInv, GenRunning, faults = 0, gpc = "tables", NEW k \in Loaders
    PROVE  task[k] = "done" /\ pool = "alive" /\ TaskAlive(k)
<1>1. pool = "alive"
  BY DEF ScriptInv
<1>2. k \in DOMAIN task
  BY DEF CompleteInv, KeptInv, GenShape
<1> QED
  BY <1>1, <1>2 DEF CompleteInv, AliveInv

(* The paths of loaders and of tables are told apart by their names. *)
LEMMA TableIsNoLoader ==
    ASSUME SpecsNamed, mode = "generate", NEW k \in Loaders \union Tables
    PROVE  /\ k \in Loaders <=> k[2] = 0
           /\ k[1] \in DOMAIN Specs /\ <<k[1], 0>> \in Loaders
           /\ PathOf(k)[2] = LOADER <=> k[2] = 0
           /\ PathOf(<<k[1], 0>>) = <<PathOf(k)[1], LOADER>>
<1>1. \A i \in DOMAIN Specs : Specs[i].tables \in Scripts
  BY DEF SpecsNamed
<1>2. \A i \in DOMAIN Specs : \A t \in DOMAIN Specs[i].tables :
          t # 0 /\ Specs[i].tables[t] # LOADER
  <2> SUFFICES ASSUME NEW i \in DOMAIN Specs, NEW t \in DOMAIN Specs[i].tables
               PROVE  t # 0 /\ Specs[i].tables[t] # LOADER
    OBVIOUS
  <2> DEFINE s == Specs[i].tables
  <2>1. s \in Seq(STRING \ {LOADER}) /\ t \in DOMAIN s
    BY <1>1 DEF Scripts
  <2> HIDE DEF s
  <2>2. t # 0 /\ s[t] # LOADER
    BY <2>1
  <2> QED
    BY <2>2 DEF s
<1>3. CASE k \in Loaders
  <2>1. PICK i \in DOMAIN Specs : k = <<i, 0>>
    BY <1>3 DEF Loaders
  <2> QED
    BY <2>1, <1>3 DEF Loaders, PathOf
<1>4. CASE k \notin Loaders
  <2>1. PICK i \in DOMAIN Specs : \E t \in DOMAIN Specs[i].tables : k = <<i, t>>
    BY <1>4 DEF Tables
  <2>2. PICK t \in DOMAIN Specs[i].tables : k = <<i, t>>
    BY <2>1
  <2>3. k[1] = i /\ k[2] = t /\ t # 0 /\ Specs[i].tables[t] # LOADER
    BY <1>2, <2>2
  <2>4. <<i, 0>> \in Loaders
    BY DEF Loaders
  <2> QED
    BY <1>4, <2>3, <2>4 DEF PathOf
<1> QED
  BY <1>3, <1>4

(* A loader makes a new directory, which is empty. *)
LEMMA ScriptsByLoader ==
    ASSUME CompleteInv, ScriptInv, Works, NEW k \in Loaders \intersect DOMAIN task, build_loader(k)
    PROVE  ScriptInv'
<1>1. KeptInv /\ GenRunning /\ faults \in Nat /\ mode = "generate"
  <2>1. task # <<>>
    OBVIOUS
  <2> QED
    BY <2>1 DEF CompleteInv, KeptInv, FilesInDirs, GenShape, GenRunning, Works, Running
<1>2. UNCHANGED <<mode, arg, gpc>> /\ files' = files
  BY DEF build_loader, runVars, MakeDirectory, mkdir, LoaderMalloc
<1>3. PICK to \in {"made", "stopped"} : Do(k, to) /\ FaultsGrow
  BY DEF build_loader, MakeDirectory, mkdir, LoaderMalloc, Fault, NoFault, FaultsGrow
<1>4. /\ DOMAIN task' = DOMAIN task /\ task'[k] = to
      /\ \A j \in DOMAIN task : j # k => task'[j] = task[j]
  BY <1>3 DEF Do
<1>5. faults' = 0 => faults = 0
  BY <1>1, <1>3 DEF FaultsGrow
<1>6. faults = 0 => gpc # "tables"
  <2>1. task[k] # "done"
    BY DEF build_loader, MakeDirectory, LoaderMalloc
  <2> QED
    BY <1>1, <2>1, LoadersDone
<1>7. CASE to = "stopped"
  <2>1. \A j \in DOMAIN task' : task'[j] \in Young => j \in DOMAIN task /\ task[j] \in Young
    BY <1>4, <1>7 DEF Young
  <2> QED
    BY <1>1, <1>2, <1>3, <1>5, <1>6, <2>1, ScriptsSettle
<1>8. CASE to = "made"
  <2>1. PICK ok \in BOOLEAN : MakeDirectory(k, ok) /\ ok
    BY <1>3, <1>4, <1>8 DEF build_loader, MakeDirectory, LoaderMalloc, Do
  <2>2. PathOf(k)[1] \notin dirs
    BY <2>1 DEF MakeDirectory, mkdir
  <2>3. OnlyLoader(PathOf(k)[1])
    BY <1>1, <2>2 DEF KeptInv, FilesInDirs, OnlyLoader
  <2>4. \A d : OnlyLoader(d)' <=> OnlyLoader(d)
    BY <1>2 DEF OnlyLoader
  <2>5. Specs' = Specs /\ Loaders' = Loaders /\ \A j : PathOf(j)' = PathOf(j)
    BY <1>2, SamePaths DEF Specs
  <2>6. ASSUME faults' = 0 PROVE YoungIsAlone'
    BY <1>4, <1>5, <2>3, <2>4, <2>5, <2>6 DEF ScriptInv, YoungIsAlone
  <2>7. SpecsNamed' /\ ScriptsNamed'
    BY <1>2, <2>5 DEF ScriptInv, SpecsNamed, ScriptsNamed
  <2>8. faults' = 0 => CutIsAlone'
    BY <1>2, <1>5, <2>4 DEF ScriptInv, CutIsAlone
  <2> QED
    BY <1>2, <1>5, <1>6, <2>6, <2>7, <2>8 DEF ScriptInv
<1> QED
  BY <1>7, <1>8

(* The file of a task is opened. *)
LEMMA ScriptsByOpen ==
    ASSUME CompleteInv, ScriptInv, GenRunning, mode = "generate",
           NEW k \in DOMAIN task, file_handle_open(k, TRUE)
    PROVE  ScriptInv'
<1> DEFINE p == PathOf(k)
<1>1. /\ faults \in Nat /\ k \in Loaders \union Tables /\ SpecsNamed
      /\ UNCHANGED <<mode, arg, faults, gpc, pool>>
  BY DEF CompleteInv, KeptInv, FilesInDirs, GenShape, ScriptInv, file_handle_open, open,
          NoFault, Went,
         runVars
<1>2. /\ DOMAIN files' = DOMAIN files \union {p}
      /\ files'[p] = [state |-> "open", by |-> k, tables |-> loader_put_body(k)]
      /\ \A q \in DOMAIN files : q # p => files'[q] = files[q]
      /\ p \notin DOMAIN files
  BY DEF file_handle_open, open
<1>3. /\ DOMAIN task' = DOMAIN task /\ task'[k] = "opened"
      /\ \A j \in DOMAIN task : j # k => task'[j] = task[j]
  BY DEF file_handle_open, Went, Do
<1>4. Specs' = Specs /\ Loaders' = Loaders /\ \A j : PathOf(j)' = PathOf(j)
  BY <1>1, SamePaths DEF Specs
<1>5. /\ k \in Loaders <=> k[2] = 0
      /\ k[1] \in DOMAIN Specs /\ <<k[1], 0>> \in Loaders
      /\ p[2] = LOADER <=> k[2] = 0
      /\ PathOf(<<k[1], 0>>) = <<p[1], LOADER>>
      /\ p = <<p[1], p[2]>>
  <2>1. p = <<p[1], p[2]>>
    BY DEF PathOf
  <2> QED
    BY <1>1, <2>1, TableIsNoLoader
<1> HIDE DEF p
<1>6. SpecsNamed' /\ ScriptsNamed'
  <2>1. SpecsNamed'
    BY <1>1, <1>4 DEF SpecsNamed
  <2>2. p[2] = LOADER => files'[p].tables \in Scripts
    BY <1>1, <1>2, <1>5 DEF SpecsNamed, loader_put_body
  <2> QED
    BY <1>2, <1>5, <2>1, <2>2 DEF ScriptInv, ScriptsNamed
<1>7. ASSUME faults = 0 PROVE CutIsAlone' /\ YoungIsAlone' /\ (gpc' = "tables" => pool' = "alive")
  <2>1. CutIsAlone /\ YoungIsAlone /\ (gpc = "tables" => pool = "alive")
    BY <1>7 DEF ScriptInv
  <2>2. CASE k[2] = 0
    <3>1. task[k] = "made" /\ OnlyLoader(p[1])
      BY <1>5, <2>1, <2>2 DEF file_handle_open, Ready, YoungIsAlone, Young, p
    <3>2. \A d : OnlyLoader(d) => OnlyLoader(d)'
      BY <1>2, <1>5, <2>2 DEF OnlyLoader
    <3>3. CutIsAlone'
      BY <1>2, <2>1, <3>1, <3>2 DEF CutIsAlone
    <3>4. YoungIsAlone'
      BY <1>3, <1>4, <2>1, <3>1, <3>2 DEF YoungIsAlone, Young, p
    <3> QED
      BY <1>1, <2>1, <3>3, <3>4
  <2>3. CASE k[2] # 0
    <3>1. gpc = "tables"
      BY <2>3 DEF file_handle_open, Ready
    <3>2. \A j \in Loaders : task[j] = "done" /\ TaskAlive(j)
      BY <1>7, <3>1, LoadersDone
    <3>3. <<p[1], LOADER>> \in DOMAIN files /\ files[<<p[1], LOADER>>].state = "whole"
      BY <1>5, <1>7, <3>2 DEF TaskAlive, OwnFile, Sound
    <3>4. ASSUME NEW q \in DOMAIN files, q[2] = LOADER, files[q].state # "whole"
          PROVE  OnlyLoader(q[1])'
      <4>1. q = <<q[1], LOADER>>
        BY <3>4 DEF ScriptInv, ScriptsNamed
      <4>2. q[1] # p[1]
        BY <3>3, <3>4, <4>1
      <4>3. OnlyLoader(q[1])
        BY <2>1, <3>4 DEF CutIsAlone
      <4> QED
        BY <1>2, <4>2, <4>3 DEF OnlyLoader
    <3>5. CutIsAlone'
      BY <1>2, <1>5, <2>3, <3>4 DEF CutIsAlone
    <3>6. YoungIsAlone'
      BY <1>3, <1>4, <1>5, <2>3, <3>2 DEF YoungIsAlone, Young
    <3> QED
      BY <1>1, <2>1, <3>5, <3>6
  <2> QED
    BY <2>2, <2>3
<1> QED
  BY <1>1, <1>6, <1>7 DEF ScriptInv

(* It is written, closed, or removed by the handler of its task. *)
LEMMA ScriptsByFile ==
    ASSUME CompleteInv, ScriptInv, Works, NEW k \in DOMAIN task,
           build_file(k) \/ Cancelled(k) \/ \E ok \in BOOLEAN : file_handle_cleanup(k, ok)
    PROVE  ScriptInv'
<1>1. KeptInv /\ GenRunning /\ FilesInDirs /\ faults \in Nat /\ mode = "generate"
  <2>1. task # <<>>
    OBVIOUS
  <2> QED
    BY <2>1 DEF CompleteInv, KeptInv, FilesInDirs, GenShape, GenRunning, Works, Running
<1>2. ASSUME NEW to \in {"opened", "written", "done", "cleanup", "stopped"}, Do(k, to),
             to \in Young => task[k] \in Young,
             FaultsGrow, UNCHANGED <<mode, arg, gpc>>,
             faults' = 0 /\ gpc = "tables" => pool' = "alive",
             DOMAIN files' \subseteq DOMAIN files,
             \A p \in DOMAIN files' : /\ files'[p].tables = files[p].tables
                                      /\ \/ files'[p].state \in {files[p].state, "whole"}
                                         \/ faults' # 0
      PROVE  ScriptInv'
  <2>1. \A j \in DOMAIN task' :
            j \in Loaders /\ task'[j] \in Young => j \in DOMAIN task /\ task[j] \in Young
    BY <1>2 DEF Do
  <2> QED
    BY <1>1, <1>2, <2>1, ScriptsSettle
<1>3. faults' = 0 /\ FaultsGrow /\ gpc = "tables" =>
        pool = "alive" /\ \A j \in Loaders : task[j] = "done"
  BY <1>1, LoadersDone DEF FaultsGrow, ScriptInv
<1>4. ASSUME Fail(k), UNCHANGED files, FaultsGrow, task[k] # "done" PROVE ScriptInv'
  <2>1. CASE k[2] = 0
    <3>1. k \in Loaders
      BY <1>1, <2>1, TableIsNoLoader DEF ScriptInv, KeptInv, GenShape
    <3>2. Do(k, "cleanup") /\ UNCHANGED <<mode, arg, gpc>>
      BY <1>4, <2>1 DEF Fail, database_exit_on_failure, runVars
    <3> QED
      BY <1>2, <1>3, <1>4, <3>1, <3>2 DEF Young
  <2>2. CASE k[2] # 0
    <3>1. task' = <<>> /\ gpc' = "off" /\ UNCHANGED <<mode, arg>>
      BY <1>4, <2>2 DEF Fail, GenExit, SetGen, genOff, Exit
    <3> QED
      BY <1>1, <1>4, <3>1, ScriptsSettle
  <2> QED
    BY <2>1, <2>2
<1>5. ASSUME NEW ok \in BOOLEAN, file_handle_open(k, ok) PROVE ScriptInv'
  <2>1. CASE ok
    BY <1>1, <1>5, <2>1, ScriptsByOpen
  <2>2. CASE ~ok
    BY <1>4, <1>5, <2>2 DEF file_handle_open, open, Ready, Fault, NoFault, FaultsGrow
  <2> QED
    BY <2>1, <2>2
<1>6. ASSUME NEW how \in {"whole", "cut", "error"}, file_handle_write(k, how) PROVE ScriptInv'
  <2>1. CASE how = "error"
    BY <1>4, <1>6, <2>1 DEF file_handle_write, write, Fault, FaultsGrow
  <2>2. CASE how # "error"
    <3>1. Do(k, "written") /\ task[k] \in Young /\ UNCHANGED <<mode, arg, gpc, pool>>
      BY <1>6, <2>2 DEF file_handle_write, Went, runVars, Young
    <3>2. FaultsGrow /\ (how = "cut" => faults' # 0)
      BY <1>1, <1>6 DEF file_handle_write, write, Fault, NoFault, FaultsGrow
    <3>3. /\ DOMAIN files' = DOMAIN files
          /\ \A p \in DOMAIN files' : /\ files'[p].tables = files[p].tables
                                      /\ files'[p].state \in {files[p].state, how}
      BY <1>6 DEF file_handle_write, write
    <3> QED
      BY <1>2, <1>3, <2>2, <3>1, <3>2, <3>3
  <2> QED
    BY <2>1, <2>2
<1>7. ASSUME NEW ok \in BOOLEAN, file_handle_close(k, ok) PROVE ScriptInv'
  <2>1. FaultsGrow /\ UNCHANGED files /\ task[k] = "written"
    BY <1>7 DEF file_handle_close, close, Call, Fault, NoFault, FaultsGrow
  <2>2. CASE ok
    <3>1. Do(k, "done") /\ UNCHANGED <<mode, arg, gpc, pool>>
      BY <1>7, <2>2 DEF file_handle_close, Went, runVars
    <3> QED
      BY <1>2, <1>3, <2>1, <3>1 DEF Young
  <2>3. CASE ~ok
    BY <1>4, <1>7, <2>1, <2>3 DEF file_handle_close
  <2> QED
    BY <2>2, <2>3
<1>8. ASSUME Cancelled(k) PROVE ScriptInv'
  <2>1. PICK to \in {"cleanup", "stopped"} : Do(k, to) /\ UNCHANGED <<mode, arg, gpc, pool>>
    BY <1>8 DEF Cancelled, Went, runVars
  <2>2. UNCHANGED <<files, faults>>
    BY <1>8 DEF Cancelled, fsVars
  <2> QED
    BY <1>2, <1>3, <2>1, <2>2 DEF Young, FaultsGrow
<1>9. ASSUME NEW ok \in BOOLEAN, file_handle_cleanup(k, ok) PROVE ScriptInv'
  <2>1. Do(k, "stopped") /\ UNCHANGED <<mode, arg, gpc, pool>>
    BY <1>9 DEF file_handle_cleanup, Went, runVars
  <2>2. FaultsGrow
    BY <1>9 DEF file_handle_cleanup, unlink, Fault, NoFault, FaultsGrow
  <2>3. DOMAIN files' \subseteq DOMAIN files /\ \A p \in DOMAIN files' : files'[p] = files[p]
    BY <1>9 DEF file_handle_cleanup, unlink, Restrict
  <2> QED
    BY <1>2, <1>3, <2>1, <2>2, <2>3 DEF Young
<1> QED
  BY <1>5, <1>6, <1>7, <1>8, <1>9 DEF build_file

(* What main removes, and its other steps. *)
LEMMA ScriptsByMain ==
    ASSUME CompleteInv, ScriptInv, Works,
           \/ remove_free_table_files \/ remove_loaders_dirs
           \/ generate_dispatch \/ column_exit_on_failure \/ thread_pool_exit_on_failure
           \/ NextStage \/ DEAD_POOL_FAILURE
           \/ \E ok \in BOOLEAN : \/ mysql_seed_generate_constructors(ok)
                                  \/ thread_pool_start(ok) \/ Finish(ok)
    PROVE  ScriptInv'
<1>1. faults \in Nat
  BY DEF CompleteInv, KeptInv, FilesInDirs
<1>2. UNCHANGED <<mode, arg>>
  BY DEF remove_free_table_files, remove_loaders_dirs, generate_dispatch, GenBegin,
         column_exit_on_failure, thread_pool_exit_on_failure, NextStage, DEAD_POOL_FAILURE,
         mysql_seed_generate_constructors, thread_pool_start, Finish, GenExit, Exit, Gone, runVars
<1>3. /\ FaultsGrow /\ DOMAIN files' \subseteq DOMAIN files
      /\ \A p \in DOMAIN files' : files'[p] = files[p]
  <2>1. ASSUME NEW k, file_handle_unlink(k) \/ dirpath_remove(k)
        PROVE  /\ FaultsGrow /\ DOMAIN files' \subseteq DOMAIN files
               /\ \A p \in DOMAIN files' : files'[p] = files[p]
    BY <2>1 DEF file_handle_unlink, dirpath_remove, unlink, rmdir, Restrict, fsVars, Fault, NoFault,
                FaultsGrow
  <2>2. CASE UNCHANGED fsVars
    BY <2>2 DEF fsVars, FaultsGrow
  <2>3. CASE remove_free_table_files \/ remove_loaders_dirs
    BY <2>1, <2>2, <2>3 DEF remove_free_table_files, remove_loaders_dirs
  <2>4. ASSUME ~(remove_free_table_files \/ remove_loaders_dirs)
        PROVE  UNCHANGED files /\ FaultsGrow
    BY <2>4 DEF generate_dispatch, column_exit_on_failure, thread_pool_exit_on_failure, NextStage,
         DEAD_POOL_FAILURE, mysql_seed_generate_constructors, thread_pool_start, Finish, fsVars,
         chdir, thread_utils_constructor, thread_utils_destructor, Call, Fault, NoFault, FaultsGrow
  <2> QED
    BY <2>3, <2>4
<1>4. task' \in {task, <<>>} \/ (\A k \in DOMAIN task' : task'[k] = "todo")
  BY DEF remove_free_table_files, remove_loaders_dirs, generate_dispatch, GenBegin,
         column_exit_on_failure, thread_pool_exit_on_failure, NextStage, DEAD_POOL_FAILURE,
         mysql_seed_generate_constructors, thread_pool_start, Finish, GenExit, SetGen, genOff, Gone,
         Main
<1>5. gpc' = "tables" => pool' = "alive" \/ faults' # 0
  BY <1>1 DEF remove_free_table_files, remove_loaders_dirs, generate_dispatch, GenBegin,
         column_exit_on_failure, thread_pool_exit_on_failure, NextStage, DEAD_POOL_FAILURE,
         mysql_seed_generate_constructors, thread_pool_start, Finish, GenExit, SetGen, genOff, Gone,
         Main, Fault
<1>6. \A k \in DOMAIN task' : task'[k] \in Young => k \in DOMAIN task /\ task[k] \in Young
  BY <1>4 DEF Young
<1> QED
  BY <1>1, <1>2, <1>3, <1>5, <1>6, ScriptsSettle

(* ScriptInv holds over any sequence of runs: loaders are opened in a new *)
(* directory, tables only after all loaders.                              *)
LEMMA ScriptInvStep == CompleteInv /\ ScriptInv /\ [Next]_vars => ScriptInv'
<1> SUFFICES ASSUME CompleteInv, ScriptInv, [Next]_vars PROVE ScriptInv'
  OBVIOUS
<1>1. faults \in Nat /\ GenShape /\ FilesInDirs
  BY DEF CompleteInv, KeptInv, FilesInDirs
<1>2. ASSUME NEW r \in Runs, mode_dispatch(r) PROVE ScriptInv'
  <2>1. /\ UNCHANGED <<files, faults, task>> /\ exit # "none"
        /\ mode' = r.mode /\ arg' = r.arg /\ gpc' \in {gpc, "parse"}
    BY <1>2 DEF mode_dispatch, fsVars
  <2>2. task = <<>> /\ gpc' # "tables"
    BY <1>1, <2>1 DEF GenShape, Running
  <2>3. SpecsNamed'
    BY <2>1, RunsAssumption DEF SpecsNamed, Specs, Scripts
  <2>4. ScriptsNamed' /\ (faults' = 0 => CutIsAlone')
    BY <2>1 DEF ScriptInv, ScriptsNamed, CutIsAlone, OnlyLoader
  <2>5. YoungIsAlone'
    BY <2>1, <2>2 DEF YoungIsAlone
  <2> QED
    BY <2>2, <2>3, <2>4, <2>5 DEF ScriptInv
<1>3. CASE Generate
  BY <1>3, ScriptsByLoader, ScriptsByFile, ScriptsByMain DEF Generate, GenNext
<1>4. CASE Remove
  <2>1. UNCHANGED <<mode, arg>>
    BY <1>1, <1>4, RemoveFrame DEF Remove
  <2>2. /\ FaultsGrow /\ DOMAIN files' \subseteq DOMAIN files
        /\ \A p \in DOMAIN files' : files'[p] = files[p]
    BY <1>4 DEF Remove, RemNext, remove_dispatch, fts_open, RemoveFile, RemoveDirectory, fts_close,
                fts_read_fails, fts_read_root_fails, chdir, Call, Fault, NoFault, FaultsGrow,
                unlink,
                rmdir, Restrict
  <2>3. UNCHANGED <<task, gpc, pool>> /\ gpc = "off"
    BY <1>1, <1>4 DEF Remove, RemNext, genVars, GenShape, Running
  <2> QED
    BY <1>1, <2>1, <2>2, <2>3, ScriptsSettle
<1>5. CASE Execute
  <2>1. UNCHANGED <<mode, arg, files>> /\ FaultsGrow /\ mode = "execute"
    BY <1>5, ExecuteFrame DEF Execute
  <2>2. UNCHANGED <<task, gpc, pool>> /\ gpc = "off"
    BY <1>1, <1>5, <2>1 DEF Execute, genVars, GenShape, Running
  <2> QED
    BY <1>1, <2>1, <2>2, ScriptsSettle
<1>6. CASE UNCHANGED vars
  <2>1. UNCHANGED <<mode, arg, files, faults, task, gpc, pool>>
    BY <1>6 DEF vars, fsVars, runVars, genVars
  <2> QED
    BY <1>1, <2>1, ScriptsSettle DEF FaultsGrow, ScriptInv
<1> QED
  BY <1>2, <1>3, <1>4, <1>5, <1>6 DEF Next, Over

-----------------------------------------------------------------------------
(* The arguments after the credentials. *)
LEMMA CredentialsRange == ASSUME arg \in Seq(STRING) PROVE Credentials \in 0..3
<1>1. CASE arg = <<>>
  <2>1. AreCredentials(0) /\ \A l \in 0..3 : AreCredentials(l) => l <= 0
    BY <1>1 DEF AreCredentials, ArgIn
  <2> QED
    BY <2>1 DEF Credentials
<1> QED
  BY <1>1, CredentialsParsed

(* The arguments after the credentials, as the properties count them, are *)
(* those the parser reads (execute_parse_credentials).                    *)
LEMMA AskedArgs ==
    ASSUME arg \in Seq(STRING)
    PROVE  /\ Credentials + 1 \in Nat /\ Len(arg) \in Nat
           /\ Asked \in Seq(STRING)
           /\ Credentials + 1 > Len(arg) => Asked = <<>>
           /\ Credentials + 1 <= Len(arg) => Asked # <<>> /\ Len(Asked) = Len(arg) - Credentials
           /\ \A n \in 1..Len(Asked) :
                Asked[n] = arg[Credentials + n] /\ Credentials + n \in Credentials + 1..Len(arg)
           /\ \A i \in Credentials + 1..Len(arg) : arg[i] \in Range(Asked)
<1>1. PICK c \in 0..3 : c = Credentials
  BY CredentialsRange
<1>2. PICK l \in Nat : l = Len(arg)
  OBVIOUS
<1>3. Asked = SubSeq(arg, c + 1, l)
  BY <1>1, <1>2 DEF Asked
<1>4. CASE c + 1 > l
  <2>1. Asked = <<>>
    BY <1>2, <1>3, <1>4
  <2> QED
    BY <1>1, <1>2, <1>4, <2>1
<1>5. CASE c + 1 <= l
  <2>1. Asked \in Seq(STRING) /\ Len(Asked) = l - c /\ \A n \in 1..l - c : Asked[n] = arg[c + n]
    <3>1. \A n \in 1..l - c : c + 1 + n - 1 = c + n
      BY <1>1, <1>2
    <3>2. (l - (c + 1)) + 1 = l - c
      BY <1>1, <1>2
    <3> QED
      BY <1>1, <1>2, <1>3, <1>5, <3>1, <3>2
  <2>2. Asked # <<>>
    BY <1>1, <1>2, <1>5, <2>1
  <2>3. \A n \in 1..l - c : c + n \in c + 1..l
    BY <1>1, <1>2
  <2>4. ASSUME NEW i \in c + 1..l PROVE arg[i] \in Range(Asked)
    <3>1. i - c \in 1..l - c /\ c + (i - c) = i
      BY <1>1, <1>2
    <3>2. i - c \in DOMAIN Asked /\ Asked[i - c] = arg[i]
      BY <2>1, <3>1
    <3> QED
      BY <3>2 DEF Range
  <2> QED
    BY <1>1, <1>2, <1>5, <2>1, <2>2, <2>3, <2>4
<1> QED
  BY <1>1, <1>2, <1>4, <1>5

(* If every one of them is a valid name, the list is just them. *)
LEMMA NamesAreAsked ==
    ASSUME arg \in Seq(STRING), Credentials + 1 <= Len(arg), \A a \in Range(Asked) : a \in Dbs
    PROVE  execute_parse_db_names(Credentials + 1) = Asked
<1>1. PICK from \in Nat : from = Credentials + 1
  BY AskedArgs
<1>2. PICK l \in Nat : l = Len(arg)
  OBVIOUS
<1>3. from <= l
  BY <1>1, <1>2
<1>4. ValidAt(from) = from..l
  BY <1>1, <1>2, AskedArgs DEF ValidAt
<1>5. Cardinality(from..l) = l - from + 1
  BY <1>3, FS_Interval
<1>6. ASSUME NEW i \in from..l PROVE Cardinality({j \in from..l : j < i}) + 1 = i - from + 1
  <2>1. {j \in from..l : j < i} = from..(i - 1)
    OBVIOUS
  <2>2. Cardinality(from..(i - 1)) = IF from > i - 1 THEN 0 ELSE (i - 1) - from + 1
    BY FS_Interval
  <2>3. (IF from > i - 1 THEN 0 ELSE (i - 1) - from + 1) = i - from
    OBVIOUS
  <2>4. Cardinality({j \in from..l : j < i}) = i - from
    BY ONLY <2>1, <2>2, <2>3
  <2> QED
    BY <2>4
<1> DEFINE s == execute_parse_db_names(from)
<1>7. s \in Seq(Range(s)) /\ Len(s) = l - from + 1
  BY <1>4, <1>5, NamesShape
<1>8. ASSUME NEW i \in from..l PROVE s[i - from + 1] = arg[i]
  <2>1. PICK n \in DOMAIN s : s[n] = arg[i] /\ n = Cardinality({j \in ValidAt(from) : j < i}) + 1
    BY <1>4, NamesCover
  <2>2. n = i - from + 1
    BY <1>4, <1>6, <2>1
  <2> QED
    BY <2>1, <2>2
<1> HIDE DEF s
<1>9. Len(Asked) = Len(s) /\ Asked \in Seq(STRING)
  <2>1. Len(Asked) = l - Credentials /\ Credentials \in 0..3
    BY <1>2, AskedArgs, CredentialsRange
  <2>2. Asked \in Seq(STRING)
    BY AskedArgs
  <2> QED
    BY <1>1, <1>2, <1>7, <2>1, <2>2
<1>10. ASSUME NEW n \in 1..Len(s) PROVE s[n] = Asked[n]
  <2>1. PICK c \in 0..3 : c = Credentials
    BY CredentialsRange
  <2>2. Asked[n] = arg[c + n] /\ c + n \in c + 1..l
    BY <1>2, <1>9, <2>1, AskedArgs
  <2>3. from = c + 1 /\ (c + n) - from + 1 = n
    BY <1>1, <1>7, <2>1
  <2> QED
    BY <1>8, <2>2, <2>3
<1> QED
  BY <1>1, <1>7, <1>9, <1>10 DEF s

-----------------------------------------------------------------------------
(* A sequence as long as the set of its elements has none twice. *)
LEMMA NoneTwice ==
    ASSUME NEW S, NEW s \in Seq(S), Cardinality(Range(s)) = Len(s)
    PROVE  \A i, j \in DOMAIN s : s[i] = s[j] => i = j
<1>1. Len(s) \in Nat /\ DOMAIN s = 1..Len(s)
  OBVIOUS
<1>2. IsFiniteSet(DOMAIN s) /\ Cardinality(DOMAIN s) = Len(s)
  <2>1. PICK l \in Nat : l = Len(s)
    BY <1>1
  <2>2. 1 \in Int /\ l \in Int
    OBVIOUS
  <2>3. IsFiniteSet(1..l) /\ Cardinality(1..l) = IF 1 > l THEN 0 ELSE l - 1 + 1
    BY <2>2, FS_Interval
  <2>4. (IF 1 > l THEN 0 ELSE l - 1 + 1) = l
    OBVIOUS
  <2> QED
    BY <1>1, <2>1, <2>3, <2>4
<1>3. s \in Surjection(DOMAIN s, Range(s))
  BY DEF Surjection, Range
<1>4. s \in Injection(DOMAIN s, Range(s))
  BY <1>2, <1>3, FS_Surjection
<1> QED
  BY <1>4 DEF Injection, IsInjective

(* What a run asks for, and whether it should succeed, is settled when it  *)
(* begins, as is what the parser has found.                                *)
LEMMA GoodKept ==
    ASSUME UNCHANGED <<arg, files, start>>
    PROVE  /\ Asked' = Asked /\ (Good' <=> Good)
           /\ \A d : Script(d)' = Script(d) /\ (Loadable(d)' <=> Loadable(d))
<1>1. Asked' = Asked
  BY DEF Asked, Credentials, AreCredentials, ArgIn
<1>2. \A d : Script(d)' = Script(d)
  BY DEF Script
<1>3. \A d : Loadable(d)' <=> Loadable(d)
  BY <1>2 DEF Loadable
<1> QED
  BY <1>1, <1>2, <1>3 DEF Good

(* What was parsed stays true while neither the arguments, the names nor *)
(* the files change.                                                     *)
LEMMA ParsedKept ==
    ASSUME Parsed, UNCHANGED <<arg, files, start, names>>, status' = "success" => status = "success"
    PROVE  Parsed'
  BY GoodKept DEF Parsed

(* The parser's result is that of the arguments. *)
LEMMA ParsedByDispatch ==
    ASSUME ExeShape, Running("execute"), faults \in Nat, execute_dispatch
    PROVE  \/ xpc' = "connect" /\ Parsed' /\ (Good' => status' = "success")
           \/ ExeExit("failure") /\ (faults' = 0 => ~Good')
<1>1. arg \in Seq(STRING) /\ UNCHANGED <<arg, files, start>>
  BY ExecuteFrame DEF ExeShape, Running, execute_dispatch, ExeExit, Exit, runVars
<1> DEFINE from == IF arg = <<>> THEN 0 ELSE execute_parse_credentials
           valid == execute_parse_db_names(from)
           wrong == from > 0 /\ \E a \in from..Len(arg) : arg[a] \notin Dbs
<1>2. /\ from = 0 => Credentials + 1 > Len(arg)
      /\ from # 0 => from = Credentials + 1 /\ Credentials + 1 <= Len(arg)
  <2>1. Credentials \in 0..3 /\ Len(arg) \in Nat
    BY <1>1, CredentialsRange
  <2>2. CASE arg = <<>>
    BY <2>1, <2>2
  <2>3. CASE arg # <<>>
    <3>1. from = IF Credentials < Len(arg) THEN Credentials + 1 ELSE 0
      BY <1>1, <2>3, CredentialsParsed
    <3> HIDE DEF from
    <3> QED
      BY <2>1, <3>1
  <2> QED
    BY <2>2, <2>3
<1>3. \/ from = 0 /\ ExeExit("failure")
      \/ faults' = faults + 1 /\ ExeExit("failure")
      \/ from # 0 /\ valid = <<>> /\ ExeExit("failure")
      \/ /\ from # 0 /\ xpc' = "connect" /\ names' = valid
         /\ status' = IF wrong THEN "failure" ELSE "success"
  <2>1. from > 0 => from # 0
    OBVIOUS
  <2>2. \/ from = 0 /\ ExeExit("failure")
        \/ Fault /\ ExeExit("failure")
        \/ /\ from > 0
           /\ IF valid = <<>> THEN ExeExit("failure")
              ELSE SetExe([exeOff EXCEPT !.xpc = "connect", !.names = valid,
                             !.status = IF wrong THEN "failure" ELSE "success"])
    BY DEF execute_dispatch
  <2> HIDE DEF from, valid, wrong
  <2> QED
    BY <2>1, <2>2 DEF Fault, SetExe, exeOff
<1>4. Asked' = Asked /\ (Good' <=> Good)
  BY <1>1, GoodKept
<1>5. ASSUME from # 0, NEW a \in Range(Asked), a \in Dbs PROVE a \in Range(valid)
  <2>1. PICK n \in 1..Len(Asked) : a = Asked[n]
    BY <1>1, <1>5, AskedArgs DEF Range
  <2>2. PICK i : i = Credentials + n /\ i \in Credentials + 1..Len(arg) /\ arg[i] = a
    BY <1>1, <2>1, AskedArgs
  <2>3. i \in ValidAt(from) /\ from \in Nat
    BY <1>1, <1>2, <1>5, <2>2, AskedArgs DEF ValidAt
  <2>4. PICK k \in DOMAIN valid : valid[k] = arg[i]
    BY <1>1, <2>3, NamesCover
  <2> HIDE DEF valid
  <2> QED
    BY <2>2, <2>4 DEF Range
<1>6. ASSUME from # 0 PROVE wrong <=> \E a \in Range(Asked) : a \notin Dbs
  <2>1. from = Credentials + 1 /\ from > 0
    <3>1. Credentials \in 0..3
      BY <1>1, CredentialsRange
    <3> HIDE DEF from
    <3> QED
      BY <1>2, <1>6, <3>1
  <2>2. wrong <=> \E i \in Credentials + 1..Len(arg) : arg[i] \notin Dbs
    BY <2>1
  <2>3. \A a \in Range(Asked) : \E n \in 1..Len(Asked) : a = Asked[n]
    BY <1>1, AskedArgs DEF Range
  <2> QED
    BY <1>1, <2>2, <2>3, AskedArgs
<1>7. from # 0 => Asked # <<>>
  BY <1>1, <1>2, AskedArgs
<1>8. from = 0 => ~Good
  BY <1>1, <1>2, AskedArgs DEF Good
<1>9. from # 0 /\ Good => valid = Asked /\ ~wrong
  BY <1>1, <1>2, <1>6, NamesAreAsked DEF Good
<1> HIDE DEF from, valid, wrong
<1>10. from # 0 /\ valid = <<>> => ~Good
  BY <1>7, <1>9 DEF Good
<1>11. CASE /\ from # 0 /\ xpc' = "connect" /\ names' = valid
            /\ status' = IF wrong THEN "failure" ELSE "success"
  <2>1. Parsed'
    BY <1>4, <1>5, <1>6, <1>7, <1>9, <1>11 DEF Parsed
  <2> QED
    BY <1>4, <1>9, <1>11, <2>1
<1> QED
  BY <1>3, <1>4, <1>8, <1>10, <1>11

-----------------------------------------------------------------------------
(* The loadings but the one that takes a step. *)
LEMMA OtherLoading ==
    ASSUME NEW m, LoadedSoFar(m), UNCHANGED <<names, files>>,
           worker'[m] = worker[m], query'[m] = query[m],
           status' = "success" => status = "success", short \subseteq short',
           worker[m] \in {"locked", "flush"} => conn' = conn,
           worker[m] \in Created => /\ names[m] \in DOMAIN server'
                                    /\ server'[names[m]] = server[names[m]]
    PROVE  LoadedSoFar(m)'
  BY DEF LoadedSoFar, HasQuery, Created

(* Two loadings do not have the connection at the same time. *)
LEMMA OneAtATime ==
    ASSUME NEW m, NEW n, LoadedSoFar(m), LoadedSoFar(n),
           worker[m] \in {"locked", "flush"}, worker[n] \in {"locked", "flush"}
    PROVE  m = n
<1>1. conn.lock = {m} /\ conn.lock = {n}
  BY DEF LoadedSoFar
<1> QED
  BY <1>1

(* The statements of a loading are those of its loader. *)
LEMMA QueryTyped ==
    ASSUME ScriptInv, NEW n, LoadedSoFar(n), worker[n] \in HasQuery
    PROVE  /\ <<names[n], LOADER>> \in DOMAIN files
           /\ query[n].tables = files[<<names[n], LOADER>>].tables
           /\ query[n].tables \in Scripts /\ query[n].tables \in Seq(STRING)
<1>1. /\ <<names[n], LOADER>> \in DOMAIN files
      /\ query[n].tables = files[<<names[n], LOADER>>].tables
  BY DEF LoadedSoFar
<1>2. <<names[n], LOADER>>[2] = LOADER
  OBVIOUS
<1>3. query[n].tables \in Scripts
  BY <1>1, <1>2 DEF ScriptInv, ScriptsNamed
<1> QED
  BY <1>1, <1>3 DEF Scripts

(* What a step of a loading leaves alone. *)
Others(n) ==
    /\ UNCHANGED <<dirs, files, mode, arg, start, exit, xpc, names>>
    /\ \A m \in DOMAIN names : m # n => worker'[m] = worker[m] /\ query'[m] = query[m]
    /\ status' = "success" => status = "success"
    /\ short \subseteq short'
    /\ faults' = 0 => faults = 0

(* A step of one executor leaves the state of the others alone. *)
LEMMA WorkerFrame ==
    ASSUME LogInv, faults \in Nat, Running("execute"), xpc = "run",
           NEW n \in DOMAIN names, build_database(n)
    PROVE  Others(n)
<1>1. ExeShape /\ ExeNext
  BY DEF LogInv, ExeNext
<1>2. UNCHANGED <<dirs, files, mode, arg, start, exit, xpc, names>> /\ FaultsGrow
  BY <1>1, ExeShapeByWorker, ExecuteFrame
<1>3. /\ worker' = worker \/ \E to : worker' = [worker EXCEPT ![n] = to]
      /\ query' = query \/ \E to : query' = [query EXCEPT ![n] = to]
      /\ status' = "success" => status = "success"
      /\ short \subseteq short'
  BY DEF build_database, query_open, query_alloc, query_load, server_lock, mysql_real_query,
         server_unlock, mysql_flush_results, log_failure, Step, Failed
<1>4. DOMAIN worker = DOMAIN names /\ DOMAIN query = DOMAIN names
  BY <1>1 DEF ExeShape
<1>5. faults' = 0 => faults = 0
  BY <1>2 DEF FaultsGrow
<1> QED
  BY <1>2, <1>3, <1>4, <1>5 DEF Others

(* A step that leaves the server alone, and the connection but for its     *)
(* lock.                                                                   *)
LEMMA QuietStep ==
    ASSUME Underway, NEW n \in DOMAIN names, Others(n),
           server' = server, conn'.pending = conn.pending, conn'.db = conn.db,
           \A m \in DOMAIN names : m # n /\ worker[m] \in {"locked", "flush"} => conn' = conn,
           worker[n] \notin Created, worker'[n] \notin Created,
           LoadedSoFar(n)',
           Good /\ Smooth /\ faults' = 0 =>
               status' = "success" /\ (worker'[n] \in HasQuery => query'[n].all)
    PROVE  Underway'
<1> USE DEF Others
<1>1. \A m \in DOMAIN names : LoadedSoFar(m)'
  <2> SUFFICES ASSUME NEW m \in DOMAIN names, m # n PROVE LoadedSoFar(m)'
    OBVIOUS
  <2>1. LoadedSoFar(m) /\ worker'[m] = worker[m] /\ query'[m] = query[m]
    BY DEF Underway
  <2>2. worker[m] \in Created => names[m] \in DOMAIN server
    BY <2>1 DEF LoadedSoFar
  <2> QED
    BY <2>1, <2>2, OtherLoading
<1>2. CreatedOnce'
  BY DEF Underway, CreatedOnce
<1>3. ASSUME Good, faults' = 0 PROVE Smooth'
  <2>1. Smooth
    BY <1>3 DEF Underway
  <2>2. status' = "success" /\ (worker'[n] \in HasQuery => query'[n].all)
    BY <1>3, <2>1
  <2>3. \A m \in DOMAIN names : worker[m] \in Created => worker'[m] = worker[m] /\ m # n
    OBVIOUS
  <2>4. conn'.pending # <<>> => \E m \in DOMAIN names' : worker'[m] = "flush"
    BY <2>1, <2>3 DEF Smooth, Created
  <2>5. \A d \in DOMAIN server' :
          d \in DOMAIN start'.server
            \/ \E m \in DOMAIN names' : worker'[m] \in Created /\ names'[m] = d
    BY <2>1, <2>3 DEF Smooth
  <2>6. ASSUME NEW m \in DOMAIN names PROVE worker'[m] \in HasQuery => query'[m].all
    BY <2>1, <2>2 DEF Smooth
  <2>7. ASSUME NEW m \in DOMAIN names, worker'[m] = "flush"
        PROVE  /\ \A i, j \in DOMAIN conn'.pending : conn'.pending[i] = conn'.pending[j] => i = j
               /\ server'[names'[m]] \intersect Range(conn'.pending) = {}
    <3>1. worker[m] = "flush"
      BY <2>7 DEF Created
    <3> QED
      BY <2>1, <3>1 DEF Smooth
  <2> QED
    BY <2>2, <2>4, <2>5, <2>6, <2>7 DEF Smooth
<1>4. Good' <=> Good
  BY GoodKept
<1> QED
  BY <1>1, <1>2, <1>3, <1>4 DEF Underway

(* A run that should succeed finds each loader, whole, once. *)
LEMMA GoodLoader ==
    ASSUME LogInv, ScriptInv, Parsed, Good, faults = 0, NEW n \in DOMAIN names
    PROVE  /\ Loadable(names[n])
           /\ files[<<names[n], LOADER>>].state = "whole"
           /\ \A i, j \in DOMAIN files[<<names[n], LOADER>>].tables :
                 files[<<names[n], LOADER>>].tables[i] = files[<<names[n], LOADER>>].tables[j]
                    => i = j
           /\ \A m \in DOMAIN names : names[m] = names[n] => m = n
<1> DEFINE p == <<names[n], LOADER>>
           s == files[p].tables
<1>1. names = Asked /\ names \in Seq(Range(names))
  BY DEF Parsed, LogInv, ExeShape
<1>2. Loadable(names[n])
  BY <1>1 DEF Good, Range
<1>3. \A m \in DOMAIN names : names[m] = names[n] => m = n
  BY <1>1, NoneTwice DEF Good
<1>4. p \in DOMAIN files /\ p[2] = LOADER /\ p[1] = names[n]
  BY <1>2 DEF Loadable
<1>5. s \in Scripts
  BY <1>4 DEF ScriptInv, ScriptsNamed
<1>6. Cardinality(Range(s)) = Len(s)
  BY <1>2 DEF Loadable, Script
<1>7. \A t \in Range(s) : <<names[n], t>> \in DOMAIN files
  BY <1>2 DEF Loadable, Script
<1>8. s \in Seq(STRING \ {LOADER}) /\ s # <<>>
  BY <1>5 DEF Scripts
<1> HIDE DEF s
<1>9. \A i, j \in DOMAIN s : s[i] = s[j] => i = j
  BY <1>6, <1>8, NoneTwice
<1>10. 1 \in DOMAIN s /\ s[1] # LOADER /\ s[1] \in Range(s)
  <2>1. 1 \in DOMAIN s
    BY <1>8
  <2> QED
    BY <1>8, <2>1 DEF Range
<1>11. ~OnlyLoader(names[n])
  <2>1. /\ <<names[n], s[1]>> \in DOMAIN files
        /\ <<names[n], s[1]>>[1] = names[n] /\ <<names[n], s[1]>>[2] # LOADER
    BY <1>7, <1>10
  <2> QED
    BY <2>1 DEF OnlyLoader
<1>12. files[p].state = "whole"
  BY <1>4, <1>11 DEF ScriptInv, CutIsAlone
<1> QED
  BY <1>2, <1>3, <1>9, <1>12 DEF s

(* The loader is opened, sized and read. *)
LEMMA UnderwayByReading ==
    ASSUME LogInv, ScriptInv, ConnShape, Parsed, Underway, faults \in Nat, xpc = "run",
           NEW n \in DOMAIN names, Others(n),
           \/ \E ok \in BOOLEAN : query_open(n, ok) \/ query_alloc(n, ok)
           \/ \E how \in {"whole", "cut", "error"} : query_load(n, how)
    PROVE  ConnShape' /\ Underway'
<1>1. /\ n \in DOMAIN worker /\ n \in DOMAIN query /\ LoadedSoFar(n)
      /\ UNCHANGED <<names, files, arg, start, xpc>> /\ (faults' = 0 => faults = 0)
  BY DEF LogInv, ExeShape, Underway, Others
<1>2. server' = server /\ conn' = conn /\ worker[n] \in {"todo", "opened", "sized"}
  BY DEF query_open, query_alloc, query_load
<1>3. ConnShape'
  BY <1>1, <1>2 DEF ConnShape
<1>4. Good /\ faults = 0 => /\ <<names[n], LOADER>> \in DOMAIN files
                            /\ files[<<names[n], LOADER>>].state = "whole"
  BY GoodLoader DEF Loadable
<1>5. ASSUME worker'[n] \notin Created, LoadedSoFar(n)',
             Good /\ Smooth /\ faults' = 0 =>
               status' = "success" /\ (worker'[n] \in HasQuery => query'[n].all)
      PROVE  Underway'
  BY <1>2, <1>5, QuietStep DEF Created
<1>6. ASSUME NEW message, Failed(n, message), message \in {"note", "log"}, faults' # 0 \/ ~Good
      PROVE  Underway'
  <2>1. status' = "failure" /\ worker'[n] \in {"failed", "note", "log"}
    BY <1>1, <1>6 DEF Failed, Step
  <2>2. LoadedSoFar(n)'
    BY <2>1 DEF LoadedSoFar, HasQuery, Created, Loading
  <2> QED
    BY <1>5, <1>6, <2>1, <2>2 DEF Created
<1>7. ASSUME NEW ok \in BOOLEAN, query_open(n, ok) \/ query_alloc(n, ok) PROVE Underway'
  <2>1. CASE ok
    <3>1. /\ worker'[n] \in {"opened", "sized"} /\ UNCHANGED <<status, query, short>>
          /\ <<names[n], LOADER>> \in DOMAIN files
      BY <1>1, <1>7, <2>1 DEF query_open, query_alloc, Step, open_read, LoadedSoFar
    <3>2. LoadedSoFar(n)'
      BY <1>1, <3>1 DEF LoadedSoFar, HasQuery, Created, Loading
    <3> QED
      BY <1>5, <3>1, <3>2 DEF Created, HasQuery, Smooth
  <2>2. CASE ~ok
    <3>1. Failed(n, "note") /\ (Fault \/ (NoFault /\ <<names[n], LOADER>> \notin DOMAIN files))
      BY <1>7, <2>2 DEF query_open, query_alloc, open_read, fstat, Call
    <3>2. faults' # 0 \/ ~Good
      BY <1>1, <1>4, <3>1 DEF Fault, NoFault
    <3> QED
      BY <1>6, <3>1, <3>2
  <2> QED
    BY <2>1, <2>2
<1>8. ASSUME NEW how \in {"whole", "cut", "error"}, query_load(n, how) PROVE Underway'
  <2>1. how # "whole" => faults' # 0
    BY <1>8 DEF query_load, read_size, Call, Fault
  <2>2. CASE how = "error"
    BY <1>6, <1>8, <2>1, <2>2 DEF query_load
  <2>3. CASE how # "error"
    <3>1. /\ worker'[n] = "loaded" /\ UNCHANGED status
          /\ query'[n] = [tables |-> files[<<names[n], LOADER>>].tables,
                          all |-> files[<<names[n], LOADER>>].state = "whole" /\ how = "whole"]
          /\ short' = IF how = "cut" THEN short \union {names[n]} ELSE short
          /\ <<names[n], LOADER>> \in DOMAIN files
      BY <1>1, <1>8, <2>3 DEF query_load, Step, LoadedSoFar
    <3>2. /\ query'[n].tables = files[<<names[n], LOADER>>].tables
          /\ query'[n].all <=> files[<<names[n], LOADER>>].state = "whole" /\ how = "whole"
      <4>1. PICK w : w = (files[<<names[n], LOADER>>].state = "whole" /\ how = "whole")
        OBVIOUS
      <4>2. query'[n].tables = files[<<names[n], LOADER>>].tables /\ query'[n].all = w
        BY <3>1, <4>1
      <4> QED
        BY <4>1, <4>2
    <3>3. how = "cut" => names[n] \in short'
      BY <3>1
    <3>4. LoadedSoFar(n)'
      BY <1>1, <2>3, <3>1, <3>2, <3>3 DEF LoadedSoFar, HasQuery, Created, Loading
    <3>5. Good /\ faults' = 0 => query'[n].all
      BY <1>1, <1>4, <2>1, <3>2
    <3> QED
      BY <1>5, <3>1, <3>4, <3>5 DEF Created, HasQuery, Smooth
  <2> QED
    BY <2>2, <2>3
<1> QED
  BY <1>3, <1>7, <1>8

(* The connection is locked, for several databases. *)
LEMMA UnderwayByLock ==
    ASSUME LogInv, ScriptInv, ConnShape, Parsed, Underway, faults \in Nat, xpc = "run",
           NEW n \in DOMAIN names, Others(n), NEW ok \in BOOLEAN, server_lock(n, ok),
           UNCHANGED short
    PROVE  ConnShape' /\ Underway'
<1>1. /\ n \in DOMAIN worker /\ LoadedSoFar(n) /\ names \in Seq(Range(names))
      /\ UNCHANGED <<names, files, arg, start, xpc, query, server>> /\ (faults' = 0 => faults = 0)
  BY DEF LogInv, ExeShape, Underway, Others, server_lock
<1>2. worker[n] = "loaded"
  BY DEF server_lock
<1>3. CASE ok
  <2>1. /\ conn' = [conn EXCEPT !.lock = {n}] /\ UNCHANGED status /\ worker'[n] = "locked"
        /\ Single \/ conn.lock = {}
    BY <1>1, <1>3 DEF server_lock, mutex_lock, Step
  <2>2. conn'.lock = {n} /\ conn'.pending = conn.pending /\ conn'.db = conn.db /\ ConnShape'
    BY <1>1, <2>1 DEF ConnShape
  <2>3. \A m \in DOMAIN names : m # n => worker[m] \notin {"locked", "flush"}
    <3> SUFFICES ASSUME NEW m \in DOMAIN names, m # n PROVE worker[m] \notin {"locked", "flush"}
      OBVIOUS
    <3>1. Len(names) \in Nat /\ DOMAIN names = 1..Len(names)
      BY <1>1
    <3>2. CASE Single
      <4>1. DOMAIN names = 1..1
        BY <3>1, <3>2 DEF Single
      <4> QED
        BY <4>1
    <3>3. CASE conn.lock = {}
      BY <3>3 DEF Underway, LoadedSoFar
    <3> QED
      BY <2>1, <3>2, <3>3
  <2>4. LoadedSoFar(n)'
    BY <1>1, <1>2, <2>1, <2>2 DEF LoadedSoFar, HasQuery, Created, Loading
  <2>5. Smooth => status' = "success" /\ query'[n].all
    BY <1>1, <1>2, <2>1 DEF Smooth, HasQuery
  <2> QED
    BY <1>1, <1>2, <2>1, <2>2, <2>3, <2>4, <2>5, QuietStep DEF Created
<1>4. CASE ~ok
  <2>1. Failed(n, "note") /\ conn' = conn /\ Fault
    BY <1>4 DEF server_lock
  <2>2. status' = "failure" /\ worker'[n] \in {"failed", "note"} /\ faults' # 0
    BY <1>1, <2>1 DEF Failed, Step, Fault
  <2>3. LoadedSoFar(n)'
    BY <2>2 DEF LoadedSoFar, HasQuery, Created, Loading
  <2>4. ConnShape'
    BY <1>1, <2>1 DEF ConnShape
  <2> QED
    BY <1>1, <1>2, <2>1, <2>2, <2>3, <2>4, QuietStep DEF Created
<1> QED
  BY <1>3, <1>4

(* A failure is noted. *)
LEMMA UnderwayByLog ==
    ASSUME LogInv, ConnShape, Underway, xpc = "run",
           NEW n \in DOMAIN names, Others(n), log_failure(n), UNCHANGED short
    PROVE  ConnShape' /\ Underway'
<1>1. /\ n \in DOMAIN worker /\ LoadedSoFar(n)
      /\ UNCHANGED <<names, files, arg, start, xpc, query, server, conn, status>>
  BY DEF LogInv, ExeShape, Underway, Others, log_failure
<1>2. /\ worker[n] \in Noting \union {"log", "note"}
      /\ worker'[n] \in Noting \union {"failed"}
  BY <1>1 DEF log_failure, Step, Noting
<1>3. status # "success"
  BY <1>1, <1>2 DEF LoadedSoFar, Noting, Loading
<1>4. LoadedSoFar(n)'
  BY <1>1, <1>2, <1>3 DEF LoadedSoFar, HasQuery, Created, Loading, Noting
<1>5. ConnShape'
  BY <1>1 DEF ConnShape
<1>6. ~Smooth
  BY <1>3 DEF Smooth
<1>7. worker[n] \notin Created /\ worker'[n] \notin Created
  BY <1>2 DEF Noting, Created
<1> QED
  BY <1>1, <1>4, <1>5, <1>6, <1>7, QuietStep

(* Head and tail of what is pending. *)
LEMMA PendingParts ==
    ASSUME NEW S, NEW s \in Seq(S), s # <<>>
    PROVE  /\ Tail(s) \in Seq(S)
           /\ Range(s) = {Head(s)} \union Range(Tail(s))
           /\ (\A i, j \in DOMAIN s : s[i] = s[j] => i = j) =>
                 /\ Head(s) \notin Range(Tail(s))
                 /\ \A i, j \in DOMAIN Tail(s) : Tail(s)[i] = Tail(s)[j] => i = j
<1>1. PICK l \in Nat : l = Len(s) /\ l >= 1
  OBVIOUS
<1>2. DOMAIN s = 1..l /\ Head(s) = s[1] /\ 1 \in 1..l
  BY <1>1
<1>3. DOMAIN Tail(s) = 1..l - 1 /\ Tail(s) \in Seq(S) /\ \A i \in 1..l - 1 : Tail(s)[i] = s[i + 1]
  BY <1>1
<1>4. \A i \in 1..l - 1 : i + 1 \in 1..l /\ i + 1 # 1
  BY <1>1
<1>5. Range(s) \subseteq {Head(s)} \union Range(Tail(s))
  <2> SUFFICES ASSUME NEW i \in 1..l, i # 1 PROVE s[i] \in Range(Tail(s))
    BY <1>2 DEF Range
  <2>1. i - 1 \in 1..l - 1 /\ (i - 1) + 1 = i
    BY <1>1
  <2>2. Tail(s)[i - 1] = s[i]
    BY <1>3, <2>1
  <2> QED
    BY <1>3, <2>1, <2>2 DEF Range
<1>6. Range(Tail(s)) \subseteq Range(s) /\ Head(s) \in Range(s)
  BY <1>2, <1>3, <1>4 DEF Range
<1>7. ASSUME \A i, j \in DOMAIN s : s[i] = s[j] => i = j
      PROVE  /\ Head(s) \notin Range(Tail(s))
             /\ \A i, j \in DOMAIN Tail(s) : Tail(s)[i] = Tail(s)[j] => i = j
  <2>1. Head(s) \notin Range(Tail(s))
    BY <1>2, <1>3, <1>4, <1>7 DEF Range
  <2>2. ASSUME NEW i \in 1..l - 1, NEW j \in 1..l - 1, Tail(s)[i] = Tail(s)[j] PROVE i = j
    <3>1. i + 1 = j + 1
      BY <1>2, <1>3, <1>4, <1>7, <2>2
    <3> QED
      BY <3>1
  <2> QED
    BY <1>3, <2>1, <2>2
<1> QED
  BY <1>3, <1>5, <1>6, <1>7

(* A failure of a loading that has the connection: nobody else is disturbed. *)
LEMMA UnderwayByFailure ==
    ASSUME LogInv, Underway, xpc = "run", NEW n \in DOMAIN names, Others(n),
           worker[n] \in {"locked", "flush"}, NEW message \in {"log", "note"}, Failed(n, message),
           UNCHANGED <<query, server, short>>, faults' # 0 \/ ~Good
    PROVE  Underway'
<1> USE DEF Others
<1>1. status' = "failure" /\ worker'[n] \in {"failed", "note", "log"}
  BY DEF LogInv, ExeShape, Failed, Step
<1>2. LoadedSoFar(n)'
  BY <1>1 DEF LoadedSoFar, HasQuery, Created, Loading
<1>3. ASSUME NEW m \in DOMAIN names, m # n PROVE LoadedSoFar(m)'
  <2>1. LoadedSoFar(m) /\ LoadedSoFar(n) /\ worker'[m] = worker[m]
    BY <1>3 DEF Underway
  <2>2. worker[m] \notin {"locked", "flush"}
    BY <1>3, <2>1, OneAtATime
  <2>3. worker[m] \in Created => names[m] \in DOMAIN server
    BY <2>1 DEF LoadedSoFar
  <2> QED
    BY <2>1, <2>2, <2>3, OtherLoading
<1>4. CreatedOnce'
  BY <1>1 DEF Underway, CreatedOnce, Created
<1>5. Good' <=> Good
  BY GoodKept
<1> QED
  BY <1>2, <1>3, <1>4, <1>5 DEF Underway

(* The script is sent. *)
LEMMA UnderwayByQuery ==
    ASSUME LogInv, ScriptInv, ConnShape, Parsed, Underway, faults \in Nat, xpc = "run",
           NEW n \in DOMAIN names, Others(n), NEW ok \in BOOLEAN, mysql_real_query(n, ok),
           UNCHANGED short
    PROVE  ConnShape' /\ Underway'
<1> DEFINE d == names[n]
<1>1. /\ n \in DOMAIN worker /\ LoadedSoFar(n) /\ UNCHANGED <<names, files, arg, start, xpc, query>>
      /\ faults' = 0 => faults = 0
      /\ worker[n] = "locked"
  BY DEF LogInv, ExeShape, Underway, Others, mysql_real_query
<1>2. /\ <<d, LOADER>> \in DOMAIN files /\ query[n].tables = files[<<d, LOADER>>].tables
      /\ query[n].tables \in Seq(STRING)
  BY <1>1, QueryTyped DEF HasQuery
<1>3. Good /\ faults = 0 => query[n].all
  BY <1>1 DEF Underway, Smooth, HasQuery
<1>4. \A m \in DOMAIN names : m # n => worker[m] \notin {"locked", "flush"}
  BY <1>1, OneAtATime DEF Underway
<1>5. CASE ok
  <2>1. PICK rest \in IF query[n].all THEN {query[n].tables} ELSE Prefixes(query[n].tables) :
            conn' = [conn EXCEPT !.pending = rest, !.db = d]
    BY <1>5 DEF mysql_real_query
  <2>2. /\ d \notin DOMAIN server /\ DOMAIN server' = DOMAIN server \union {d} /\ server'[d] = {}
        /\ \A e \in DOMAIN server : e # d => server'[e] = server[e]
        /\ UNCHANGED status /\ worker'[n] = "flush"
    BY <1>1, <1>5 DEF mysql_real_query, create_database, Step
  <2>3. rest \in Seq(STRING)
    <3>1. \A k \in 0..Len(query[n].tables) : SubSeq(query[n].tables, 1, k) \in Seq(STRING)
      BY <1>2
    <3> QED
      BY <1>2, <2>1, <3>1 DEF Prefixes
  <2>4. /\ conn'.lock = conn.lock /\ conn'.pending = rest /\ conn'.db = d
        /\ DOMAIN conn' = DOMAIN conn
    BY <2>1 DEF ConnShape
  <2>5. ConnShape'
    BY <1>1, <2>3, <2>4 DEF ConnShape
  <2>6. query[n].all => rest = query[n].tables
    BY <2>1
  <2>7. LoadedSoFar(n)'
    BY <1>1, <2>2, <2>4, <2>6 DEF LoadedSoFar, HasQuery, Created, Loading
  <2>8. ASSUME NEW m \in DOMAIN names, m # n, worker[m] \in Created
        PROVE  names[m] # d /\ names[m] \in DOMAIN server' /\ server'[names[m]] = server[names[m]]
    <3>1. names[m] \in DOMAIN server
      BY <2>8 DEF Underway, LoadedSoFar
    <3> QED
      BY <2>2, <3>1
  <2>9. ASSUME NEW m \in DOMAIN names, m # n PROVE LoadedSoFar(m)'
    <3>1. LoadedSoFar(m) /\ worker'[m] = worker[m]
      BY <2>9 DEF Underway, Others
    <3> QED
      BY <1>1, <1>4, <2>2, <2>8, <2>9, <3>1, OtherLoading
  <2>10. CreatedOnce'
    BY <1>1, <2>8 DEF Underway, CreatedOnce, Others
  <2>11. ASSUME Good, faults' = 0 PROVE Smooth'
    <3>1. Smooth /\ query[n].all /\ rest = query[n].tables
      BY <1>1, <1>3, <2>6, <2>11 DEF Underway
    <3>2. \A i, j \in DOMAIN rest : rest[i] = rest[j] => i = j
      BY <1>1, <1>2, <2>11, <3>1, GoodLoader
    <3>3. \A m \in DOMAIN names : m # n => worker'[m] = worker[m] /\ query'[m] = query[m]
      BY DEF Others
    <3>4. \A e \in DOMAIN server' :
            e \in DOMAIN start'.server
              \/ \E m \in DOMAIN names' : worker'[m] \in Created /\ names'[m] = e
      <4> SUFFICES ASSUME NEW e \in DOMAIN server', e \notin DOMAIN start.server
                   PROVE  \E m \in DOMAIN names : worker'[m] \in Created /\ names[m] = e
        BY <1>1
      <4>1. CASE e = d
        BY <2>2, <4>1 DEF Created
      <4>2. CASE e # d
        <5>1. PICK m \in DOMAIN names : worker[m] \in Created /\ names[m] = e
          BY <2>2, <3>1, <4>2 DEF Smooth
        <5> QED
          BY <3>3, <4>2, <5>1
      <4> QED
        BY <4>1, <4>2
    <3>5. \A m \in DOMAIN names' : worker'[m] \in HasQuery => query'[m].all
      BY <1>1, <3>1, <3>3 DEF Smooth
    <3>6. ASSUME NEW m \in DOMAIN names', worker'[m] = "flush" PROVE m = n
      BY <1>1, <1>4, <3>3, <3>6
    <3>7. server'[d] \intersect Range(rest) = {}
      BY <2>2
    <3> QED
      BY <1>1, <2>2, <2>4, <3>1, <3>2, <3>4, <3>5, <3>6, <3>7 DEF Smooth
  <2>12. Good' <=> Good
    BY <1>1, GoodKept
  <2> QED
    BY <1>1, <2>5, <2>7, <2>9, <2>10, <2>11, <2>12 DEF Underway
<1>6. CASE ~ok
  <2>1. /\ Failed(n, "log") /\ UNCHANGED server
        /\ conn' = [conn EXCEPT !.lock = mutex_unlock(@, n)]
        /\ faults' # 0 \/ conn.pending # <<>> \/ d \in DOMAIN server \/ ~query[n].all
    BY <1>6 DEF mysql_real_query, Fault, NoFault
  <2>2. ConnShape'
    BY <1>1, <2>1 DEF ConnShape
  <2>3. ASSUME Good, faults' = 0 PROVE FALSE
    <3>1. Smooth /\ query[n].all
      BY <1>1, <1>3, <2>3 DEF Underway
    <3>2. conn.pending = <<>>
      BY <1>1, <1>4, <3>1 DEF Smooth
    <3>3. d \notin DOMAIN start.server /\ \A m \in DOMAIN names : names[m] = d => m = n
      BY <1>1, <2>3, GoodLoader DEF Loadable
    <3>4. d \notin DOMAIN server
      BY <1>1, <3>1, <3>3 DEF Smooth, Created
    <3> QED
      BY <2>1, <2>3, <3>1, <3>2, <3>4
  <2> QED
    BY <1>1, <2>1, <2>2, <2>3, UnderwayByFailure
<1> QED
  BY <1>5, <1>6

(* A result is flushed. *)
LEMMA UnderwayByFlush ==
    ASSUME LogInv, ScriptInv, ConnShape, Parsed, Underway, faults \in Nat, xpc = "run",
           NEW n \in DOMAIN names, Others(n), NEW how \in {"ok", "error", "lost"},
           mysql_flush_results(n, how), UNCHANGED short
    PROVE  ConnShape' /\ Underway'
<1> DEFINE d == names[n]
           t == Head(conn.pending)
           rest == Tail(conn.pending)
<1>1. /\ n \in DOMAIN worker /\ LoadedSoFar(n) /\ UNCHANGED <<names, files, arg, start, xpc, query>>
      /\ faults' = 0 => faults = 0
      /\ worker[n] = "flush" /\ conn.pending # <<>>
  BY DEF LogInv, ExeShape, Underway, Others, mysql_flush_results
<1>2. /\ <<d, LOADER>> \in DOMAIN files /\ query[n].tables = files[<<d, LOADER>>].tables
      /\ query[n].tables \in Seq(STRING)
  BY <1>1, QueryTyped DEF HasQuery, Created
<1>3. /\ conn.lock = {n} /\ conn.db = d /\ d \in DOMAIN server
      /\ query[n].all => server[d] \union Range(conn.pending) = Range(query[n].tables)
  BY <1>1 DEF LoadedSoFar, Created
<1>4. \A m \in DOMAIN names : m # n => worker[m] \notin {"locked", "flush"}
  BY <1>1, OneAtATime DEF Underway
<1>5. /\ rest \in Seq(STRING) /\ Range(conn.pending) = {t} \union Range(rest)
      /\ (\A i, j \in DOMAIN conn.pending : conn.pending[i] = conn.pending[j] => i = j) =>
           t \notin Range(rest) /\ \A i, j \in DOMAIN rest : rest[i] = rest[j] => i = j
  BY <1>1, PendingParts DEF ConnShape
<1>6. ASSUME Good, faults = 0
      PROVE  /\ Smooth /\ t \notin server[d] /\ <<d, t>> \in DOMAIN files
             /\ t \notin Range(rest) /\ \A i, j \in DOMAIN rest : rest[i] = rest[j] => i = j
  <2>1. Smooth
    BY <1>6 DEF Underway
  <2>2. /\ query[n].all /\ server[d] \intersect Range(conn.pending) = {}
        /\ \A i, j \in DOMAIN conn.pending : conn.pending[i] = conn.pending[j] => i = j
    BY <1>1, <2>1 DEF Smooth, HasQuery, Created
  <2>3. t \in Range(query[n].tables)
    BY <1>3, <1>5, <2>2
  <2>4. Loadable(d)
    BY <1>6, GoodLoader
  <2>5. <<d, t>> \in DOMAIN files
    BY <1>2, <2>3, <2>4 DEF Loadable, Script
  <2> QED
    BY <1>5, <2>1, <2>2, <2>5
<1> HIDE DEF t, rest
<1>7. CASE how = "ok"
  <2>1. /\ server' = [server EXCEPT ![d] = @ \union {t}]
        /\ conn' = [conn EXCEPT !.pending = rest]
        /\ UNCHANGED <<worker, status>>
    BY <1>3, <1>7 DEF mysql_flush_results, t, rest
  <2>2. /\ DOMAIN server' = DOMAIN server /\ server'[d] = server[d] \union {t}
        /\ \A e \in DOMAIN server : e # d => server'[e] = server[e]
    BY <1>3, <2>1
  <2>3. /\ conn'.lock = conn.lock /\ conn'.pending = rest /\ conn'.db = conn.db
        /\ DOMAIN conn' = DOMAIN conn
    BY <2>1 DEF ConnShape
  <2>4. ConnShape'
    BY <1>1, <1>5, <2>3 DEF ConnShape
  <2>5. query[n].all => server'[d] \union Range(rest) = Range(query[n].tables)
    BY <1>3, <1>5, <2>2
  <2>6. LoadedSoFar(n)'
    BY <1>1, <1>3, <2>1, <2>2, <2>3, <2>5 DEF LoadedSoFar, HasQuery, Created, Loading
  <2>7. ASSUME NEW m \in DOMAIN names, m # n PROVE LoadedSoFar(m)'
    <3>1. LoadedSoFar(m) /\ worker'[m] = worker[m]
      BY <2>1, <2>7 DEF Underway
    <3>2. worker[m] \in Created => names[m] \in DOMAIN server /\ names[m] # d
      BY <1>1, <2>7, <3>1 DEF Underway, CreatedOnce, Created, LoadedSoFar
    <3> QED
      BY <1>1, <1>4, <2>1, <2>2, <2>7, <3>1, <3>2, OtherLoading
  <2>8. CreatedOnce'
    BY <1>1, <2>1 DEF Underway, CreatedOnce
  <2>9. ASSUME Good, faults' = 0 PROVE Smooth'
    <3>1. /\ Smooth /\ t \notin server[d]
          /\ t \notin Range(rest) /\ \A i, j \in DOMAIN rest : rest[i] = rest[j] => i = j
      BY <1>1, <1>6, <2>9
    <3>2. server[d] \intersect Range(conn.pending) = {}
      BY <1>1, <3>1 DEF Smooth
    <3>3. server'[d] \intersect Range(rest) = {}
      BY <1>5, <2>2, <3>1, <3>2
    <3>4. \A m \in DOMAIN names' : worker'[m] = "flush" => m = n
      BY <1>1, <1>4, <2>1
    <3>5. \A m \in DOMAIN names' : worker'[m] \in HasQuery => query'[m].all
      BY <1>1, <2>1, <3>1 DEF Smooth
    <3> QED
      BY <1>1, <2>1, <2>2, <2>3, <3>1, <3>3, <3>4, <3>5 DEF Smooth
  <2>10. Good' <=> Good
    BY <1>1, GoodKept
  <2> QED
    BY <1>1, <2>4, <2>6, <2>7, <2>8, <2>9, <2>10 DEF Underway
<1>8. CASE how # "ok"
  <2>1. Failed(n, "log") /\ UNCHANGED server
    BY <1>8 DEF mysql_flush_results
  <2>2. faults' # 0 \/ <<d, t>> \notin DOMAIN files \/ t \in server[d]
    <3>1. CASE how = "error"
      BY <1>3, <3>1 DEF mysql_flush_results, t
    <3>2. CASE how = "lost"
      BY <3>2 DEF mysql_flush_results, Fault
    <3> QED
      BY <1>8, <3>1, <3>2
  <2>3. ConnShape'
    <3>1. conn'.pending \in {conn.pending, <<>>} /\ DOMAIN conn' = DOMAIN conn
      BY <1>8 DEF mysql_flush_results, ConnShape
    <3>2. <<>> \in Seq(STRING)
      OBVIOUS
    <3> QED
      BY <1>1, <3>1, <3>2 DEF ConnShape
  <2>4. faults' # 0 \/ ~Good
    BY <1>1, <1>6, <2>2
  <2> QED
    BY <1>1, <2>1, <2>3, <2>4, UnderwayByFailure
<1> QED
  BY <1>7, <1>8

(* All results are flushed, and the connection is given back. *)
LEMMA UnderwayByUnlock ==
    ASSUME LogInv, ScriptInv, ConnShape, Parsed, Underway, faults \in Nat, xpc = "run",
           NEW n \in DOMAIN names, Others(n), NEW ok \in BOOLEAN, server_unlock(n, ok),
           UNCHANGED short
    PROVE  ConnShape' /\ Underway'
<1>1. /\ n \in DOMAIN worker /\ LoadedSoFar(n)
      /\ UNCHANGED <<names, files, arg, start, xpc, query, server>>
      /\ faults' = 0 => faults = 0
      /\ worker[n] = "flush" /\ conn.pending = <<>>
  BY DEF LogInv, ExeShape, Underway, Others, server_unlock
<1>2. \A m \in DOMAIN names : m # n => worker[m] \notin {"locked", "flush"}
  BY <1>1, OneAtATime DEF Underway
<1>3. CASE ok
  <2>1. /\ conn' = [conn EXCEPT !.lock = mutex_unlock(@, n)] /\ UNCHANGED status
        /\ worker'[n] = "done"
    BY <1>1, <1>3 DEF server_unlock, Step
  <2>2. conn'.pending = <<>> /\ DOMAIN conn' = DOMAIN conn
    BY <1>1, <2>1 DEF ConnShape
  <2>3. ConnShape'
    BY <1>1, <2>2 DEF ConnShape
  <2>4. Range(conn.pending) = {}
    BY <1>1 DEF Range
  <2>5. query[n].all => server[names[n]] = Range(query[n].tables)
    BY <1>1, <2>4 DEF LoadedSoFar
  <2>6. LoadedSoFar(n)'
    BY <1>1, <2>1, <2>5 DEF LoadedSoFar, HasQuery, Created, Loading
  <2>7. ASSUME NEW m \in DOMAIN names, m # n PROVE LoadedSoFar(m)' /\ worker'[m] = worker[m]
    <3>1. LoadedSoFar(m) /\ worker'[m] = worker[m]
      BY <2>7 DEF Underway, Others
    <3>2. worker[m] \in Created => names[m] \in DOMAIN server
      BY <3>1 DEF LoadedSoFar
    <3> QED
      BY <1>1, <1>2, <2>1, <2>7, <3>1, <3>2, OtherLoading
  <2>8. CreatedOnce'
    BY <1>1, <2>1, <2>7 DEF Underway, CreatedOnce, Created
  <2>9. ASSUME Good, faults' = 0 PROVE Smooth'
    <3>1. Smooth
      BY <1>1, <2>9 DEF Underway
    <3>2. \A m \in DOMAIN names' : worker'[m] # "flush"
      BY <1>1, <1>2, <2>1, <2>7
    <3>3. \A m \in DOMAIN names' : worker'[m] \in HasQuery => query'[m].all
      BY <1>1, <2>1, <2>7, <3>1 DEF Smooth, HasQuery, Created
    <3>4. \A m \in DOMAIN names : worker[m] \in Created => worker'[m] \in Created
      BY <2>1, <2>7 DEF Created
    <3>5. \A e \in DOMAIN server' :
            e \in DOMAIN start'.server
              \/ \E m \in DOMAIN names' : worker'[m] \in Created /\ names'[m] = e
      BY <1>1, <3>1, <3>4 DEF Smooth
    <3> QED
      BY <1>1, <2>1, <2>2, <3>1, <3>2, <3>3, <3>5 DEF Smooth
  <2>10. Good' <=> Good
    BY <1>1, GoodKept
  <2> QED
    BY <1>1, <2>3, <2>6, <2>7, <2>8, <2>9, <2>10 DEF Underway
<1>4. CASE ~ok
  <2>1. Failed(n, "note") /\ conn' = conn /\ faults' # 0
    BY <1>4 DEF server_unlock, Fault
  <2>2. ConnShape'
    BY <1>1, <2>1 DEF ConnShape
  <2> QED
    BY <1>1, <2>1, <2>2, UnderwayByFailure
<1> QED
  BY <1>3, <1>4

(* Every step of an executor keeps what the invariant says of all loadings. *)
LEMMA UnderwayByWorker ==
    ASSUME LogInv, ScriptInv, ConnShape, Parsed, Underway, faults \in Nat, xpc = "run",
           Running("execute"), NEW n \in DOMAIN names, build_database(n)
    PROVE  ConnShape' /\ Underway' /\ Others(n)
  BY WorkerFrame, UnderwayByReading, UnderwayByLock, UnderwayByQuery, UnderwayByFlush,
     UnderwayByUnlock, UnderwayByLog DEF build_database

-----------------------------------------------------------------------------
(* The end of the run: what is reported is what was loaded. *)
LEMMA ReportedAtShutdown ==
    ASSUME LogInv, Parsed, Underway, faults \in Nat, xpc = "run", NEW ok \in BOOLEAN,
           executor_shutdown(ok), mode = "execute", UNCHANGED short
    PROVE  LoadedOrReported'
<1>1. /\ UNCHANGED <<files, arg, start, server, mode>>
      /\ exit' = IF ok THEN status ELSE "failure"
      /\ faults' = 0 => faults = 0 /\ ok
      /\ \A n \in DOMAIN names : worker[n] \in {"done", "failed"}
  BY DEF executor_shutdown, ExeExit, Exit, Call, Fault, NoFault, AllLoaded
<1>2. Asked' = Asked /\ (Good' <=> Good) /\ \A a : Script(a)' = Script(a)
  BY <1>1, GoodKept
<1>3. ASSUME exit' = "success", NEW a \in Range(Asked)
      PROVE  /\ a \in Dbs /\ a \in DOMAIN server
             /\ files[<<a, LOADER>>].state = "whole" /\ a \notin short => server[a] = Script(a)
  <2>1. status = "success"
    BY <1>1, <1>3
  <2>2. a \in Dbs /\ a \in Range(names)
    BY <2>1 DEF Parsed
  <2>3. PICK n \in DOMAIN names : a = names[n]
    BY <2>2 DEF Range
  <2>4. LoadedSoFar(n) /\ worker[n] = "done"
    BY <1>1, <2>1 DEF Underway, LoadedSoFar, Loading
  <2> QED
    BY <2>2, <2>3, <2>4 DEF LoadedSoFar, HasQuery, Created, Script
<1>4. exit' = "failure" /\ faults' = 0 => ~Good
  BY <1>1 DEF Underway, Smooth
<1>5. Asked # <<>>
  BY DEF Parsed
<1> QED
  BY <1>1, <1>2, <1>3, <1>4, <1>5 DEF LoadedOrReported, Good

(* A run that has failed before the loading, or by a fault. *)
LEMMA ReportedAtExit ==
    ASSUME ExeExit("failure"), faults' = 0 => ~Good'
    PROVE  LoadedOrReported'
  BY DEF LoadedOrReported, Good, ExeExit, Exit

(* LoadInv is inductive over the three modes and the start of the next run. *)
LEMMA LoadInvStep == LoadInv /\ [Next]_vars => LoadInv'
<1> SUFFICES ASSUME LoadInv, [Next]_vars PROVE LoadInv'
  OBVIOUS
<1>1. CompleteInv' /\ LogInv' /\ ScriptInv'
  BY CompleteInvStep, LogInvStep, ScriptInvStep DEF LoadInv
<1>2. ExeShape /\ faults \in Nat
  BY DEF LoadInv, LogInv, CompleteInv, KeptInv, FilesInDirs
<1>3. ASSUME xpc' = "off" \/ (xpc' = "parse" /\ server' = start'.server),
             DOMAIN conn' = {"lock", "pending", "db"}, conn'.pending = <<>>, LoadedOrReported'
      PROVE  LoadInv'
  <2>1. <<>> \in Seq(STRING)
    OBVIOUS
  <2> QED
    BY <1>1, <1>3, <2>1 DEF LoadInv, ConnShape
<1>4. ASSUME NEW r \in Runs, mode_dispatch(r) PROVE LoadInv'
  <2>1. exit # "none" /\ UNCHANGED <<conn, server>> /\ xpc' \in {xpc, "parse"}
    BY <1>4 DEF mode_dispatch
  <2>2. xpc = "off"
    BY <1>2, <2>1 DEF ExeShape, Running
  <2>3. server' = start'.server
    BY <1>4 DEF mode_dispatch
  <2>4. LoadedOrReported'
    BY <1>4 DEF mode_dispatch, LoadedOrReported
  <2> QED
    BY <1>3, <2>1, <2>2, <2>3, <2>4 DEF LoadInv, ConnShape
<1>5. ASSUME mode # "execute", UNCHANGED <<mode, exeVars>> PROVE LoadInv'
  <2>1. xpc' = "off" /\ conn' = conn /\ mode' # "execute"
    BY <1>2, <1>5 DEF ExeShape, Running, exeVars
  <2> QED
    BY <1>3, <1>5, <2>1 DEF LoadInv, ConnShape, LoadedOrReported, ExeShape, Running, exeVars
<1>6. CASE Generate
  BY <1>5, <1>6, GenerateFrame DEF Generate
<1>7. CASE Remove
  <2>1. mode = "remove" /\ UNCHANGED mode
    BY <1>7, RemoveFrame DEF Remove, LoadInv, CompleteInv, KeptInv
  <2> QED
    BY <1>5, <1>7, <2>1 DEF Remove
<1>8. CASE Execute
  <2>1. /\ mode = "execute" /\ Running("execute") /\ exit = "none"
        /\ UNCHANGED <<dirs, files, mode, arg, start>>
        /\ FaultsGrow /\ ExeNext
    BY <1>8, ExecuteFrame DEF Execute, ExeNext
  <2>2. ASSUME ExeExit("failure"), faults' = 0 => ~Good' PROVE LoadInv'
    <3>1. xpc' = "off" /\ DOMAIN conn' = {"lock", "pending", "db"} /\ conn'.pending = <<>>
      BY <2>2 DEF ExeExit, SetExe, exeOff
    <3> QED
      BY <1>3, <2>2, <3>1, ReportedAtExit
  <2>3. CASE execute_dispatch
    <3>1. xpc = "parse" /\ UNCHANGED server
      BY <2>3 DEF execute_dispatch
    <3>2. CASE xpc' = "connect" /\ Parsed' /\ (Good' => status' = "success")
      <4>1. conn' = exeOff.conn /\ UNCHANGED exit
        BY <2>3, <3>2 DEF execute_dispatch, ExeExit, SetExe, exeOff, runVars
      <4>2. DOMAIN conn' = {"lock", "pending", "db"} /\ conn'.pending = <<>>
        BY <4>1 DEF exeOff
      <4>3. ConnShape'
        BY <4>2 DEF ConnShape
      <4>4. server' = start'.server
        BY <2>1, <3>1 DEF LoadInv
      <4> QED
        BY <1>1, <2>1, <3>2, <4>1, <4>3, <4>4 DEF LoadInv, LoadedOrReported
    <3> QED
      BY <1>2, <2>1, <2>2, <2>3, <3>2, ParsedByDispatch
  <2>4. ASSUME NEW ok \in BOOLEAN, mysql_seed_execute(ok) PROVE LoadInv'
    <3>1. CASE ~ok
      BY <1>2, <2>2, <2>4, <3>1 DEF mysql_seed_execute, Call, Fault
    <3>2. CASE ok
      <4>1. /\ xpc = "connect" /\ xpc' = "run" /\ init_executor_task_nodes
            /\ UNCHANGED <<server, names, status, conn, exit, faults>>
        BY <2>4, <3>2 DEF mysql_seed_execute, runVars, Call, NoFault
      <4>2. /\ Parsed /\ (Good => status = "success") /\ server = start.server
            /\ conn.pending = <<>> /\ ConnShape
        BY <4>1 DEF LoadInv, ConnShape
      <4>3. Parsed' /\ (Good' <=> Good)
        BY <2>1, <4>1, <4>2, ParsedKept, GoodKept
      <4>4. \A n \in DOMAIN names' : worker'[n] = "todo"
        BY <4>1 DEF init_executor_task_nodes
      <4>5. CreatedOnce' /\ \A n \in DOMAIN names' : LoadedSoFar(n)'
        BY <4>4 DEF CreatedOnce, LoadedSoFar, HasQuery, Created, Loading
      <4>6. Good => Smooth'
        BY <2>1, <4>1, <4>2, <4>4 DEF Smooth, HasQuery, Created
      <4>7. ConnShape'
        BY <4>1, <4>2 DEF ConnShape
      <4> QED
        BY <1>1, <2>1, <4>1, <4>3, <4>5, <4>6, <4>7 DEF LoadInv, Underway, LoadedOrReported
    <3> QED
      BY <3>1, <3>2
  <2>5. ASSUME xpc = "run", NEW n \in DOMAIN names, build_database(n) PROVE LoadInv'
    <3>1. ConnShape' /\ Underway' /\ Others(n)
      BY <1>2, <2>1, <2>5, UnderwayByWorker DEF LoadInv
    <3>2. Parsed'
      BY <2>5, <3>1, ParsedKept DEF LoadInv, Others
    <3> QED
      BY <1>1, <2>1, <2>5, <3>1, <3>2 DEF LoadInv, Others, LoadedOrReported
  <2>6. CASE execute_pool_fails
    BY <1>2, <2>2, <2>6 DEF execute_pool_fails, Fault
  <2>7. ASSUME NEW ok \in BOOLEAN, executor_shutdown(ok), UNCHANGED short PROVE LoadInv'
    <3>1. xpc = "run"
      BY <2>7 DEF executor_shutdown, AllLoaded
    <3>2. LoadedOrReported'
      BY <1>2, <2>1, <2>7, <3>1, ReportedAtShutdown DEF LoadInv
    <3>3. xpc' = "off" /\ DOMAIN conn' = {"lock", "pending", "db"} /\ conn'.pending = <<>>
      BY <2>7 DEF executor_shutdown, ExeExit, SetExe, exeOff
    <3> QED
      BY <1>3, <3>2, <3>3
  <2> QED
    BY <2>1, <2>3, <2>4, <2>5, <2>6, <2>7 DEF ExeNext
<1>9. CASE UNCHANGED vars
  <2>1. /\ UNCHANGED <<dirs, files, faults, mode, arg, exit, start>>
        /\ UNCHANGED <<xpc, names, status, worker, query, conn, short, server>>
    BY <1>9 DEF vars, fsVars, runVars, exeVars
  <2>2. /\ Asked' = Asked /\ (Good' <=> Good)
        /\ \A d : Script(d)' = Script(d) /\ (Loadable(d)' <=> Loadable(d))
    BY <2>1, GoodKept
  <2>3. LoadedOrReported'
    BY <2>1, <2>2 DEF LoadInv, LoadedOrReported
  <2>4. Parsed => Parsed'
    BY <2>1, ParsedKept
  <2>5. \A n \in DOMAIN names : LoadedSoFar(n) => LoadedSoFar(n)'
    BY <2>1 DEF LoadedSoFar
  <2>6. Underway => Underway'
    BY <2>1, <2>2, <2>5 DEF Underway, CreatedOnce, Smooth
  <2>7. ConnShape'
    BY <2>1 DEF LoadInv, ConnShape
  <2> QED
    BY <1>1, <2>1, <2>2, <2>3, <2>4, <2>6, <2>7 DEF LoadInv
<1> QED
  BY <1>4, <1>6, <1>7, <1>8, <1>9 DEF Next, Over

(* A success of execute mode means that every argument after the           *)
(* credentials is a database that the server now holds with all the tables *)
(* of its loader, and a run of which nothing went wrong and whose          *)
(* databases could be loaded is a success, for any list of them and any    *)
(* order of their executors (mysql_seed_execute.h, execute.h, executor.h). *)
THEOREM WhatIsReportedIsLoaded == Spec => []LoadedOrReported
<1>1. Init => LoadInv
  <2> SUFFICES ASSUME Init PROVE LoadInv
    OBVIOUS
  <2>1. CompleteInv
    BY CompleteInvInit
  <2>2. LogInv
    BY LogInvInit
  <2>3. ScriptInv
    BY DEF Init, GenInit, ScriptInv, SpecsNamed, ScriptsNamed, CutIsAlone, YoungIsAlone
  <2>4. DOMAIN conn = {"lock", "pending", "db"} /\ conn.pending = <<>> /\ xpc = "off"
    BY DEF Init, ExeInit, exeOff
  <2>5. ConnShape
    BY <2>4 DEF ConnShape
  <2>6. LoadedOrReported
    BY DEF Init, LoadedOrReported
  <2> QED
    BY <2>1, <2>2, <2>3, <2>4, <2>5, <2>6 DEF LoadInv
<1>2. LoadInv => LoadedOrReported
  BY DEF LoadInv
<1> QED
  BY <1>1, <1>2, LoadInvStep, PTL DEF Spec
=============================================================================
