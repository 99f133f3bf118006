# mysql_seed in TLA+

mysql_seed generates SQL loaders and CSV data files for MySQL databases from a
specification on its command line (`generate`), loads them into a server
(`execute`) and deletes them again (`remove`).  Generation is parallel: a pool
of four workers builds columns, joins them into row blocks and writes files.
This directory holds TLA+ models of the program, the TLC configurations that
check them, and TLAPS proofs about the task queues, the pool, the counter, columns and
their groups, the layout and the text of tables, random numbers, the parser, and what
the modes do to files and server.

Paths below are relative to the repository's `src/`; `thread/task_queue.h` is
`src/thread/task_queue.h`.

## The system

| Component | State | Operations | Interacts with |
|---|---|---|---|
| task queue (`thread/task_queue.h`) | `head`, `last` of queues and stores, `next`, `prev` of nodes, a lock and two conditions per queue | init, push, pop, remove, pop_push, await_empty, clear, transfer_all, reload, push_quiet, retreive, store swap | workers, main and supervisor share the three queues of a pool |
| thread pool (`thread/thread_pool.h`) | backlog, active and complete queues, the crew, the supervisor's event, `busy` and exit status, a log | start, await, alive, reload, stop, cancel, exit_on_failure, exit paths of workers and supervisor | driver of generate and execute mode |
| generate driver (`generate/generate.h`) | one allocation with all databases, tables, columns, rowspans, row blocks, task nodes | lay out, hook up, run four stages, free and remove on failure | pool, all builders |
| counter (`generate/counter.h`) | the strings "1".."upto" and pointers to them, `ready` | build, await | columns of unique integers, strings and hashes |
| groups (`generate/group.c`) | none | partition a number of rows evenly or linearly | columns with a `GRP_SPEC` |
| columns (`generate/column_*.c`) | cells, rowspans, lengths | one build function per type and qualifier | counter, groups, row block and table totals |
| random numbers (`random/`) | generators | draw a bounded value | random columns |
| time (`time/`) | a date and time as digits | start at the current time, increment | unique timestamp and datetime columns |
| row blocks, tables (`generate/row_block.c`, `table.c`) | totals under a lock, offsets, the file's bytes | size, place, join rows, write | columns before, files after |
| loaders (`generate/loader.c`) | directory and loader file of a database | make directory, build text, write | files |
| failure handlers (`generate/generator.c`) | a log per level | column, table, database, generator hand a failure up to the pool | pool |
| command line of generate mode (`mysql_seed_generate.h`) | specs, counters, position in argv | one parse function per element, recovery at the next database | driver |
| files (`mysql_seed_file.h`) | directory and file handles | make, write, unlink | loaders, tables, remove mode |
| execute mode (`execute/`, `mysql_seed_execute.h`) | server connection, executors | read loader, send queries under the connection's lock | pool, MySQL client library |
| remove mode (`mysql_seed_remove.h`) | database directories | unlink files, remove directories | files |
| thread log (`thread/thread_log.h`) | a buffer of fixed size | append, close, dump | all threads |
| wrappers (`thread_utils`, `system/`) and conversions (`string/`, `uuid/`, `memory/`) | none | one system call or conversion each | everything |

What is hard to get right: the hand-over of nodes between three queues under
three locks; a supervisor that clears queues under running workers; wakeups that
are signalled once for many nodes; stages whose tasks rely on the whole stage
before; columns that wait inside a task for another task of the same stage; row
blocks that write one buffer without a lock, at offsets computed from totals that
other threads added up; sizes estimated before the loops that use them; group
and row-block boundaries that meet in every order; a parser that reads on after an
error without comparing with the end of its arguments; mixed widths and signs in
the random generators; dates counted up in decimal digits; files removed on
failure by a thread that has not joined the ones still creating them; executors
that share a connection and a log.  `PROJECT.json` lists each hazard at its line
with the properties aimed at it.

## Modules

| Module | What it is | Code |
|---|---|---|
| `TaskList` | the critical section of every queue function, as an action on `head`, `last`, `next`, `prev` | `thread/task_queue.h` |
| `TaskQueue` | any client of the queues that keeps the header's contracts; `contents` is what the client believes | `thread/task_queue.h` |
| `TaskList_proofs` | what each list operation does to the sequence it stands for | |
| `TaskQueue_proofs` | inductive invariant and proofs | |
| `StagedRun` | abstract: tasks of a stage in any order, once each, then the next stage, then success | what `mysql_seed_generate` wants |
| `ThreadPool` | workers, supervisor, main; extends `TaskList` | `thread/thread_pool.[hc]`, `thread_utils.h`, the stages and exits of `generate/generate.h`, `generate/generator.c` |
| `ThreadPool_proofs` | invariants, proofs of safety, and of the refinement of `StagedRun` | |
| `CounterSizes` | arithmetic of string sizes | `generate/counter.h` |
| `Counter` | filling the two arrays of the counter | `generate/counter.h` |
| `CounterAwait` | columns waiting for the counter inside the pool | `counter_await`, `build_counter`, the order of tasks in `generate/generate.h` |
| `CounterBuild` | `Counter` and `CounterAwait` composed | |
| `Sizes_proofs` | induction, sums and counts, sizes of strings | |
| `Group` | the two partitioners | `generate/group.c` |
| `RowBlocks` | how many row blocks, and their rows | `generate/generate.h` |
| `GroupColumn` | a column of any kind, with or without groups, walked together with row blocks | the `build_column_*` functions of `generate/column_*.c` |
| `Columns_proofs` | proofs about `Counter`, `CounterAwait` and `CounterBuild`, and about `Group` and `GroupColumn` | |
| `GenerateLayout` | sizes of the arrays and the loop that fills them | `generate/generate.h` |
| `TableBuild` | columns, table init, row blocks, write over that layout | `column_integer.c`, `table.[hc]`, `row_block.[hc]`, `LengthLock` |
| `TableBuild_proofs` | proofs about `GenerateLayout` and `TableBuild` | |
| `RandomSpec` | from a RAND_SPEC to thresholds, spans, offsets, types and widths | the `assign_*_random_*` functions of `mysql_seed_generate.h` |
| `ColumnSpecs` | what each `column_*` and `join_*` function sets | `mysql_seed_generate.h` |
| `RandomColumn` | the drawing of a random column's values | `random/` |
| `TimeString` | the time fetched, its conversion to a string, and the string's increments | `time/time_utils.h`, `time/time_string.h` |
| `TimeColumn` | `GroupColumn` and `TimeString` composed: a time column's string moves on when its loop forms a value | `column_timestamp.c`, `column_datetime.c` |
| `GenerateArgs` | arguments as tokens, and the messages about them | `mysql_seed_generate.h` |
| `GenerateParse` | the parser, one state per parse function | `mysql_seed_generate.h` |
| `ColumnSpecs_proofs` | proofs about `RandomColumn` and `GenerateParse` | |
| `FileSystem` | the database directory and the calls that change it | `system/file_utils.h` |
| `GenerateFiles` | what generate mode does to the directory: loaders, table files, removal on failure | `generate/loader.[hc]`, `generate.h`, `generator.c`, `mysql_seed_file.[hc]` |
| `ThreadLog` | the log of fixed size and its lock | `thread/thread_log.h` |
| `ExecuteMode` | credentials, names, executors on one connection | `mysql_seed_execute.h`, `execute/` |
| `RemoveMode` | the traversal of remove mode | `mysql_seed_remove.h` |
| `MysqlSeed` | runs of the modes one after another over one directory and one server | `mysql_seed.[ch]`, `mysql_seed_help.h` |
| `MysqlSeed_proofs` | proofs about the modes | |
| `MC...` | constants for TLC; `CounterBuild` is checked as it is; `MCColumnSpecs` runs `GenerateParse` and `RandomColumn` side by side | |

How state and actions correspond to the code:

* **Steps.**  A critical section is one step: nothing reads the fields it changes
  without the lock.  A system call is one step.  In `ThreadPool` a thread inside
  `pthread_cond_wait` is in a `wait...` state; a signal moves one waiter to the
  state that reads the condition again, and `SpuriousWakeup` does so without a
  signal.  The `_status`, `_muffle`, `_report`, `_handle` and `_handle_cl` variants
  of a function share an operator; what happens when a call of theirs fails is an
  alternative of it (the parameter `ok` or `how`) or an action of its own
  (`TaskFails`, `PoolCallFails`, `supervisor_exit_on_failure`).
* **Cancellation** is deferred: `pthread_cancel` marks a worker, which dies where
  it next waits or makes a system call.
* **ThreadPool** keeps main's position in `mpc`, each worker's in `wpc`, the
  supervisor's in `spc`.  The nodes of later stages are linked by main while the
  workers cannot reach them; `Init` has them linked.
* **Counter, GroupColumn, TableBuild** keep bytes as lengths and offsets, and text
  as what it stands for (digits, a group's number, a column and a row).  A builder
  of `GroupColumn` is described by how it writes cells, how long they are, when it
  adds their length and when its value moves on; the loops are the same for all.
  `partition_groups_linear` adds in doubles and truncates: the model works with the
  exact fractions and lets any addition whose exact result is a whole number come out
  one too low.  That is what rounding can do up to `LinearRowsMax` (100000) rows,
  derived where it is defined; linear partitions of more rows are not modelled, even
  partitions have no such limit.
* **GenerateParse** chooses each argument when the code first reads it, from the
  set of the input at hand, so that no parse is enumerated twice.  `state.node` is
  the parse function to run next.  A test the code makes is made in the model; a
  read past the last argument sets `overrun`, and a spec written over one of a
  valid database sets `clobbered`.  Of the two functions the code has for a qualifier,
  one in a column and one in a JOIN, `state.join.on` selects the one entered.  An
  argument is one of `Arguments`, a numeral any token with a value (`Numerals`).
* **RandomSpec** takes the widths of the integer types as parameters (`Half` is half
  the number of values of a type): the code tells 32 from 64 bits and nothing in it
  depends on the numbers 32 and 64.
* **FileSystem** lets a call fail because of the state (a directory that exists, a
  file that is not there) or by one of `MaxFaults` faults.  A file is `open`, `cut`
  or `whole`, and remembers which task created it.
* **GenerateFiles** abstracts the pool of `ThreadPool` to `alive` or `dead`, the
  stages to those that touch files, and the threads to the tasks they run; a worker
  of a dead pool is cancelled at any call or goes on to its next one.  Memory that
  nobody has set and that the code jumps through (`table->fail_cl`) is a crash; so
  a task of a column or table that fails goes another way here than in `ThreadPool`,
  whose `TaskFails` is that of the loaders and the counter.  A worker cancelled in
  `open` has its handler in place, and unlinks the path.  When the last reload fails
  the tables may be at work already, and main passes them over in its removal.
* **ExecuteMode**'s server is modelled from the code's use of it: a script creates
  a database that must be new, then creates and loads one table after another; a
  connection with unread results refuses a query.  The muffled unlock after a failed
  query is part of the query's step; muffled calls whose own failure the code ignores
  are not given one.
* An operator introduced as "a slip for comparison" is a wrong version of the
  definition that follows it.  Nothing uses it; put in that definition's place
  it makes the property named in `PROJECT.json` fail.

## Runs

| Run | Configuration | Shows |
|---|---|---|
| `task_queue` | 2 queues, 2 stores, 3 nodes, symmetric | types; pointers that agree with the sequences the callers built, over all sequences of operations |
| `pool` | 3 workers, 2 stages of 2 tasks, nothing fails | `ThreadPool` implements `StagedRun` with its fairness; no lost wakeup; main gets to the end |
| `pool_failures` | 2 workers, 2 stages of 2 tasks, every failure allowed | a task runs once; success is never reported after a failure; a failure is not overwritten by a stop, and reaches the status or ends the process |
| `failure_hang` | as before, one task may fail | violation: main may wait forever after a failure |
| `counter` | `upto` up to 201 around each change of magnitude, 2 workers, 2 columns, 1 other task, the counter may fail | nobody uses the counter before its arrays are whole; the strings abut, spell their numbers and fill the allocation; the stage always ends |
| `columns` | all 39 builders, up to 12 rows (6 where every width is tried), all group counts and kinds, all row-block sizes that 52 rows allow; time columns from the seconds around midnight of every day from 1971 to 2037, every tenth second of one day and the last seconds of a TIMESTAMP, five values each | exact partitions; every row has its value; every row block its rows; no cell beyond the allocation; the lengths added are the bytes written; the next time is the next second, but for the dates named; every time exists and is later |
| `table_build` | 80 inputs: 1 or 2 databases, 1 to 3 columns, up to 11 rows, joins, empty strings | arrays fit the allocation; rowspans lead to the right cells; row blocks fill every file exactly and in order |
| `column_specs` | up to 18 arguments, from one set of tokens for each part of the grammar; and types of 2, 3 and 5 bits, every RAND_SPEC and every draw | specs fit their allocation and stay; only arguments that exist are read or quoted; the counter, generators, totals and lengths are those of the columns that will be built; parsing goes on to the end; random values are in the requested interval, each as likely as the others, in cells and types that hold them |
| `modes` | three runs of 26 command lines, one fault | generate never damages earlier files, and a success leaves complete ones; execute's status is right; its log is readable; remove removes what it was asked to and nothing else |
| `generated_deleted` | one run, one fault | violation: files stay behind after a failure |
| `time_steps` | the columns of `columns`, times of one day | violation: a unique time column repeats a value where a row block begins |
| `time_start` | as before | violation: the first value is not the time that was fetched |

Why the bounds are enough: a queue of three nodes has a first, a middle and a
last one, so every branch of remove, pop and push happens, and two queues and two
stores give every transfer.  Three workers and two tasks a stage leave a worker
idle at every reload, which is where a wakeup could be lost.  201 crosses two
changes of magnitude and has carries over one and two digits; the tables
for the higher magnitudes follow the same scheme.  With 12 rows the boundaries of
groups and row blocks coincide, alternate and nest, and 11 rows in four-worker
blocks have a partial first block and cells of two widths.  Columns as long as the
crew are what it takes to block the counter.  Random columns are checked with
every value of their (small) types, so with every boundary.  18 arguments hold two
databases, or a database of two tables, or one of three columns, each after and
before a wrong one; the sets of tokens are small so that every order of them is
tried.  Midnights and the seconds after them are where the increment has branches,
and one day in ten-second steps passes every minute and hour.  Two databases, one
with two tables, give two loaders and two executors at work at once, two DB_SPECs
of one name and two tables of one name the conflicts; three runs are
enough for files of an earlier run to be loaded, removed and generated again, and
one fault is placed at every call of every run.  A log of five pieces
holds its header, one message and part of another.

Fairness: in `ThreadPool` weak fairness of each worker, of the supervisor and of
main.  It says that the scheduler runs every thread that can run, and that a task
comes to an end; the code has no other loop that could hold a thread.  Spurious
wakeups are not fair.  `CounterAwait` and `CounterBuild` have strong fairness of each
worker, because a POSIX mutex that is free again and again is eventually granted and
because a cancelled thread that waits again and again dies there; weak fairness of
the filling of the arrays and of the supervisor's clearing of the backlog.  The
other modules state safety only: a parse or a removal loop ends with its input, and
`Terminates` covers the pool that execute mode shares.

`MCTimeColumn` starts with any column at one time, or with one column of five rows at
any time.  The two do not depend on each other further than `TimeColumn` says: the
loop decides when the string moves on and never looks at it.  `MCColumnSpecs` likewise
has no state in which both of its halves matter: the parser and the random columns
share definitions and no variable, and a behaviour is one of either.

The `columns` run gives row blocks every size that tables of up to 52 rows give
them, so that a column of 12 rows meets sizes below, at and above its own.

Deadlock is checked in every run; what is over stutters explicitly, and so does a
random column with a span of zero, which ends the program by a division
(`MCColumnSpecs!Divides`).

Refinement: `ThreadPool!ImplementsStagedRun` instantiates `StagedRun` with the stage,
the finished tasks and the status that main sees.  Its safety part is proved
(`PoolImplementsStages`), its fairness model-checked.

## Violations

They are stated as properties the code's own words promise.

* `failure_hang`.  `supervisor_do_exit_failure` clears `backlog` and `active`,
  which wakes main, and only then sets `busy` to false.  In between main finds the
  pool alive, reloads the backlog, and waits for workers that are all cancelled.
  Likewise a worker that finished its task removes its node from the cleared
  `active` queue and may leave another dead node as its head.  Clearing `busy`
  first would not be enough for the second.
* `generated_deleted`.  README.md:391 says that generated files are deleted on
  fatal errors.  `table->fail_cl`, which every failing column and table calls, is
  never set (`generate/generator.c:58`, `:108`); when `thread_pool_start` fails main
  returns without removing anything (`generate/generate.h:527`); and main removes
  files while workers it has cancelled, but not joined, still create them.
* `time_steps`.  README.md:300-302 and :311-313 promise times "1 second apart".  The
  builders without groups put a value, leave the loop at the end of the row block, and
  count up only if they stay in it (`column_timestamp.c:146`, `column_datetime.c:147`):
  the next row block begins with the value the last one ended with.  `OneSecondApart`
  is about the values' numbers; that a number more is a second more is `SecondsApart`.
* `time_start`.  The same lines promise "starting from current timestamp", and a test
  expects `timestamp_init` to keep the clock (`test/time_time_utils_test.c:65`, with a
  correction for the time at which it was written).  A year has a mean length, counted
  from an offset that fits some year (`time/time_utils.h:319`), the months' offsets
  are not those of the calendar (`:106`), and the 4th and 5th are printed as the 1st:
  `StartsNow` fails by hours in 2018, by days elsewhere.

## Known exceptions

Behaviour that a reader of the code may not expect.  The models contain it; where a
property would otherwise be false, it names the exception.

Threads and files:

* `task_queue_transfer_all` into an occupied queue leaves `last` behind; no caller
  does it, and `TaskQueue` takes it as a contract.
* `thread_pool_await` ends when the last node has left `active`; the worker pushes
  it to `complete` after that, and nothing joins the workers before
  `free(generator_alloc)`.
* `thread_log_dump_handle_cl` runs with `pool->log.lock` held, and its failure
  handler locks it again (`thread/thread_pool.h:415`).
* The comments "LIFO push" and "LIFO pop" (`thread/task_queue.h:251`, `:311`) are
  misnomers: `Linked` says that a pop takes the oldest node.
* A short write counts as a success (`system/file_utils.h:1453`), and so does a
  short read of a loader (`execute/executor.h:163`): `GeneratedComplete` and
  `LoadedOrReported` are about files written and scripts read to their end.
* The text of a server error is fetched after the connection was unlocked
  (`execute/execute.h:299`) and can be another executor's.
* `thread_try_ensure_open(&free, contents)` in `build_loader` captures NULL: a
  cancelled loader does not free its buffer.  The size of that buffer counts no
  names of columns (`generate/loader.h:9`).
* `remove -a` goes on with a NULL entry when the database directory is missing or
  unreadable (`mysql_seed_remove.h:352`): `fts_read_root_fails`.
* Worker threads share the global random generators without a lock.

Command line:

* A default string with groups in a JOIN counts rows, while the counter and the
  declared length are those of its groups (`mysql_seed_generate.h:5808`):
  `ColumnsProvided` and `JoinDeclared` exempt it.
* A range whose MAX is less than its MIN ends the parsing (`:1197`):
  `ParsedToTheEnd`.  `generate_parse_error` skips a "-d" that is itself the
  offending argument.
* The number of arguments quoted in a message is not bounded as its buffer assumes.
* A fixed string is declared one character longer than it is.

Random columns (`RandomColumn` names them `WideRange`, `ZeroSpan`, `NarrowUpto`):

* a range of exactly 2^32 (2^64) values ignores MIN;
* a wide range of an unsigned column tests its span the wrong way round
  (`mysql_seed_generate.h:3650`, `:4038`);
* groups of an integer column from the least value of a width have a span of zero
  and divide by it (`:8131`);
* the threshold of a narrow integer upto does not fit its span (`:3437`): values are
  in range but not equally likely.

Groups and time:

* Linear partitions need not increase (`README.md:233` says "linearly increasing");
  `ExactPartition` asks for evenness of the even one only.
* The random builders with groups put one value ahead of the cells, for which
  nothing is allocated: `WithinAllocation` is about the cells.
* Unique timestamps and datetimes without groups repeat a value where a row block
  begins (Violations, `time_steps`): of these two builders `RowsInPlace` speaks inside
  a row block only.
* The increment skips a day at the end of an 8th, 18th and 28th, and follows October
  30th by December 1st and October 31st by the next year
  (`time/time_string.h:471-541`, `:698-768`): `SecondsApart` leaves out these seconds,
  `Ascending` does not.
* The first value is hours to days off (Violations, `time_start`).  A day 32, which the
  conversion can give, is printed as 01 like the 4th and 5th.

## Proofs

The proofs hold for every value of the constants that satisfies the assumptions
named in the modules; TLC evaluates those assumptions on every run.

| Theorem | States | For any |
|---|---|---|
| `TaskQueue_proofs!TypesHold` | `Spec => []TypeOK` | nodes, queues, stores, lengths of arrays (`NullAssumption`, `ListsAssumption`) |
| `PointersAgree` | `Spec => []Linked` | |
| `ThreadPool_proofs!TasksRunOnce` | `Spec => []RunOnce` | workers, stages, tasks, faults (`PoolAssumption`) |
| `WakeupsSuffice` | `Spec => []NoLostWakeup` | |
| `SuccessMeansAllDone` | `Spec => []SuccessIsComplete` | |
| `FailureIsRead` | `Spec => FailureNotOverwritten` (an action property) | |
| `PoolImplementsStages` | `NoFaults /\ Spec => Staged!Spec` | as above, nothing fails |
| `Columns_proofs!NobodyEarly` | no column uses the counter before it is built | crew, columns, order of the first stage (`AwaitAssumption`) |
| `ReadyMeansWhole` | `WholeWhenUsed` of the composition | and every `upto` (`UptosAssumption`) |
| `CounterIsContiguous` | `PointersAbut` | every `upto` from 1 to 99999999 |
| `CounterSpellsNumbers` | `StringsInPlace` | |
| `PartitionsExact` | `ColumnSpec => []ExactPartition` | rows up to 99999999 (linear: up to `LinearRowsMax`), groups (`MaxRowsAssumption`, `WidthAssumption`) |
| `EveryRowInPlace` | `ColumnSpec => []RowsInPlace` | and row blocks, all 39 builders (the two unique time builders without groups inside a row block) |
| `CellsWithinAllocation` | `ColumnSpec => []WithinAllocation` | and widths of values |
| `EveryLengthAdded` | `ColumnSpec => []LengthsAdded` | |
| `MysqlSeed_proofs!FilesOfEarlierRunsKept` | `Spec => []OldFilesKept` | command lines, runs, faults (`RunsAssumption`) |
| `SuccessIsWhole` | `Spec => []GeneratedComplete` | |
| `RemovesExactlyTheNamed` | `Spec => []RemovedExactly` | |
| `LogStaysReadable` | `Spec => []LogReadable` | and sizes of the log (`LogAssumption`) |
| `WhatIsReportedIsLoaded` | `Spec => []LoadedOrReported` | |
| `ColumnSpecs_proofs!RandomValuesInRange` | `Spec => []InRequestedRange` | widths of the integer types (`WidthsAssumption`), RAND_SPECs, draws |
| `RandomValuesUnbiased` | `Spec => []Unbiased` | |
| `RandomCellsFit` | `Spec => []CellFits` | |
| `ReadArgumentsExist` | `ParseSpec => []ArgsExist` | arguments, in any number (`InputsAssumption`, `NumeralsAssumption`), limits on rows and lengths (`LengthAssumption`) |
| `EveryArgumentParsed` | `ParseSpec => []ParsedToTheEnd` | |
| `JoinsDeclared` | `ParseSpec => []JoinDeclared` | |
| `EveryColumnProvided` | `ParseSpec => []ColumnsProvided` | |
| `TotalsMatch` | `ParseSpec => []CountersMatch` | |
| `SpecsInAllocation` | `ParseSpec => []SpecsFit` | and sizes of the three structs (`SizeAssumption`) |
| `TableBuild_proofs!ArraysAreLargeEnough` | `Spec => []LayoutFits` | databases, tables, columns, rows (`InputsAssumption`), workers (`WorkersAssumption`) |
| `CellPointersStayInColumn` | `Spec => []CellsExist` | |
| `RowsAreAligned` | `Spec => []RowsAligned` | |
| `RowBlocksTileTheFile` | `Spec => []BlocksTile` | |

No property is inductive as it stands.  What each invariant adds, and why:

**Task queues.**  `IInv` adds `OwnedOnce` to the two properties: no node is in two lists,
or twice in one, which the guards of the client ensure.  `Linked` needs it, because an operation that writes `next` and `prev` of one list must not
touch a node of another; `OwnedOnce` needs `Linked`, because what pop removes is
`head`, which must be the first of `contents`.  `TaskList_proofs` has a lemma
for each operation about one sequence and its pointers (append, tail, remove at an
index, an array linked from scratch), which says that `Spans` holds of the result,
and a frame lemma for lists that share no node with it.  The pool's proofs use the
same lemmas.

**Thread pool.**  There are two regimes.  While no queue has been cleared, `HandedInv`
says that the active list spells out exactly the nodes in the workers' hands, that the
backlog gives out the tasks of a stage in the order of their array, and that earlier
stages are finished: that is why two empty queues are a barrier.  `SuccessInv` follows
the news of success from main's event through the supervisor's status to main's
result.  Once `supervisor_do_exit_failure` clears a queue under running workers, the
active list spells out nothing.  `OnceInv` holds in both regimes: no pointer leads from
a node that some worker had in its hands to one that none has had, so what a worker
takes from the backlog is never a task already run.  `WakeInv` says that a worker that
is gone was cancelled or had failed.  `NormalInv` gives the course of a run without
faults, which the refinement needs: the supervisor hears nothing before main stops the
pool, and tasks at work belong to the current stage.  Each action is then shown to be
a step of `StagedRun` or a stutter.

**Counter.**  `AwaitInv` adds `ReadyMeansBuilt`: `ready` is set only by a worker past the
filling of the arrays, and only then.  The lock is not needed for this: the first look
in `counter_await` is made without it.  That read is a data race in C, since `ready` is
a plain `bool`.  The model lets it return the old or the new value and takes the stores
of `build_counter` to become visible in order, which x86 guarantees and a weaker memory
model would not.  `FillInv` says which pointers the nested loops have set, that each is
at the sum of the sizes of the strings before it, and that the buffer holds the digits
of the number it is copied for; the size tables of `counter.h` are shown to be those
sums for each of the eight magnitudes.

**Modes.**  `KeptInv` is about when a path is set: the paths of a loader and its tables
are set only after `mkdir` has made their directory, so what main removes by them is
new, and a task unlinks a file only in a directory this run has made, or after `O_EXCL`
has created it.  `CompleteInv` adds
that while the pool is alive nothing has failed and nobody removes anything.
`RemoveInv` says what the traversal has left behind.  `LogInv` follows the pieces of a
message through the lock and the room that is left.  `LoadInv` says what the server
holds at each point of an executor's script (`LoadedSoFar`), and that a run in which
nothing went wrong so far will report none (`Smooth`).

**Columns.**  The properties are about finished columns, so `ColumnInv` says where the
loops are in the middle.  `PlaceInv` says that the cells written and `remCells` reach
the end of the current row block; `GroupsInv` that the cells written and `remGroup`
reach the end of the current group; `EachInv` does the same for columns without
groups.  That both hold at once is what the loops have to get right: neither boundary
may move without the other's remainder.  `TotalsInv` says which row blocks have their
length and when the table has.  `PartitionInv` is about the partitioners: quotient and
remainder give `ExactPartition` of even partitions; for linear ones the truncated line
sums to `rows` at most, since its exact sum is below that, so `under` is not negative
and no group is empty.  `CellsWithinAllocation` compares the sum of the widths with the
allocation, number by number where a count is part of the value.

**Random columns.**  `AsSet` says that the column stays as it was set, `RangeInv` and
`FitInv` add what its cells hold.  The proofs are about the arithmetic of thresholds,
spans and offsets, which wraps only where a negative number is meant.  For `Unbiased`
the accepted draws are a whole number of spans, and the draws of one value are as many
as those spans, by a bijection with their numbers.  For `CellFits` the branches of
`uint_digit_count` are shown to count digits.  Widths are given by `Half`, half the
number of values of a type, so no power of two has to be reasoned about.

**Parser.**  Each of its functions is first reduced to what it leaves alone and which
functions it may enter (`ReadCases`, `CloseCases`): the proofs after that are about
some dozen cases and not about 80 functions.  `Parsed` then is the type of
the state (`Shape`, `WellTyped`) and `Place`: how many arguments since the DATABASE
flag each function may rely on (`AtFirst`: exactly so many, with room for the rest of a
DB_SPEC; `AtLater`: at least seven).  It is what the functions that do not compare with the end
rest on, and what makes `ArgsExist` and `ParsedToTheEnd` follow.  `Provided` says of
the database at hand what `ColumnsProvided` says of the valid ones, and of a JOIN at
hand that its length so far has room for its text.  `Counts` likewise, with the column that is
counted and not yet stored (`Pending`) and the table that is stored and not yet counted
(`LastUncounted`).  `Layout`
counts the arguments behind each spec: a `ColSpec`, the largest of the structs, is
paid for by two arguments (`Space`, `Units`), a database or a table by the flags
and names that come before its first column; the current database starts behind the
last valid one (`DbPlaced`), so that a wrong DB_SPEC is written over and a valid one
never.

**Layout and tables.**  `LayoutInv` says how the lengths of the arrays grow with the part
of the input left behind (`CountInv`) and that tables, columns, row blocks and rowspans
lead to each other (`ShapeInv`).  `LayoutFits` then rests on one fact about division: the
number of row blocks of tables that have up to `r` rows together exceeds `r` divided by
the size of a row block by no more than the number of tables.  `BuildInv` says how far
each column has walked and that the rowspans behind it are at its rows.  `BytesInv` says
that every total is the sum over the columns that have added to it and every place is
that of the text of the rows before it, so that a row block that has written its rows
ends where the next one starts.

**Induction over data.**  The induction theorems of the library take an operator,
which the provers do not instantiate.  `Sizes_proofs` derives induction over the
numbers of a *set* from the theorem that well-founded relations have minimal elements,
and from it what `SumFunctionOnSet` and cardinalities do when an element is added.
That carries the sums in `Columns_proofs`, `ColumnSpecs_proofs` and
`TableBuild_proofs`.

Model-checked only:

* liveness (`Terminates`, `FailureReported`, `StageEnds`) and the fairness of
  `StagedRun`, which need ENABLED;
* `SecondsApart` and `Ascending` of `TimeString`, which are about tables of days and
  months: the run enumerates every day there is.

## Not modelled

* The wrappers in `system/` and `thread_utils.h` without a caller, formatting of
  numbers, UUIDs and hashes, word-wise copying: stateless, each tested in `test/`.
* `thread_pool_push_task`, `thread_pool_retreive`, the `_no_header` variants:
  without callers.
* The text of loaders and messages, and the size estimated for it.
* Memory as such: what is freed when, and what freed or unset memory holds.
* The WIN32 variants.
* MySQL itself and the pthread library, except as the code uses them.
* `include/mysql` and `windows/pthreads_win32` are headers of other projects.

## Plan

1. (done) task queue, pool, counter, groups, layout, tables.
2. (done) all kinds of columns; random numbers and times; the parser; files, execute
   and remove mode, and runs of the modes over one directory.
3. (done) Proofs about the pool and its refinement, the counter, the modes, random
   columns, layout and tables.
4. (done) Proofs about the parser, about columns with groups, and about fairness and
   digits of random columns.
5. The text of loaders and the estimate of its size; the messages of the parser and
   their buffer of ten arguments; linear partitions of more than `LinearRowsMax` rows.
