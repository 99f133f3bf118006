----------------------------- MODULE FileSystem -----------------------------
(***************************************************************************)
(* The database directory as the three modes of the program share it, and  *)
(* the wrappers of the system calls that change it (system/file_utils.h).  *)
(* A call's outcome is a parameter: it fails for the reason the state      *)
(* gives, or by one of MaxFaults faults.                                   *)
(***************************************************************************)
EXTENDS Naturals, Sequences, FiniteSets, Functions, TLC

CONSTANTS
    MaxFaults,   \* bound on the faults of all runs of the program together
    MaxRuns      \* bound on the runs of the program

VARIABLES
    dirs,     \* the names of the database directories
    files,    \* <<directory, name>> -> [state, by, tables]: "open", "cut", "whole";
              \* by is the task that created it, tables what a loader loads
    faults,
    mode,     \* the mode flag of the current run
    arg,      \* its remaining arguments
    exit,     \* "none" while the run goes on, else how it ended
    start     \* dirs and files when it began

fsVars == <<dirs, files, faults>>
runVars == <<mode, arg, exit, start>>

LOADER == "load"

In(d) == {p \in DOMAIN files : p[1] = d}
Running(m) == mode = m /\ exit = "none"

Fault == faults < MaxFaults /\ faults' = faults + 1
NoFault == UNCHANGED faults

(* A call that may fail, whatever the state, without any other effect. *)
Call(ok) == IF ok THEN NoFault ELSE Fault

mkdir(d, ok) ==
    /\ UNCHANGED files
    /\ IF ok THEN d \notin dirs /\ dirs' = dirs \union {d} /\ NoFault
       ELSE UNCHANGED dirs /\ (IF d \in dirs THEN NoFault ELSE Fault)

(* O_EXCL | O_CREAT | O_WRONLY *)
open(p, by, tables, ok) ==
    LET can == p[1] \in dirs /\ p \notin DOMAIN files
    IN  /\ UNCHANGED dirs
        /\ IF ok THEN /\ can /\ NoFault
                      /\ files' = [q \in DOMAIN files \union {p} |->
                                    IF q = p THEN [state |-> "open", by |-> by, tables |-> tables]
                                    ELSE files[q]]
           ELSE UNCHANGED files /\ (IF can THEN Fault ELSE NoFault)

(* A write that is cut short counts as a success.  The file may have been  *)
(* unlinked, and another created in its place, since it was opened.        *)
write(p, by, how) ==
    /\ UNCHANGED dirs
    /\ IF how = "whole" THEN NoFault ELSE Fault
    /\ files' = IF how # "error" /\ p \in DOMAIN files /\ files[p].by = by
                THEN [files EXCEPT ![p].state = how] ELSE files

(* O_RDONLY *)
open_read(p, ok) ==
    /\ UNCHANGED <<dirs, files>>
    /\ IF ok THEN p \in DOMAIN files /\ NoFault
       ELSE IF p \in DOMAIN files THEN Fault ELSE NoFault

fstat(ok) == Call(ok) /\ UNCHANGED <<dirs, files>>

(* One read of the whole file; that it returned less counts as a success. *)
read_size(how) == Call(how = "whole") /\ UNCHANGED <<dirs, files>>

chdir(ok) == Call(ok) /\ UNCHANGED <<dirs, files>>

close(ok) == Call(ok) /\ UNCHANGED <<dirs, files>>

unlink(p, ok) ==
    /\ UNCHANGED dirs
    /\ IF ok THEN p \in DOMAIN files /\ files' = Restrict(files, DOMAIN files \ {p}) /\ NoFault
       ELSE UNCHANGED files /\ (IF p \in DOMAIN files THEN Fault ELSE NoFault)

rmdir(d, ok) ==
    LET can == d \in dirs /\ In(d) = {}
    IN  /\ UNCHANGED files
        /\ IF ok THEN can /\ dirs' = dirs \ {d} /\ NoFault
           ELSE UNCHANGED dirs /\ (IF can THEN Fault ELSE NoFault)

(* The attributes of the detached threads to come are set up, and freed. *)
thread_utils_constructor(ok) == Call(ok) /\ UNCHANGED <<dirs, files>>
thread_utils_destructor(ok) == Call(ok) /\ UNCHANGED <<dirs, files>>

(* main returns, or the process dies. *)
Exit(how) == exit' = how /\ UNCHANGED <<mode, arg, start>>
=============================================================================
