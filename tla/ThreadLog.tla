------------------------------ MODULE ThreadLog ------------------------------
(***************************************************************************)
(* A thread log (thread/thread_log.h): a buffer of fixed size to which     *)
(* threads append their messages, one piece after another, under its lock. *)
(* What does not fit is cut off at the end of the buffer.                  *)
(***************************************************************************)
EXTENDS Naturals, Sequences, FiniteSets

CONSTANT LOG_SIZE   \* pieces that fit into the buffer

VARIABLES
    log,       \* the pieces: whose and which
    logLock    \* the threads that have locked it, if any

logVars == <<log, logLock>>

ASSUME LogAssumption == LOG_SIZE \in Nat \ {0}

(* The holders of a lock once who has it, who waits until then; and once   *)
(* who has given it back.                                                  *)
mutex_lock(holders, who) == IF holders = {} THEN {{who}} ELSE {}
mutex_unlock(holders, who) == holders \ {who}

LogInit == log = <<>> /\ logLock = {}

thread_log_init == log' = <<[who |-> 0, piece |-> 0]>> /\ logLock' = {}

(* A slip for comparison: the lock is taken without waiting for it. *)
LockUnwaited(who) == logLock' = logLock \union {who} /\ UNCHANGED log

(* mutex_lock_muffle *)
thread_log_lock(who) == logLock' \in mutex_lock(logLock, who) /\ UNCHANGED log

thread_log_append(who, piece) ==
    /\ log' = IF Len(log) < LOG_SIZE THEN Append(log, [who |-> who, piece |-> piece]) ELSE log
    /\ UNCHANGED logLock

thread_log_unlock(who) == logLock' = mutex_unlock(logLock, who) /\ UNCHANGED log

(* The pieces of one thread lie side by side, in the order it wrote them.  *)
Whole(who) ==
    \A a, b \in DOMAIN log :
        log[a].who = who /\ log[b].who = who /\ a < b =>
            log[b].piece - log[a].piece = b - a

Mentions(who) == \E a \in DOMAIN log : log[a].who = who
=============================================================================
