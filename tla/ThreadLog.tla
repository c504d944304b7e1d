------------------------------ MODULE ThreadLog ------------------------------
(***************************************************************************)
(* How a thread of the thread version logs its entry (proxy.c 152-168 for  *)
(* GET, 264-280 for CONNECT): fopen in mode "a+", lock log_mutex, format   *)
(* the entry and print it to the stream, unlock, fclose.                   *)
(*                                                                         *)
(* fprintf only fills the buffer of the thread's own stream; the write of  *)
(* proxy.log happens in fclose, after the mutex is released, through a     *)
(* descriptor with O_APPEND.  What the mutex does protect is the one       *)
(* struct tm that localtime (700, 726) returns to every thread.            *)
(*                                                                         *)
(* The threads share one process.  A write to a reset connection raises    *)
(* SIGPIPE, which nothing ignores, and ends all of them with their         *)
(* buffered entries.  When accept fails, main calls exit, which flushes    *)
(* the open streams while the threads still run.                           *)
(***************************************************************************)
EXTENDS LogEntries

VARIABLES
  file,    \* contents of proxy.log
  mutex,   \* the thread that holds log_mutex, or Nobody
  pc,      \* where each thread is in lines 152-168 / 264-280
  tm,      \* the thread whose time the struct tm of localtime holds
  buf,     \* the buffer of each thread's FILE
  process  \* "running", "exiting" while main is in exit, or "dead"

vars == <<file, mutex, pc, tm, buf, process>>

AL == INSTANCE AppendLog

Nobody == Past

PCs == {"serving", "opening", "locking", "timing", "printing",
        "unlocking", "flushing", "done", "failed"}

Init ==
  /\ file \in {<<>>, OldLog}
  /\ mutex = Nobody
  /\ pc = [t \in Workers |-> "serving"]
  /\ tm = Nobody
  /\ buf = [t \in Workers |-> <<>>]
  /\ process = "running"

Goto(t, from, to) ==
  /\ process # "dead"
  /\ pc[t] = from
  /\ pc' = [pc EXCEPT ![t] = to]

\* The response has been relayed, or the tunnel has timed out.
Finish(t) ==
  /\ Goto(t, "serving", "opening")
  /\ UNCHANGED <<file, mutex, tm, buf, process>>

\* fopen("proxy.log", "a+") creates the file if need be, empty.
Fopen(t) ==
  /\ Goto(t, "opening", "locking")
  /\ UNCHANGED <<file, mutex, tm, buf, process>>

\* No descriptor left, or no permission: the thread returns with no entry.
FopenFails(t) ==
  /\ Goto(t, "opening", "failed")
  /\ UNCHANGED <<file, mutex, tm, buf, process>>

\* Mutated form: the mutex is not waited for.
LockWithoutWaiting(t) ==
  /\ Goto(t, "locking", "timing")
  /\ mutex' = IF mutex = Nobody THEN t ELSE mutex
  /\ UNCHANGED <<file, tm, buf, process>>

Lock(t) ==
  /\ mutex = Nobody
  /\ Goto(t, "locking", "timing")
  /\ mutex' = t
  /\ UNCHANGED <<file, tm, buf, process>>

\* localtime(&now) fills the static struct tm ...
Localtime(t) ==
  /\ Goto(t, "timing", "printing")
  /\ tm' = t
  /\ UNCHANGED <<file, mutex, buf, process>>

\* The entry with the time that the struct tm holds now
Formatted(t) == [Entry(t) EXCEPT ![1] = <<tm, 1>>]

\* ... from which strftime prints the time; then sprintf and fprintf.
PrintEntry(t) ==
  /\ Goto(t, "printing", "unlocking")
  /\ buf' = [buf EXCEPT ![t] = @ \o Formatted(t)]
  /\ UNCHANGED <<file, mutex, tm, process>>

\* Mutated form: the early return of a thread keeps the mutex.
ForgetUnlock(t) ==
  /\ Goto(t, "unlocking", "flushing")
  /\ UNCHANGED <<file, mutex, tm, buf, process>>

Unlock(t) ==
  /\ Goto(t, "unlocking", "flushing")
  /\ mutex' = Nobody
  /\ UNCHANGED <<file, tm, buf, process>>

\* The file after the buffer of t goes out through an O_APPEND descriptor, or
\* after that write has failed, which nobody looks at
Flushed(t) == {file \o buf[t], file}

Fclose(t) ==
  /\ Goto(t, "flushing", "done")
  /\ file' \in Flushed(t)
  /\ buf' = [buf EXCEPT ![t] = <<>>]
  /\ UNCHANGED <<mutex, tm, process>>

\* A write of some thread that is still relaying raises SIGPIPE.
Sigpipe ==
  /\ process # "dead"
  /\ process' = "dead"
  /\ UNCHANGED <<file, mutex, pc, tm, buf>>

\* main: accept failed, exit(EXIT_FAILURE).
Exit ==
  /\ process = "running"
  /\ process' = "exiting"
  /\ UNCHANGED <<file, mutex, pc, tm, buf>>

ExitFlushes(t) ==
  /\ process = "exiting" /\ buf[t] # <<>>
  /\ file' \in Flushed(t)
  /\ buf' = [buf EXCEPT ![t] = <<>>]
  /\ UNCHANGED <<mutex, pc, tm, process>>

ExitEnds ==
  /\ process = "exiting"
  /\ process' = "dead"
  /\ UNCHANGED <<file, mutex, pc, tm, buf>>

Step(t) ==
  \/ Fopen(t) \/ FopenFails(t) \/ Lock(t) \/ Localtime(t)
  \/ PrintEntry(t) \/ Unlock(t) \/ Fclose(t)

Next ==
  \/ \E t \in Workers : Finish(t) \/ Step(t) \/ ExitFlushes(t)
  \/ Sigpipe \/ Exit \/ ExitEnds

Spec == Init /\ [][Next]_vars

-----------------------------------------------------------------------------
(* Type correctness of the log file, the mutex and every thread's stream.  *)
TypeOK ==
  /\ file \in Seq(Cells)
  /\ mutex \in Workers \cup {Nobody}
  /\ pc \in [Workers -> PCs]
  /\ tm \in Workers \cup {Nobody}
  /\ buf \in [Workers -> Seq(Cells)]
  /\ process \in {"running", "exiting", "dead"}

InCritical(t) == pc[t] \in {"timing", "printing", "unlocking"}

(* Only the holder of log_mutex is between its lock (160) and its unlock   *)
(* (167).                                                                  *)
MutexHeld == \A t \in Workers : InCritical(t) <=> mutex = t

(* A stream holds nothing, or the whole entry of its own thread with its   *)
(* own time: no other thread's localtime (700) came between.  Only exit    *)
(* takes a printed entry from a thread that has not closed its stream.     *)
OwnEntryBuffered ==
  \A t \in Workers :
    IF pc[t] \in {"unlocking", "flushing"}
    THEN buf[t] = Entry(t) \/ (buf[t] = <<>> /\ process # "running")
    ELSE buf[t] = <<>>

(* Although the file is written outside the mutex (168), and by main's     *)
(* exit, entries reach it whole, at most once per thread, and nothing that *)
(* is there changes.                                                       *)
AppendsWholeEntries == AL!Spec

=============================================================================
