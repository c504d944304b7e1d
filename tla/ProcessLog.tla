----------------------------- MODULE ProcessLog -----------------------------
(***************************************************************************)
(* How a child of the process version logs its entry (proxy.c 518-541 for  *)
(* GET, 639-662 for CONNECT): open, lock the whole file with fcntl, format *)
(* the entry, seek to the end, write at that offset, unlock, close.        *)
(*                                                                         *)
(* The children are separate processes: each has its own descriptor, and   *)
(* so its own file offset; they share the file and the kernel's record of  *)
(* who holds the lock.  A child may be killed between any two calls; the   *)
(* kernel then releases its lock.                                          *)
(***************************************************************************)
EXTENDS LogEntries

VARIABLES
  file,      \* contents of proxy.log
  present,   \* proxy.log exists; this version never creates it
  lock,      \* the worker that holds the fcntl write lock, or Past
  pc,        \* where each worker is in lines 518-541 / 639-662
  offset     \* offset of the worker's own descriptor

vars == <<file, present, lock, pc, offset>>

AL == INSTANCE AppendLog

Nobody == Past

PCs == {"serving", "opening", "locking", "seeking", "writing",
        "unlocking", "closing", "done", "failed", "refused", "killed"}

Ended == {"done", "failed", "refused", "killed"}

Longer(m, n) == IF m < n THEN n ELSE m

\* write(2) at an offset: the characters from there on are replaced, and the
\* file grows if the data reaches past its end.
WriteAt(f, off, data) ==
  [i \in 1..Longer(Len(f), off + Len(data)) |->
     IF i \in (off + 1)..(off + Len(data)) THEN data[i - off] ELSE f[i]]

Init ==
  /\ present \in BOOLEAN
  /\ file = IF present THEN OldLog ELSE <<>>
  /\ lock = Nobody
  /\ pc = [w \in Workers |-> "serving"]
  /\ offset = [w \in Workers |-> 0]

Goto(w, from, to) ==
  /\ pc[w] = from
  /\ pc' = [pc EXCEPT ![w] = to]

\* The response has been relayed, or the tunnel has timed out.
Finish(w) ==
  /\ Goto(w, "serving", "opening")
  /\ UNCHANGED <<file, present, lock, offset>>

\* open("proxy.log", O_WRONLY): no O_CREAT, so a missing file is an error
\* and the child exits without an entry.
Open(w) ==
  /\ present
  /\ Goto(w, "opening", "locking")
  /\ offset' = [offset EXCEPT ![w] = 0]
  /\ UNCHANGED <<file, present, lock>>

OpenFails(w) ==
  /\ ~present
  /\ Goto(w, "opening", "failed")
  /\ UNCHANGED <<file, present, lock, offset>>

\* Any other error, no descriptor left or no permission, ends it the same way.
OpenRefused(w) ==
  /\ present
  /\ Goto(w, "opening", "refused")
  /\ UNCHANGED <<file, present, lock, offset>>

\* Mutated form: F_SETLK, whose failure nobody checks, for F_SETLKW.
LockWithoutWaiting(w) ==
  /\ Goto(w, "locking", "seeking")
  /\ lock' = IF lock = Nobody THEN w ELSE lock
  /\ UNCHANGED <<file, present, offset>>

\* fcntl(log_fd, F_SETLKW, F_WRLCK) waits until the lock is free.
Lock(w) ==
  /\ lock = Nobody
  /\ Goto(w, "locking", "seeking")
  /\ lock' = w
  /\ UNCHANGED <<file, present, offset>>

Seek(w) ==
  /\ Goto(w, "seeking", "writing")
  /\ offset' = [offset EXCEPT ![w] = Len(file)]
  /\ UNCHANGED <<file, present, lock>>

Write(w) ==
  /\ Goto(w, "writing", "unlocking")
  /\ file' = WriteAt(file, offset[w], Entry(w))
  /\ offset' = [offset EXCEPT ![w] = @ + Len(Entry(w))]
  /\ UNCHANGED <<present, lock>>

\* A full disk or an error of it: the result of write is not looked at.
WriteFails(w) ==
  /\ Goto(w, "writing", "unlocking")
  /\ UNCHANGED <<file, present, lock, offset>>

Released(w) == IF lock = w THEN Nobody ELSE lock

Unlock(w) ==
  /\ Goto(w, "unlocking", "closing")
  /\ lock' = Released(w)
  /\ UNCHANGED <<file, present, offset>>

\* close(log_fd) would drop any lock the process still had on the file.
Close(w) ==
  /\ Goto(w, "closing", "done")
  /\ lock' = Released(w)
  /\ UNCHANGED <<file, present, offset>>

\* A signal ends the child between two calls; its locks go with it.
Kill(w) ==
  /\ pc[w] \notin Ended
  /\ pc' = [pc EXCEPT ![w] = "killed"]
  /\ lock' = Released(w)
  /\ UNCHANGED <<file, present, offset>>

Step(w) ==
  \/ Open(w) \/ OpenFails(w) \/ OpenRefused(w) \/ Lock(w) \/ Seek(w)
  \/ Write(w) \/ WriteFails(w) \/ Unlock(w) \/ Close(w)

Next == \E w \in Workers : Finish(w) \/ Step(w) \/ Kill(w)

Spec == Init /\ [][Next]_vars

-----------------------------------------------------------------------------
(* Type correctness of the log file, the lock and every child's progress.  *)
TypeOK ==
  /\ file \in Seq(Cells)
  /\ present \in BOOLEAN
  /\ lock \in Workers \cup {Nobody}
  /\ pc \in [Workers -> PCs]
  /\ offset \in [Workers -> Nat]

InCritical(w) == pc[w] \in {"seeking", "writing", "unlocking"}

(* Only the holder of the fcntl lock is between F_WRLCK (530) and F_UNLCK  *)
(* (540), and no lock outlives its holder.                                 *)
LockHeld == \A w \in Workers : InCritical(w) <=> lock = w

(* A child about to write (536) is still positioned at the end of the file *)
(* it measured at 535: nothing was appended in between.                    *)
WritesAtEnd == \A w \in Workers : pc[w] = "writing" => offset[w] = Len(file)

(* The code of 518-541 appends whole entries to the file, once per child,  *)
(* and never changes what is already there.                                *)
AppendsWholeEntries == AL!Spec

=============================================================================
