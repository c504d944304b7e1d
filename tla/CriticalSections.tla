-------------------------- MODULE CriticalSections --------------------------
(***************************************************************************)
(* The small programs in which two processes or threads, here A and B,     *)
(* write to one place in turns by a lock: the semaphores of ipc_code, the  *)
(* file locks of Lecture7 and Lecture8 and the mutex of Lecture8; and the  *)
(* three that do without a lock to show what happens.  A program gives the *)
(* calls that A and B make.                                                *)
(*                                                                         *)
(* A counter, the shared memory and the end of a file are read first and   *)
(* written later ("seek", "write"): what was written in between is lost.   *)
(* A string is printed one character at a time ("put"); it has two.        *)
(***************************************************************************)
EXTENDS Integers, Sequences, FiniteSets

CONSTANTS
  Loops,   \* NLOOP, and the child's rounds in shared_memory.c
  Ten      \* the number that its parent sets

ASSUME LoopsAssumption == Loops \in Nat \ {0} /\ Ten \in Nat

Workers == {"A", "B"}
Other(w) == IF w = "A" THEN "B" ELSE "A"

Pair(lock, a, b) == [lock |-> lock, A |-> a, B |-> b]

Repeated(calls) ==
  [i \in 1..(Loops * Len(calls)) |-> calls[((i - 1) % Len(calls)) + 1]]

PrintString == <<"wait", "put", "put", "post">>

\* A is the parent, which waits for its child B.
NamedSemaphore == Pair("named", Append(PrintString, "join"), PrintString)
UnnamedSemaphore == Pair("sem_t", Append(PrintString, "join"), PrintString)

\* unnamed_semaphore/main.c initialises the semaphore again in the child, which
\* announces that, and that it destroys it twice, outside its sections (78, 87).
\* The destruction has no effect.  What the parent prints when it is alone,
\* before the fork and at its end, is left out.
Reinitialised ==
  Pair("sem_t", PrintString \o <<"join", "wait", "post">>,
       PrintString \o <<"init", "announce", "announce", "wait", "post">>)

\* Two children; their parent only waits.
ProcessSemaphoreChild == <<"wait", "seek", "write", "post">>
ProcessSemaphore == Pair("sysv", ProcessSemaphoreChild, ProcessSemaphoreChild)

MutexThread == Repeated(<<"wait", "seek", "write", "post">>)
Mutex == Pair("mutex", MutexThread, MutexThread)

\* Mutated form: the counter is read once, before the loop.
NonMutexThreadReadsOnce == <<"seek">> \o [i \in 1..Loops |-> "write"]
NonMutexThread == Repeated(<<"seek", "write">>)
NonMutex == Pair("none", NonMutexThread, NonMutexThread)

\* The child B adds one at a time to what its parent A sets.
SharedMemory == Pair("none", <<"set", "join">>, Repeated(<<"seek", "write">>))

RaceCondition == Pair("none", <<"put", "put">>, <<"put", "put">>)

\* Two runs of lockfile, of lock_unlock or of each at the same time.
\* Mutated form: it goes to the end of the file before it takes the lock.
LockFileSeeksFirst == <<"open", "seek", "wait", "write", "getchar", "post">>
LockFile == <<"open", "wait", "seek", "write", "getchar", "post">>
LockUnlock == <<"open_or_exit", "try", "look", "post">>

Programs ==
  {NamedSemaphore, UnnamedSemaphore, Reinitialised, ProcessSemaphore, Mutex,
   NonMutex, SharedMemory, RaceCondition}
    \cup {Pair("fcntl", a, b) : a, b \in {LockFile, LockUnlock}}

-----------------------------------------------------------------------------
VARIABLES
  program,    \* the program that runs
  there,      \* whether testfile.txt exists
  pc,         \* which of its calls each worker makes next
  state,      \* whether it runs, sleeps in sem_wait, or how it ended
  value,      \* the value of the semaphore; 1 if a lock is free
  nwaiters,   \* the waiters that a sem_t counts
  registered, \* whether a worker is counted as one
  holds,      \* whether it has taken the lock and not given it back
  text,       \* who wrote what is there, or Notice
  pos         \* where each worker writes

semaphore == <<value, nwaiters, registered, holds>>
content == <<text, pos>>
vars == <<program, there, pc, state, semaphore, content>>

\* sem_open keeps the value of a semaphore that an earlier run left behind.
Init ==
  /\ program \in Programs
  /\ there \in (IF program.lock = "fcntl" THEN BOOLEAN ELSE {TRUE})
  /\ pc = [w \in Workers |-> 1]
  /\ state = [w \in Workers |-> "running"]
  /\ value \in (IF program.lock = "named" THEN {0, 1} ELSE {1})
  /\ nwaiters = 0
  /\ registered = [w \in Workers |-> FALSE]
  /\ holds = [w \in Workers |-> FALSE]
  /\ text = <<>>
  /\ pos = [w \in Workers |-> 0]

IsSemT == program.lock \in {"named", "sem_t"}
AreThreads == program \in {Mutex, NonMutex}
Ended(w) == state[w] \in {"exited", "killed"}

At(w, call) == pc[w] \in DOMAIN program[w] /\ program[w][pc[w]] = call
Calls(w, call) == state[w] = "running" /\ At(w, call)

Return(w) == pc' = [pc EXCEPT ![w] = @ + 1] /\ UNCHANGED <<program, there>>

-----------------------------------------------------------------------------
(* The lock.  sem_wait of a sem_t that is 0 counts itself in nwaiters and  *)
(* sleeps; sem_post wakes a sleeper only if nwaiters is not 0.             *)

Takes(w) ==
  /\ value > 0
  /\ value' = value - 1
  /\ holds' = [holds EXCEPT ![w] = TRUE]
  /\ nwaiters' = IF registered[w] THEN nwaiters - 1 ELSE nwaiters
  /\ registered' = [registered EXCEPT ![w] = FALSE]

\* lockfile goes on without a lock, and without a file, if open failed.
Wait(w) ==
  /\ Calls(w, "wait")
  /\ IF there THEN Takes(w) ELSE UNCHANGED semaphore
  /\ Return(w)
  /\ UNCHANGED <<state, content>>

Sleep(w) ==
  /\ IsSemT /\ Calls(w, "wait") /\ value = 0
  /\ state' = [state EXCEPT ![w] = "asleep"]
  /\ nwaiters' = IF registered[w] THEN nwaiters ELSE nwaiters + 1
  /\ registered' = [registered EXCEPT ![w] = TRUE]
  /\ UNCHANGED <<program, there, pc, value, holds, content>>

Gives(w) ==
  /\ value' = value + 1
  /\ holds' = [holds EXCEPT ![w] = FALSE]

Wakes ==
  state' = [w \in Workers |->
              IF state[w] = "asleep" /\ nwaiters # 0 THEN "running" ELSE state[w]]

\* Mutated form: the lock is given back and nobody woken.
PostWakesNone(w) ==
  /\ Calls(w, "post")
  /\ IF there THEN Gives(w) ELSE UNCHANGED <<value, holds>>
  /\ Return(w)
  /\ UNCHANGED <<state, nwaiters, registered, content>>

Post(w) ==
  /\ Calls(w, "post")
  /\ IF there THEN Gives(w) ELSE UNCHANGED <<value, holds>>
  /\ Wakes
  /\ Return(w)
  /\ UNCHANGED <<nwaiters, registered, content>>

\* sem_init, whoever uses the semaphore.
Reinit(w) ==
  /\ Calls(w, "init")
  /\ value' = 1 /\ nwaiters' = 0
  /\ Return(w)
  /\ UNCHANGED <<state, registered, holds, content>>

\* F_SETLK does not wait: when the bytes are locked the program exits.
Try(w) ==
  /\ Calls(w, "try")
  /\ \/ Takes(w) /\ Return(w) /\ UNCHANGED state
     \/ /\ value = 0
        /\ state' = [state EXCEPT ![w] = "exited"]
        /\ UNCHANGED <<program, there, pc, semaphore>>
  /\ UNCHANGED content

-----------------------------------------------------------------------------
(* The section.                                                            *)

Seek(w) ==
  /\ Calls(w, "seek")
  /\ pos' = [pos EXCEPT ![w] = Len(text)]
  /\ Return(w)
  /\ UNCHANGED <<state, semaphore, text>>

\* What it writes is the end of the text, and the counter what it had read
\* plus one: that is more than is there if the other has set it back.
Written(w) ==
  [i \in 1..(pos[w] + 1) |-> IF i <= pos[w] /\ i <= Len(text) THEN text[i] ELSE w]

Write(w) ==
  /\ Calls(w, "write")
  /\ text' = IF there THEN Written(w) ELSE text
  /\ Return(w)
  /\ UNCHANGED <<state, semaphore, pos>>

Set(w) ==
  /\ Calls(w, "set")
  /\ text' = [i \in 1..Ten |-> w]
  /\ Return(w)
  /\ UNCHANGED <<state, semaphore, pos>>

Put(w) ==
  /\ Calls(w, "put")
  /\ text' = Append(text, w)
  /\ Return(w)
  /\ UNCHANGED <<state, semaphore, pos>>

\* printf, without the lock and, since charatatime, without a buffer
Notice == "notice"

Announce(w) ==
  /\ Calls(w, "announce")
  /\ text' = Append(text, Notice)
  /\ Return(w)
  /\ UNCHANGED <<state, semaphore, pos>>

Look(w) ==
  /\ Calls(w, "look")
  /\ Return(w)
  /\ UNCHANGED <<state, semaphore, content>>

-----------------------------------------------------------------------------
(* lockfile does not look at what open returned.                           *)
Open(w) ==
  /\ Calls(w, "open") \/ (Calls(w, "open_or_exit") /\ there)
  /\ Return(w)
  /\ UNCHANGED <<state, semaphore, content>>

Ends(w, how) ==
  /\ state' = [state EXCEPT ![w] = how]
  /\ UNCHANGED <<program, there, pc, content>>

OpenFails(w) ==
  /\ Calls(w, "open_or_exit") /\ ~there
  /\ Ends(w, "exited")
  /\ UNCHANGED semaphore

Enter(w) ==
  /\ Calls(w, "getchar")
  /\ Return(w)
  /\ UNCHANGED <<state, semaphore, content>>

Join(w) ==
  /\ Calls(w, "join") /\ Ended(Other(w))
  /\ Return(w)
  /\ UNCHANGED <<state, semaphore, content>>

Exit(w) ==
  /\ state[w] = "running" /\ pc[w] > Len(program[w])
  /\ Ends(w, "exited")
  /\ UNCHANGED semaphore

\* A signal ends a process: the kernel gives back a file lock and, because of
\* SEM_UNDO, a System V semaphore, but knows nothing of a sem_t.
Kill(w) ==
  /\ ~AreThreads /\ ~Ended(w)
  /\ Ends(w, "killed")
  /\ IF holds[w] /\ ~IsSemT
     THEN Gives(w) /\ UNCHANGED <<nwaiters, registered>>
     ELSE UNCHANGED semaphore

-----------------------------------------------------------------------------
Step(w) ==
  \/ Open(w) \/ OpenFails(w) \/ Wait(w) \/ Sleep(w) \/ Try(w) \/ Post(w)
  \/ Reinit(w) \/ Seek(w) \/ Write(w) \/ Set(w) \/ Put(w) \/ Announce(w) \/ Look(w)
  \/ Join(w) \/ Exit(w)

Next == \E w \in Workers : Step(w) \/ Enter(w) \/ Kill(w)

Spec == Init /\ [][Next]_vars

\* Both workers are scheduled; the user may stay away.
FairSpec == Spec /\ \A w \in Workers : WF_vars(Step(w))

-----------------------------------------------------------------------------
\* How many of its calls a worker has made, of those that write.
Writes == {"write", "put"}
Made(w) ==
  Cardinality({k \in 1..(pc[w] - 1) : program[w][k] \in Writes \cup {"announce"}})

\* Nobody's text is inside the string of the other, but for what the child of
\* Reinitialised announces in that of its parent.
Unbroken ==
  \A i, j, k \in DOMAIN text :
    i < j /\ j < k /\ text[i] = text[k] /\ text[i] \in Workers =>
      text[j] = text[i] \/ (text[i] = "A" /\ text[j] = Notice)

(* Under a lock A and B are never inside at once, nothing that either      *)
(* wrote is overwritten by the other, and no string is printed into the    *)
(* other's.  The second sem_init lets both in, but only when both strings  *)
(* are through or the parent is alone with its own; what its child prints  *)
(* without the lock, and that only, can come into the parent's.            *)
SectionsKept ==
  program.lock # "none" /\ there =>
    /\ program # Reinitialised => ~(holds["A"] /\ holds["B"])
    /\ Len(text) = Made("A") + Made("B")
    /\ program # Mutex => Unbroken

(* Without the mutex the counter may fall far short of the increments, but *)
(* when both threads are done it is 2 at least: the last to finish read it *)
(* after it had written it, or after the other had.  The number in shared  *)
(* memory is the child's rounds if it had read it before its parent set    *)
(* it, and otherwise ten and the rounds that came after.                   *)
UnlockedCounts ==
  (\A w \in Workers : state[w] = "exited") =>
    /\ program = NonMutex /\ Loops > 1 => Len(text) \in 2..(2 * Loops)
    /\ program = SharedMemory => Len(text) \in {Loops} \cup Ten..(Ten + Loops)

\* A semaphore of a killed process, of this or of an earlier run; a sleeper
\* that nwaiters does not count any more, and who waits for it; the user.
LeftTaken == IsSemT /\ value = 0 /\ \A w \in Workers : holds[w] => Ended(w)
NotWoken ==
  program = Reinitialised /\ value > 0 /\ \E w \in Workers : state[w] = "asleep"
AwaitsEnter == \E w \in Workers : Calls(w, "getchar")

(* Both programs end, unless a semaphore was left taken, a sleeper is not  *)
(* woken, or the user does not hit Enter.                                  *)
WorkersEnd ==
  \/ <>[](\A w \in Workers : Ended(w))
  \/ <>[](LeftTaken \/ NotWoken \/ AwaitsEnter)

=============================================================================
