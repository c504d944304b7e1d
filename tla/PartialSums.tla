----------------------------- MODULE PartialSums -----------------------------
(***************************************************************************)
(* Homework1 and Homework2 split the numbers 1..n into ranges, one for     *)
(* each process or thread.  The processes of Homework1 send what they add  *)
(* up through a pipe (module Channels); the threads of Homework2 add the   *)
(* squares to totalSum one by one, under totalSum_mutex.                   *)
(*                                                                         *)
(* totalSum is modelled by how often the square of each number is in it.   *)
(* It is read and written in two steps.                                    *)
(***************************************************************************)
EXTENDS Integers

CONSTANTS
  N,           \* n
  NumThreads   \* numThreads, and numProcesses

Threads == 0..(NumThreads - 1)
NoThread == -1
Numbers == 1..N

From(i) == (i * N) \div NumThreads + 1
\* Mutated form: n is divided before it is multiplied.
ToDividesFirst(i) == (i + 1) * (N \div NumThreads)
To(i) == ((i + 1) * N) \div NumThreads

VARIABLES
  thisBounds,       \* the array in main, with 0 where it is not set
  totalSum_mutex,   \* its holder, or NoThread
  totalSum,
  pc,               \* the statement of each thread
  myBounds,
  i,                \* the loop variable of each thread
  loaded,           \* the value of totalSum that it adds to
  main              \* main's statement, its i and the sum it reported

locals == <<myBounds, i, loaded>>
vars == <<thisBounds, totalSum_mutex, totalSum, pc, locals, main>>

Unset == [from |-> 0, to |-> 0]
NoSum == [k \in Numbers |-> 0]

Init ==
  /\ thisBounds = [t \in Threads |-> Unset]
  /\ totalSum_mutex = NoThread
  /\ totalSum = NoSum
  /\ pc = [t \in Threads |-> "absent"]
  /\ myBounds = [t \in Threads |-> Unset]
  /\ i = [t \in Threads |-> 0]
  /\ loaded = [t \in Threads |-> NoSum]
  /\ main = [at |-> "set", i |-> 0, sum |-> NoSum]

-----------------------------------------------------------------------------
(* computePartialSum *)

\* While main runs; when it returns the process ends, with the threads in it.
Goto(t, from, to) ==
  /\ main.at \notin {"ended", "crashed"}
  /\ pc[t] = from
  /\ pc' = [pc EXCEPT ![t] = to]

Copy(t) ==
  /\ Goto(t, "copy", "loop")
  /\ myBounds' = [myBounds EXCEPT ![t] = thisBounds[t]]
  /\ i' = [i EXCEPT ![t] = thisBounds[t].from]
  /\ UNCHANGED <<thisBounds, totalSum_mutex, totalSum, loaded, main>>

Lock(t) ==
  /\ i[t] <= myBounds[t].to
  /\ Goto(t, "loop", "load")
  /\ totalSum_mutex = NoThread
  /\ totalSum_mutex' = t
  /\ UNCHANGED <<thisBounds, totalSum, locals, main>>

Load(t) ==
  /\ Goto(t, "load", "store")
  /\ loaded' = [loaded EXCEPT ![t] = totalSum]
  /\ UNCHANGED <<thisBounds, totalSum_mutex, totalSum, myBounds, i, main>>

Store(t) ==
  /\ Goto(t, "store", "unlock")
  /\ totalSum' = [loaded[t] EXCEPT ![i[t]] = @ + 1]
  /\ UNCHANGED <<thisBounds, totalSum_mutex, locals, main>>

Unlock(t) ==
  /\ Goto(t, "unlock", "loop")
  /\ totalSum_mutex' = NoThread
  /\ i' = [i EXCEPT ![t] = @ + 1]
  /\ UNCHANGED <<thisBounds, totalSum, myBounds, loaded, main>>

Return(t) ==
  /\ i[t] > myBounds[t].to
  /\ Goto(t, "loop", "returned")
  /\ UNCHANGED <<thisBounds, totalSum_mutex, totalSum, locals, main>>

Thread(t) == Copy(t) \/ Lock(t) \/ Load(t) \/ Store(t) \/ Unlock(t) \/ Return(t)

-----------------------------------------------------------------------------
(* main *)

SetBounds ==
  /\ main.at = "set" /\ main.i \in Threads
  /\ thisBounds' = [thisBounds EXCEPT ![main.i] = [from |-> From(main.i), to |-> To(main.i)]]
  /\ main' = [main EXCEPT !.at = "create"]
  /\ UNCHANGED <<totalSum_mutex, totalSum, pc, locals>>

Create ==
  /\ main.at = "create"
  /\ pc' = [pc EXCEPT ![main.i] = "copy"]
  /\ main' = [main EXCEPT !.at = "set", !.i = @ + 1]
  /\ UNCHANGED <<thisBounds, totalSum_mutex, totalSum, locals>>

\* The error of pthread_create is positive: the test for < 0 does not see it.
CreateFails ==
  /\ main.at = "create"
  /\ main' = [main EXCEPT !.at = "set", !.i = @ + 1]
  /\ UNCHANGED <<thisBounds, totalSum_mutex, totalSum, pc, locals>>

StartJoining ==
  /\ main.at = "set" /\ main.i = NumThreads
  /\ main' = [main EXCEPT !.at = "join", !.i = 0]
  /\ UNCHANGED <<thisBounds, totalSum_mutex, totalSum, pc, locals>>

\* Of a thread that was not created tid[i] is not set: pthread_join returns an
\* error, which the test for < 0 does not see either, or it does not survive.
Join ==
  /\ main.at = "join" /\ main.i \in Threads
  /\ pc[main.i] \in {"returned", "absent"}
  /\ main' = [main EXCEPT !.i = @ + 1]
  /\ UNCHANGED <<thisBounds, totalSum_mutex, totalSum, pc, locals>>

JoinCrashes ==
  /\ main.at = "join" /\ main.i \in Threads
  /\ pc[main.i] = "absent"
  /\ main' = [main EXCEPT !.at = "crashed"]
  /\ UNCHANGED <<thisBounds, totalSum_mutex, totalSum, pc, locals>>

Report ==
  /\ main.at = "join" /\ main.i = NumThreads
  /\ main' = [main EXCEPT !.at = "ended", !.sum = totalSum]
  /\ UNCHANGED <<thisBounds, totalSum_mutex, totalSum, pc, locals>>

Main ==
  \/ SetBounds \/ Create \/ CreateFails \/ StartJoining \/ Join \/ JoinCrashes \/ Report

Next == Main \/ \E t \in Threads : Thread(t)

Spec == Init /\ [][Next]_vars

\* Main and the threads are scheduled.  Weak fairness is enough: each thread
\* takes the mutex once for each of its numbers.
FairSpec == Spec /\ WF_vars(Main) /\ \A t \in Threads : WF_vars(Thread(t))

-----------------------------------------------------------------------------
\* The numbers of a thread that could not be created.
Missing(k) == \E t \in Threads : pc[t] = "absent" /\ k \in From(t)..To(t)

(* 58-63, 66-76: the ranges leave out no number and overlap nowhere, no    *)
(* thread writes over what another added, and main reports when all that   *)
(* were created are through: the sum has the square of each number once,   *)
(* and misses the ranges whose pthread_create failed, those and no other.  *)
EachAddedOnce ==
  main.at = "ended" => \A k \in Numbers : main.sum[k] = IF Missing(k) THEN 0 ELSE 1

(* Main reports a sum, unless it dies of the join of a thread that was not *)
(* created: no thread keeps the mutex from the others.                     *)
SumReported == <>(main.at \in {"ended", "crashed"})

=============================================================================
