------------------------------ MODULE CondQueue ------------------------------
(***************************************************************************)
(* Lecture9 cond_variable: producers append one message each to a linked   *)
(* list, a consumer takes them from its head, and both use the mutex       *)
(* qlock; the consumer sleeps on the condition variable qready while there *)
(* is nothing to take.  Main joins the producers, has a thread clear       *)
(* running, and joins the consumer.                                        *)
(*                                                                         *)
(* A message is the number of its producer, NULL is 0; of a struct msg the *)
(* link is modelled.  qready wakes only who sleeps already, and may wake   *)
(* for no reason.  The threads are created and the memory is there.        *)
(***************************************************************************)
EXTENDS Integers, Sequences

CONSTANT N   \* the messages, and their producers

Producers == 1..N
consumer == N + 1
stop == N + 2
Threads == 1..(N + 2)
NULL == 0   \* no message, and no holder of the mutex

VARIABLES
  workq,     \* the first message of the list
  next,      \* the link of each message
  freed,     \* the messages that were processed and freed
  qlock,     \* who holds the mutex, or NULL
  running,
  pc,        \* the statement of each thread
  mp,        \* the consumer's message
  last,      \* where each producer is in the list
  main,      \* main's statement
  created,   \* how many producers it has created
  sent,      \* the messages in the order in which they were linked
  taken      \* how many of them the consumer has taken

list == <<workq, next, freed>>
threads == <<pc, mp, last>>
mains == <<main, created>>
history == <<sent, taken>>
vars == <<list, qlock, running, threads, mains, history>>

Init ==
  /\ workq = NULL
  /\ next = [m \in Producers |-> NULL]
  /\ freed = {}
  /\ qlock = NULL
  /\ running = TRUE
  /\ pc = [t \in Threads |-> "absent"]
  /\ mp = NULL
  /\ last = [p \in Producers |-> NULL]
  /\ main = "consumer" /\ created = 0
  /\ sent = <<>> /\ taken = 0

\* When main returns the process ends, with the threads in it.
Goto(t, from, to) ==
  /\ main # "ended"
  /\ pc[t] = from
  /\ pc' = [pc EXCEPT ![t] = to]

\* Mutated form: the mutex is not waited for.
LockWithoutWaiting(t) ==
  /\ Goto(t, "lock", "locked")
  /\ qlock' = t
  /\ UNCHANGED <<list, running, mp, last, mains, history>>

Lock(t) ==
  /\ Goto(t, "lock", "locked")
  /\ qlock = NULL
  /\ qlock' = t
  /\ UNCHANGED <<list, running, mp, last, mains, history>>

\* pthread_cond_signal
Signalled(f) ==
  IF f[consumer] = "asleep" THEN [f EXCEPT ![consumer] = "lock"] ELSE f

-----------------------------------------------------------------------------
(* process_msg *)

\* pthread_cond_wait gives the mutex back as it falls asleep, and takes it
\* again before the condition is looked at once more.
Sleep ==
  /\ Goto(consumer, "locked", "asleep")
  /\ running /\ workq = NULL
  /\ qlock' = NULL
  /\ UNCHANGED <<list, running, mp, last, mains, history>>

SpuriousWakeup ==
  /\ Goto(consumer, "asleep", "lock")
  /\ UNCHANGED <<list, qlock, running, mp, last, mains, history>>

Leave ==
  /\ Goto(consumer, "locked", "exited")
  /\ ~running /\ workq = NULL
  /\ qlock' = NULL
  /\ UNCHANGED <<list, running, mp, last, mains, history>>

Take ==
  /\ Goto(consumer, "locked", "process")
  /\ workq # NULL
  /\ mp' = workq
  /\ workq' = next[workq]
  /\ taken' = taken + 1
  /\ qlock' = NULL
  /\ UNCHANGED <<next, freed, running, last, mains, sent>>

Process ==
  /\ Goto(consumer, "process", "lock")
  /\ freed' = freed \cup {mp}
  /\ UNCHANGED <<workq, next, qlock, running, mp, last, mains, history>>

Consumer == Lock(consumer) \/ Sleep \/ Leave \/ Take \/ Process

-----------------------------------------------------------------------------
(* enqueue_msg *)

First(p) ==
  /\ Goto(p, "locked", "linked")
  /\ workq = NULL
  /\ workq' = p
  /\ sent' = Append(sent, p)
  /\ UNCHANGED <<next, freed, qlock, running, mp, last, mains, taken>>

Walk(p) ==
  /\ Goto(p, "locked", "walk")
  /\ workq # NULL
  /\ last' = [last EXCEPT ![p] = workq]
  /\ UNCHANGED <<list, qlock, running, mp, mains, history>>

WalkOn(p) ==
  /\ Goto(p, "walk", "walk")
  /\ next[last[p]] # NULL
  /\ last' = [last EXCEPT ![p] = next[last[p]]]
  /\ UNCHANGED <<list, qlock, running, mp, mains, history>>

Link(p) ==
  /\ Goto(p, "walk", "linked")
  /\ next[last[p]] = NULL
  /\ next' = [next EXCEPT ![last[p]] = p]
  /\ sent' = Append(sent, p)
  /\ UNCHANGED <<workq, freed, qlock, running, mp, last, mains, taken>>

Signal(p) ==
  /\ main # "ended" /\ pc[p] = "linked"
  /\ pc' = [Signalled(pc) EXCEPT ![p] = "unlock"]
  /\ UNCHANGED <<list, qlock, running, mp, last, mains, history>>

Unlock(p) ==
  /\ Goto(p, "unlock", "exited")
  /\ qlock' = NULL
  /\ UNCHANGED <<list, running, mp, last, mains, history>>

Producer(p) ==
  \/ Lock(p) \/ First(p) \/ Walk(p) \/ WalkOn(p) \/ Link(p) \/ Signal(p) \/ Unlock(p)

-----------------------------------------------------------------------------
(* stop: the signal is sent after the mutex was given back. *)

ClearRunning ==
  /\ Goto(stop, "locked", "unlock")
  /\ running' = FALSE
  /\ UNCHANGED <<list, qlock, mp, last, mains, history>>

UnlockStop ==
  /\ Goto(stop, "unlock", "signal")
  /\ qlock' = NULL
  /\ UNCHANGED <<list, running, mp, last, mains, history>>

\* Mutated form: nobody is signalled.
StopInSilence ==
  /\ Goto(stop, "signal", "exited")
  /\ UNCHANGED <<list, qlock, running, mp, last, mains, history>>

SignalStop ==
  /\ main # "ended" /\ pc[stop] = "signal"
  /\ pc' = [Signalled(pc) EXCEPT ![stop] = "exited"]
  /\ UNCHANGED <<list, qlock, running, mp, last, mains, history>>

Stop == Lock(stop) \/ ClearRunning \/ UnlockStop \/ SignalStop

-----------------------------------------------------------------------------
(* main *)

Start(t) == pc[t] = "absent" /\ pc' = [pc EXCEPT ![t] = "lock"]
Exited(t) == pc[t] = "exited"

CreateConsumer ==
  /\ main = "consumer" /\ main' = "producers"
  /\ Start(consumer)
  /\ UNCHANGED <<list, qlock, running, mp, last, created, history>>

CreateProducer ==
  /\ main = "producers" /\ created < N
  /\ Start(created + 1)
  /\ created' = created + 1
  /\ UNCHANGED <<list, qlock, running, mp, last, main, history>>

\* The producers are joined, then stop is created.
CreateStop ==
  /\ main = "producers" /\ created = N
  /\ \A p \in Producers : Exited(p)
  /\ main' = "stop"
  /\ Start(stop)
  /\ UNCHANGED <<list, qlock, running, mp, last, created, history>>

End ==
  /\ main = "stop" /\ Exited(stop) /\ Exited(consumer)
  /\ main' = "ended"
  /\ UNCHANGED <<list, qlock, running, threads, created, history>>

Main == CreateConsumer \/ CreateProducer \/ CreateStop \/ End

-----------------------------------------------------------------------------
Next ==
  \/ Main \/ Consumer \/ Stop \/ SpuriousWakeup
  \/ \E p \in Producers : Producer(p)

Spec == Init /\ [][Next]_vars

\* Every thread is scheduled.  A consumer that wakes up for no reason takes the
\* mutex and gives it back, again and again: who waits for it gets it some time.
FairSpec ==
  /\ Spec
  /\ WF_vars(Main) /\ WF_vars(Consumer) /\ WF_vars(Stop)
  /\ \A p \in Producers : WF_vars(Producer(p))
  /\ SF_vars(Lock(stop)) /\ \A p \in Producers : SF_vars(Lock(p))

-----------------------------------------------------------------------------
Messages == Producers \cup {NULL}

(* Type correctness of the list, the threads and what they have done.      *)
TypeOK ==
  /\ workq \in Messages
  /\ next \in [Producers -> Messages]
  /\ freed \in SUBSET Messages
  /\ qlock \in Threads \cup {NULL}
  /\ running \in BOOLEAN
  /\ pc \in [Threads -> {"absent", "lock", "locked", "asleep", "process", "walk",
                         "linked", "unlock", "signal", "exited"}]
  /\ mp \in Messages
  /\ last \in [Producers -> Messages]
  /\ main \in {"consumer", "producers", "stop", "ended"}
  /\ created \in 0..N
  /\ sent \in Seq(Producers)
  /\ taken \in Nat

Nth(i) == IF i \in 1..Len(sent) THEN sent[i] ELSE NULL

(* 36-46, 56-67: from workq on the links lead through the messages that    *)
(* were linked and not taken, in that order; a producer on its way through *)
(* the list is at one of them, which is not freed.                         *)
QueueInOrder ==
  /\ taken <= Len(sent)
  /\ workq = Nth(taken + 1)
  /\ \A i \in (taken + 1)..Len(sent) : next[sent[i]] = Nth(i + 1)
  /\ \A p \in Producers : pc[p] = "walk" =>
       /\ \E i \in (taken + 1)..Len(sent) : last[p] = sent[i]
       /\ last[p] \notin freed

(* 32-35, 93-99: the consumer leaves no message behind: when main returns  *)
(* all are processed.                                                      *)
AllProcessed == main = "ended" => freed = Producers

(* 27-35, 74-79: whoever is woken, and by what, and although stop signals  *)
(* without the mutex, the consumer wakes up once more and takes what is    *)
(* left, and main returns.                                                 *)
QueueDrained == <>(main = "ended" /\ freed = Producers)

=============================================================================
