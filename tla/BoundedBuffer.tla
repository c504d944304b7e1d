---------------------------- MODULE BoundedBuffer ----------------------------
(***************************************************************************)
(* Homework2 level3.c: one producer puts the numbers 1..N into a circular  *)
(* buffer, consumers take them and add up their squares, main waits until  *)
(* all are processed and reports the sum.                                  *)
(*                                                                         *)
(* The semaphores availableItems and remainingSpace keep the producer and  *)
(* the consumers apart; totalSum_mutex keeps the consumers apart.  The     *)
(* producer writes the buffer without the mutex, and main reads processed  *)
(* and totalSum without it, in a loop that the Makefile compiles without   *)
(* optimisation: every turn reads the variable again.                      *)
(***************************************************************************)
EXTENDS Integers

CONSTANTS
  Consumers,    \* the consumer threads
  N,            \* the numbers to process
  BUFFER_SIZE

VARIABLES
  buffer, head, tail,
  availableItems, remainingSpace,   \* the semaphores
  totalSum_mutex,                   \* its holder, or "free"
  totalSum, processed,
  producer,   \* the producer's statement and its loop variable i
  pc,         \* the statement of each consumer
  val,        \* each consumer's val
  main        \* main's statement and the sum it reported

queue == <<buffer, head, tail>>
semaphores == <<availableItems, remainingSpace>>
sums == <<totalSum, processed>>
vars == <<queue, semaphores, totalSum_mutex, sums, producer, pc, val, main>>

Slots == 0..(BUFFER_SIZE - 1)

PCs == {"wait", "lock", "take", "add", "count", "unlock", "post"}

Init ==
  /\ buffer = [s \in Slots |-> 0]
  /\ head = 0 /\ tail = 0
  /\ availableItems = 0 /\ remainingSpace = BUFFER_SIZE
  /\ totalSum_mutex = "free"
  /\ totalSum = 0 /\ processed = 0
  /\ producer = [at |-> "wait", i |-> 1]
  /\ pc = [c \in Consumers |-> "wait"]
  /\ val = [c \in Consumers |-> 0]
  /\ main = [at |-> "join", sum |-> 0]

\* When main returns the process ends, with the threads in it.
Running == main.at # "ended"

Successor(slot) == (slot + 1) % BUFFER_SIZE

-----------------------------------------------------------------------------
(* addToQueue *)

\* Mutated form: the producer counts on a free slot.
PutWithoutWaiting ==
  /\ Running /\ producer.at = "wait" /\ producer.i <= N
  /\ remainingSpace' = IF remainingSpace > 0 THEN remainingSpace - 1 ELSE 0
  /\ producer' = [producer EXCEPT !.at = "put"]
  /\ UNCHANGED <<queue, availableItems, totalSum_mutex, sums, pc, val, main>>

WaitForSpace ==
  /\ Running /\ producer.at = "wait" /\ producer.i <= N
  /\ remainingSpace > 0
  /\ remainingSpace' = remainingSpace - 1
  /\ producer' = [producer EXCEPT !.at = "put"]
  /\ UNCHANGED <<queue, availableItems, totalSum_mutex, sums, pc, val, main>>

Put ==
  /\ Running /\ producer.at = "put"
  /\ buffer' = [buffer EXCEPT ![tail] = producer.i]
  /\ tail' = Successor(tail)
  /\ producer' = [producer EXCEPT !.at = "post"]
  /\ UNCHANGED <<head, semaphores, totalSum_mutex, sums, pc, val, main>>

PostItem ==
  /\ Running /\ producer.at = "post"
  /\ availableItems' = availableItems + 1
  /\ producer' = [at |-> "wait", i |-> producer.i + 1]
  /\ UNCHANGED <<queue, remainingSpace, totalSum_mutex, sums, pc, val, main>>

Producer == WaitForSpace \/ Put \/ PostItem

-----------------------------------------------------------------------------
(* computeSquares *)

Goto(c, from, to) ==
  /\ Running
  /\ pc[c] = from
  /\ pc' = [pc EXCEPT ![c] = to]

WaitForItem(c) ==
  /\ Goto(c, "wait", "lock")
  /\ availableItems > 0
  /\ availableItems' = availableItems - 1
  /\ UNCHANGED <<queue, remainingSpace, totalSum_mutex, sums, producer, val, main>>

\* Mutated form: the mutex is not waited for.
LockWithoutWaiting(c) ==
  /\ Goto(c, "lock", "take")
  /\ totalSum_mutex' = IF totalSum_mutex = "free" THEN c ELSE totalSum_mutex
  /\ UNCHANGED <<queue, semaphores, sums, producer, val, main>>

Lock(c) ==
  /\ Goto(c, "lock", "take")
  /\ totalSum_mutex = "free"
  /\ totalSum_mutex' = c
  /\ UNCHANGED <<queue, semaphores, sums, producer, val, main>>

Take(c) ==
  /\ Goto(c, "take", "add")
  /\ val' = [val EXCEPT ![c] = buffer[head]]
  /\ head' = Successor(head)
  /\ UNCHANGED <<buffer, tail, semaphores, totalSum_mutex, sums, producer, main>>

Add(c) ==
  /\ Goto(c, "add", "count")
  /\ totalSum' = totalSum + val[c] * val[c]
  /\ UNCHANGED <<queue, semaphores, totalSum_mutex, processed, producer, val, main>>

Count(c) ==
  /\ Goto(c, "count", "unlock")
  /\ processed' = processed + 1
  /\ UNCHANGED <<queue, semaphores, totalSum_mutex, totalSum, producer, val, main>>

Unlock(c) ==
  /\ Goto(c, "unlock", "post")
  /\ totalSum_mutex' = "free"
  /\ UNCHANGED <<queue, semaphores, sums, producer, val, main>>

\* Mutated form: remainingSpace is not posted.
PostNothing(c) ==
  /\ Goto(c, "post", "wait")
  /\ UNCHANGED <<queue, semaphores, totalSum_mutex, sums, producer, val, main>>

PostSpace(c) ==
  /\ Goto(c, "post", "wait")
  /\ remainingSpace' = remainingSpace + 1
  /\ UNCHANGED <<queue, availableItems, totalSum_mutex, sums, producer, val, main>>

Consumer(c) ==
  \/ WaitForItem(c) \/ Lock(c) \/ Take(c) \/ Add(c) \/ Count(c)
  \/ Unlock(c) \/ PostSpace(c)

-----------------------------------------------------------------------------
(* main *)

Join ==
  /\ main.at = "join" /\ producer.at = "wait" /\ producer.i > N
  /\ main' = [main EXCEPT !.at = "spin"]
  /\ UNCHANGED <<queue, semaphores, totalSum_mutex, sums, producer, pc, val>>

\* Mutated form: the loop is left when the last number is taken.
AllTaken ==
  /\ main.at = "spin"
  /\ availableItems = 0
  /\ main' = [main EXCEPT !.at = "report"]
  /\ UNCHANGED <<queue, semaphores, totalSum_mutex, sums, producer, pc, val>>

\* Mutated form: while (processed < n - 1);
AlmostProcessed ==
  /\ main.at = "spin"
  /\ processed >= N - 1
  /\ main' = [main EXCEPT !.at = "report"]
  /\ UNCHANGED <<queue, semaphores, totalSum_mutex, sums, producer, pc, val>>

\* while (processed < n);
AllProcessed ==
  /\ main.at = "spin"
  /\ processed >= N
  /\ main' = [main EXCEPT !.at = "report"]
  /\ UNCHANGED <<queue, semaphores, totalSum_mutex, sums, producer, pc, val>>

\* The consumers are detached, the sum is printed, the process ends.
Report ==
  /\ main.at = "report"
  /\ main' = [at |-> "ended", sum |-> totalSum]
  /\ UNCHANGED <<queue, semaphores, totalSum_mutex, sums, producer, pc, val>>

Main == Join \/ AllProcessed \/ Report

Next == Main \/ Producer \/ \E c \in Consumers : Consumer(c)

Spec == Init /\ [][Next]_vars

\* Main, the producer and the consumers are scheduled; weak fairness is enough,
\* as the numbers run out and leave the mutex to whoever still waits for it.
FairSpec ==
  /\ Spec
  /\ WF_vars(Main) /\ WF_vars(Producer)
  /\ \A c \in Consumers : WF_vars(Consumer(c))

-----------------------------------------------------------------------------
(* Type correctness of the buffer, the semaphores, the sums and threads.   *)
TypeOK ==
  /\ buffer \in [Slots -> 0..N]
  /\ head \in Slots /\ tail \in Slots
  /\ availableItems \in Nat /\ remainingSpace \in Nat
  /\ totalSum_mutex \in Consumers \cup {"free"}
  /\ totalSum \in Nat /\ processed \in Nat
  /\ producer \in [at : {"wait", "put", "post"}, i : 1..(N + 1)]
  /\ pc \in [Consumers -> PCs]
  /\ val \in [Consumers -> 0..N]
  /\ main \in [at : {"join", "spin", "report", "ended"}, sum : Nat]

\* How many numbers were put into the buffer, and taken out of it
Puts == IF producer.at = "post" THEN producer.i ELSE producer.i - 1
Takes ==
  IF totalSum_mutex # "free" /\ pc[totalSum_mutex] \in {"add", "count"}
  THEN processed + 1 ELSE processed

(* 36, 57: the producer writes the buffer without a lock, yet every number *)
(* put and not yet taken is in its slot; no slot is overwritten or read    *)
(* too early.                                                              *)
SlotsIntact ==
  /\ Takes <= Puts /\ Puts <= Takes + BUFFER_SIZE
  /\ \A k \in (Takes + 1)..Puts : buffer[(k - 1) % BUFFER_SIZE] = k

(* 57-62: the consumers take the numbers in order, each once, and add each *)
(* before they count it: the sum is that of the squares counted, and the   *)
(* one being added (here six times either).                                *)
SixSquares(k) == k * (k + 1) * (2 * k + 1)

AddsInOrder ==
  /\ \A c \in Consumers : pc[c] = "add" => val[c] = processed + 1
  /\ 6 * totalSum =
       SixSquares(IF \E c \in Consumers : pc[c] = "count"
                    THEN processed + 1 ELSE processed)

(* README 39: "the correct final sum will always be reported", although    *)
(* main reads processed (117) and totalSum (127) without the mutex.        *)
ReportsSum == main.at = "ended" => 6 * main.sum = SixSquares(N)

(* README 34-38: once all numbers are processed no consumer starts on      *)
(* another; they are blocked, or about to be, on availableItems (50).      *)
QuietAfterAll ==
  main.at \in {"report", "ended"} =>
    /\ availableItems = 0
    /\ \A c \in Consumers : pc[c] \in {"unlock", "post", "wait"}

(* The program ends: neither the producer nor a consumer waits for ever    *)
(* while there is a number left, and main's loop sees the last one.        *)
Ends == <>(main.at = "ended")

=============================================================================
