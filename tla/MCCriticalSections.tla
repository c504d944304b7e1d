------------------------- MODULE MCCriticalSections -------------------------
(***************************************************************************)
(* The small programs whose threads or processes share memory: those of    *)
(* CriticalSections, the queue with a condition variable (CondQueue), the  *)
(* sum by threads (PartialSums) and the one by a producer and consumers    *)
(* (BoundedBuffer); and those that only print and wait for each other      *)
(* (ForkExamples).  They never meet: the first state chooses one, and the  *)
(* others stay as they are.                                                *)
(*                                                                         *)
(* Three rounds of each thread are enough for one to overwrite what the    *)
(* other did in its first two, and with ten marks fewer than its rounds    *)
(* the parent of shared_memory may raise or lower the number.  Four        *)
(* messages are those of the code; seven numbers are split into three      *)
(* unequal parts.  Three consumers, and a circular buffer that fills and   *)
(* wraps around several times.                                             *)
(***************************************************************************)
EXTENDS CriticalSections

CONSTANTS
  Suites, QueueLen, SumLen, SumThreads,
  Consumers, BufferedLen, BUFFER_SIZE, c1, c2, c3

MCConsumers == {c1, c2, c3}

ASSUME SizesAssumption ==
  /\ QueueLen \in Nat /\ SumLen \in Nat /\ SumThreads \in Nat \ {0}
  /\ BufferedLen \in Nat /\ BUFFER_SIZE \in Nat \ {0}
  /\ Consumers # {} /\ "free" \notin Consumers

VARIABLES
  suite,
  workq, next, freed, qlock, running, queuepc, mp, last, queuemain, created, sent, taken,
  thisBounds, totalSum_mutex, totalSum, sumpc, myBounds, i, loaded, summain,
  forkprogram, terminal, forkpc, forkstate, glob, buffer, stdout,
  circular, head, tail, availableItems, remainingSpace, totalMutex, squares, processed,
  producer, consumerpc, val, buffermain

Queue == INSTANCE CondQueue WITH N <- QueueLen, pc <- queuepc, main <- queuemain

Sums == INSTANCE PartialSums WITH
  N <- SumLen, NumThreads <- SumThreads, pc <- sumpc, main <- summain

Forks == INSTANCE ForkExamples WITH
  program <- forkprogram, pc <- forkpc, state <- forkstate

Buffer == INSTANCE BoundedBuffer WITH
  N <- BufferedLen, buffer <- circular, totalSum_mutex <- totalMutex, totalSum <- squares,
  pc <- consumerpc, main <- buffermain

queueVars == <<workq, next, freed, qlock, running, queuepc, mp, last, queuemain,
               created, sent, taken>>
sumVars == <<thisBounds, totalSum_mutex, totalSum, sumpc, myBounds, i, loaded, summain>>
forkVars == <<forkprogram, terminal, forkpc, forkstate, glob, buffer, stdout>>
bufferVars == <<circular, head, tail, availableItems, remainingSpace, totalMutex, squares,
                processed, producer, consumerpc, val, buffermain>>
allVars == <<suite, vars, queueVars, sumVars, forkVars, bufferVars>>

MCInit ==
  /\ suite \in Suites
  /\ Init /\ Queue!Init /\ Sums!Init /\ Forks!Init /\ Buffer!Init
  /\ suite # "sections" => program = Mutex
  /\ suite # "forks" => forkprogram = Forks!PrintOrder /\ terminal

Sections(A) ==
  suite = "sections" /\ A /\ UNCHANGED <<suite, queueVars, sumVars, forkVars, bufferVars>>
InQueue(A) ==
  suite = "queue" /\ A /\ UNCHANGED <<suite, vars, sumVars, forkVars, bufferVars>>
InSums(A) ==
  suite = "sums" /\ A /\ UNCHANGED <<suite, vars, queueVars, forkVars, bufferVars>>
InForks(A) ==
  suite = "forks" /\ A /\ UNCHANGED <<suite, vars, queueVars, sumVars, bufferVars>>
InBuffer(A) ==
  suite = "buffer" /\ A /\ UNCHANGED <<suite, vars, queueVars, sumVars, forkVars>>

MCNext ==
  \/ Sections(Next) \/ InQueue(Queue!Next) \/ InSums(Sums!Next) \/ InForks(Forks!Next)
  \/ InBuffer(Buffer!Next)

\* The fairness of the specifications; that of ForkExamples has none.
MCSpec ==
  /\ MCInit /\ [][MCNext]_allVars
  /\ \A w \in Workers : WF_allVars(Sections(Step(w)))
  /\ WF_allVars(InQueue(Queue!Main)) /\ WF_allVars(InQueue(Queue!Consumer))
  /\ WF_allVars(InQueue(Queue!Stop)) /\ SF_allVars(InQueue(Queue!Lock(Queue!stop)))
  /\ \A p \in Queue!Producers :
       WF_allVars(InQueue(Queue!Producer(p))) /\ SF_allVars(InQueue(Queue!Lock(p)))
  /\ WF_allVars(InSums(Sums!Main))
  /\ \A t \in Sums!Threads : WF_allVars(InSums(Sums!Thread(t)))
  /\ WF_allVars(InBuffer(Buffer!Main)) /\ WF_allVars(InBuffer(Buffer!Producer))
  /\ \A c \in Consumers : WF_allVars(InBuffer(Buffer!Consumer(c)))

-----------------------------------------------------------------------------
(* Lecture7 and Lecture8: the programs that fork and wait print each line  *)
(* once, or twice if a fork copied the buffer it was in, and the main that *)
(* waits for its child or threads has the last line.                       *)
LinesPrinted == Forks!LinesPrinted

(* Lecture9/cond_variable 36-46, 56-67: the list keeps its order and loses *)
(* no message, and no producer walks through one that was freed.           *)
QueueInOrder == Queue!QueueInOrder

(* Homework2/main.c 58-63, 66-76: the ranges of the threads and the mutex  *)
(* put the square of each number into the reported sum once, and only the  *)
(* range of a thread that could not be created is missing from it.         *)
EachAddedOnce == Sums!EachAddedOnce

(* The programs of CriticalSections end, but for a semaphore left taken, a *)
(* sleeper that is not woken, or a user that stays away; and Homework2     *)
(* reports its sum, no thread keeping the mutex from the others.           *)
SectionsEnd ==
  /\ suite = "sections" => WorkersEnd
  /\ suite = "sums" => Sums!SumReported

(* cond_variable 27-35, 74-79: the consumer does not miss the one signal   *)
(* of stop, and ends with every message processed.                         *)
QueueDrained == suite = "queue" => Queue!QueueDrained

(* Homework2 level3.c 36, 57: the producer writes the buffer without a     *)
(* lock, yet no slot is overwritten or read too early.                     *)
SlotsIntact == Buffer!SlotsIntact

(* level3.c 57-62: the consumers take the numbers in order, each once, and *)
(* add each before they count it.                                          *)
AddsInOrder == Buffer!AddsInOrder

(* Homework2 README 39: "the correct final sum will always be reported",   *)
(* although main reads it without the mutex.                               *)
ReportsSum == Buffer!ReportsSum

(* README 34-38: once all numbers are processed no consumer starts on      *)
(* another.                                                                *)
QuietAfterAll == Buffer!QuietAfterAll

(* level3.c ends: main's loop sees that the last number is processed.      *)
LevelThreeEnds == suite = "buffer" => Buffer!Ends

=============================================================================
