------------------------- MODULE SharedMemoryProofs -------------------------
(***************************************************************************)
(* The programs that share memory, for any number of messages, numbers,    *)
(* threads and rounds.                                                     *)
(*                                                                         *)
(* The queue with a condition variable: the list holds what was linked and *)
(* not taken, in that order, and who walks through it is still in it.      *)
(*                                                                         *)
(* The sum by threads: the ranges that main computes lie apart and cover   *)
(* all numbers, which is a matter of division only; and totalSum is what   *)
(* the one thread inside the mutex has read.                               *)
(*                                                                         *)
(* The programs with a lock: who is between its wait and its post holds    *)
(* the lock, which one worker does at a time until the second sem_init.    *)
(* So what is written goes to the end of the text, and behind the writer's *)
(* own mark.                                                               *)
(*                                                                         *)
(* The two counters without a lock: what has been read last may be old,    *)
(* but it is not 0 once the reader has written itself.                     *)
(*                                                                         *)
(* The producer and the consumers: every number put and not taken is in    *)
(* availableItems or claimed, and every slot is free, filled, or about to  *)
(* be; so none is overwritten before it is taken, and main reports the sum *)
(* of the first N squares.                                                 *)
(*                                                                         *)
(* The programs that fork, exec and join: a line that was printed is in a  *)
(* buffer or on stdout; in two buffers from the fork on, if the child does *)
(* not exec; and who was waited for prints no more.                        *)
(***************************************************************************)
EXTENDS MCCriticalSections, SequenceTheorems, FiniteSetTheorems, TLAPS

-----------------------------------------------------------------------------
(* The queue: its invariant.                                               *)

(* The statements that a thread of each kind can be at.                    *)
QueueRoles ==
  /\ queuepc[Queue!consumer] \in
       {"absent", "lock", "locked", "asleep", "process", "exited"}
  /\ queuepc[Queue!stop] \in
       {"absent", "lock", "locked", "unlock", "signal", "exited"}
  /\ \A p \in Queue!Producers :
       queuepc[p] \in
         {"absent", "lock", "locked", "walk", "linked", "unlock", "exited"}

(* qlock admits one thread to 27-39, 58-70 and 76.                         *)
LockHeld ==
  \A t \in Queue!Threads :
    queuepc[t] \in {"locked", "walk", "linked", "unlock"} => qlock = t

(* A message is in the list's history once its producer has linked it, and *)
(* only once.                                                              *)
HasLinked(p) == queuepc[p] \in {"linked", "unlock", "exited"}

SentOnce ==
  /\ \A j, k \in 1..Len(sent) : sent[j] = sent[k] => j = k
  /\ \A p \in Queue!Producers : HasLinked(p) <=> \E k \in 1..Len(sent) : sent[k] = p

(* A message that is not linked yet links to nothing (54).                 *)
Unlinked == \A p \in Queue!Producers : ~HasLinked(p) => next[p] = Queue!NULL

(* What was taken is freed, but for the message in hand.                   *)
Processed == IF queuepc[Queue!consumer] = "process" THEN taken - 1 ELSE taken

TakenFreed ==
  /\ freed = {sent[k] : k \in 1..Processed}
  /\ queuepc[Queue!consumer] = "process" => taken > 0 /\ mp = sent[taken]

(* QueueInOrder, with its parts apart.                                     *)
HeadOfList == taken <= Len(sent) /\ workq = Queue!Nth(taken + 1)
LinksInOrder == \A k \in (taken + 1)..Len(sent) : next[sent[k]] = Queue!Nth(k + 1)
WalksInList ==
  \A p \in Queue!Producers :
    queuepc[p] = "walk" => \E k \in (taken + 1)..Len(sent) : last[p] = sent[k]

(* What main and the consumer know when they go on.                        *)
QueueEnding ==
  /\ \A p \in Queue!Producers : p > created => queuepc[p] = "absent"
  /\ queuepc[Queue!stop] # "absent" => queuemain \in {"stop", "ended"}
  /\ ~running => queuepc[Queue!stop] # "absent"
  /\ queuemain \in {"stop", "ended"}
       => \A p \in Queue!Producers : queuepc[p] = "exited"
  /\ queuepc[Queue!consumer] = "exited" => ~running /\ taken = Len(sent)
  /\ queuemain = "ended" => queuepc[Queue!consumer] = "exited"

QueueInv ==
  /\ Queue!TypeOK /\ QueueRoles /\ LockHeld
  /\ SentOnce /\ Unlinked /\ TakenFreed
  /\ HeadOfList /\ LinksInOrder /\ WalksInList /\ QueueEnding

-----------------------------------------------------------------------------
(* The queue's invariant implies what is claimed.                           *)
LEMMA QueueInvOrder ==
  ASSUME QueueLen \in Nat, QueueInv
  PROVE  Queue!QueueInOrder
  <1>1. ASSUME NEW p \in Queue!Producers, queuepc[p] = "walk"
        PROVE  last[p] \notin freed
    <2>1. PICK k \in (taken + 1)..Len(sent) : last[p] = sent[k]
      BY <1>1 DEF QueueInv, WalksInList
    <2>2. ASSUME NEW j \in 1..Processed PROVE sent[j] # sent[k]
      BY <2>2
      DEF QueueInv, Queue!TypeOK, SentOnce, Processed, HeadOfList, Queue!Nth
    <2> QED
      BY <2>1, <2>2 DEF QueueInv, TakenFreed
  <1> QED
    BY <1>1
    DEF QueueInv, HeadOfList, LinksInOrder, WalksInList, Queue!QueueInOrder

LEMMA QueueInvProcessed ==
  ASSUME QueueLen \in Nat, QueueInv
  PROVE  Queue!AllProcessed
  <1> SUFFICES ASSUME queuemain = "ended" PROVE freed = Queue!Producers
    BY DEF Queue!AllProcessed
  <1>1. freed = {sent[k] : k \in 1..Len(sent)}
    BY DEF QueueInv, QueueEnding, TakenFreed, Processed
  <1>2. \A k \in 1..Len(sent) : sent[k] \in Queue!Producers
    BY ElementOfSeq DEF QueueInv, Queue!TypeOK
  <1>3. \A p \in Queue!Producers : \E k \in 1..Len(sent) : sent[k] = p
    BY DEF QueueInv, QueueEnding, SentOnce, HasLinked
  <1> QED
    BY <1>1, <1>2, <1>3

(* Init                                                                    *)
LEMMA QueueInitInv == ASSUME QueueLen \in Nat, Queue!Init PROVE QueueInv
  <1> USE DEF Queue!Init, Queue!Producers, Queue!Threads, Queue!consumer,
              Queue!stop, Queue!NULL
  <1>1. Queue!TypeOK
    BY EmptySeq DEF Queue!TypeOK, Queue!Messages
  <1>2. QueueRoles /\ LockHeld /\ SentOnce /\ Unlinked
    BY DEF QueueRoles, LockHeld, SentOnce, Unlinked, HasLinked
  <1>3. TakenFreed /\ HeadOfList /\ LinksInOrder /\ WalksInList /\ QueueEnding
    BY DEF TakenFreed, Processed, HeadOfList, LinksInOrder, WalksInList,
           QueueEnding, Queue!Nth
  <1> QED
    BY <1>1, <1>2, <1>3 DEF QueueInv

-----------------------------------------------------------------------------
(* Threads of different kinds are different threads.                       *)
LEMMA QueueKinds ==
  ASSUME QueueLen \in Nat
  PROVE  /\ Queue!consumer \in Queue!Threads /\ Queue!stop \in Queue!Threads
         /\ Queue!Producers \subseteq Queue!Threads
         /\ Queue!consumer # Queue!stop
         /\ Queue!consumer \notin Queue!Producers
         /\ Queue!stop \notin Queue!Producers
         /\ Queue!NULL \notin Queue!Threads
  BY DEF Queue!consumer, Queue!stop, Queue!Producers, Queue!Threads, Queue!NULL

LEMMA QueueStepLock ==
  ASSUME QueueLen \in Nat, QueueInv, NEW t \in Queue!Threads, Queue!Lock(t)
  PROVE  QueueInv'
  <1> USE QueueKinds
  DEF QueueInv, Queue!Lock, Queue!Goto, Queue!list, Queue!mains, Queue!history
  <1>1. Queue!TypeOK'
    BY DEF Queue!TypeOK
  <1>2. QueueRoles'
    BY DEF Queue!TypeOK, QueueRoles
  <1>3. LockHeld'
    BY DEF Queue!TypeOK, LockHeld
  <1>4. SentOnce' /\ Unlinked'
    BY DEF Queue!TypeOK, SentOnce, Unlinked, HasLinked
  <1>5. TakenFreed' /\ HeadOfList' /\ LinksInOrder' /\ WalksInList'
    BY DEF Queue!TypeOK, TakenFreed, Processed, HeadOfList, LinksInOrder,
           WalksInList, Queue!Nth
  <1>6. QueueEnding'
    BY DEF Queue!TypeOK, QueueRoles, QueueEnding
  <1> QED
    BY <1>1, <1>2, <1>3, <1>4, <1>5, <1>6

LEMMA QueueStepConsumer ==
  ASSUME QueueLen \in Nat, QueueInv,
         Queue!Sleep \/ Queue!SpuriousWakeup \/ Queue!Leave \/ Queue!Process
  PROVE  QueueInv'
  <1> USE QueueKinds
  DEF QueueInv, Queue!Sleep, Queue!SpuriousWakeup, Queue!Leave, Queue!Process,
      Queue!Goto, Queue!list, Queue!mains, Queue!history
  <1>1. Queue!TypeOK'
    BY DEF Queue!TypeOK, Queue!Messages
  <1>2. QueueRoles' /\ LockHeld'
    BY DEF Queue!TypeOK, QueueRoles, LockHeld
  <1>3. SentOnce' /\ Unlinked'
    BY DEF Queue!TypeOK, SentOnce, Unlinked, HasLinked
  <1>4. HeadOfList' /\ LinksInOrder'
    BY DEF HeadOfList, LinksInOrder, Queue!Nth
  <1>5. TakenFreed'
    BY DEF Queue!TypeOK, TakenFreed, Processed, HeadOfList
  <1>6. WalksInList'
    BY DEF Queue!TypeOK, WalksInList
  <1>7. QueueEnding'
    <2>1. ASSUME Queue!Leave PROVE taken = Len(sent)
      BY <2>1, ElementOfSeq
      DEF Queue!TypeOK, HeadOfList, Queue!Nth, Queue!Producers, Queue!NULL
    <2> QED
      BY <2>1 DEF Queue!TypeOK, QueueRoles, QueueEnding
  <1> QED
    BY <1>1, <1>2, <1>3, <1>4, <1>5, <1>6, <1>7

LEMMA QueueStepTake ==
  ASSUME QueueLen \in Nat, QueueInv, Queue!Take
  PROVE  QueueInv'
  <1> USE QueueKinds
  DEF QueueInv, Queue!Take, Queue!Goto, Queue!list, Queue!mains, Queue!history
  <1>1. /\ taken + 1 \in 1..Len(sent) /\ workq = sent[taken + 1]
        /\ workq \in Queue!Producers
    BY ElementOfSeq, LenProperties DEF Queue!TypeOK, HeadOfList, Queue!Nth
  <1>2. Queue!TypeOK'
    BY <1>1 DEF Queue!TypeOK, Queue!Messages
  <1>3. QueueRoles' /\ LockHeld'
    BY DEF Queue!TypeOK, QueueRoles, LockHeld
  <1>4. SentOnce' /\ Unlinked'
    BY DEF Queue!TypeOK, SentOnce, Unlinked, HasLinked
  <1>5. HeadOfList'
    BY <1>1 DEF Queue!TypeOK, HeadOfList, LinksInOrder, Queue!Nth
  <1>6. LinksInOrder'
    BY <1>1 DEF Queue!TypeOK, LinksInOrder, Queue!Nth
  <1>7. WalksInList'
    BY DEF Queue!TypeOK, WalksInList, LockHeld
  <1>8. TakenFreed'
    BY <1>1 DEF Queue!TypeOK, TakenFreed, Processed
  <1>9. QueueEnding'
    BY DEF Queue!TypeOK, QueueRoles, QueueEnding
  <1> QED
    BY <1>2, <1>3, <1>4, <1>5, <1>6, <1>7, <1>8, <1>9

\* A producer that goes through the list, or is done with it.
LEMMA QueueStepWalk ==
  ASSUME QueueLen \in Nat, QueueInv, NEW p \in Queue!Producers,
         Queue!Walk(p) \/ Queue!WalkOn(p)
  PROVE  QueueInv'
  <1> USE QueueKinds
  DEF QueueInv, Queue!Walk, Queue!WalkOn, Queue!Goto, Queue!list, Queue!mains,
      Queue!history
  <1>1. \E k \in (taken + 1)..Len(sent) : last'[p] = sent[k]
    <2>1. CASE Queue!Walk(p)
      <3>1. taken + 1 \in 1..Len(sent) /\ workq = sent[taken + 1]
        BY <2>1, LenProperties DEF Queue!TypeOK, HeadOfList, Queue!Nth
      <3> QED
        BY <2>1, <3>1 DEF Queue!TypeOK
    <2>2. CASE Queue!WalkOn(p)
      <3>1. PICK k \in (taken + 1)..Len(sent) : last[p] = sent[k]
        BY <2>2 DEF WalksInList
      <3>2. next[last[p]] = Queue!Nth(k + 1) /\ Queue!Nth(k + 1) # Queue!NULL
        BY <2>2, <3>1 DEF LinksInOrder
      <3>3. k + 1 \in (taken + 1)..Len(sent) /\ Queue!Nth(k + 1) = sent[k + 1]
        BY <3>1, <3>2, LenProperties DEF Queue!TypeOK, Queue!Nth
      <3> QED
        BY <2>2, <3>2, <3>3 DEF Queue!TypeOK
    <2> QED
      BY <2>1, <2>2
  <1>2. last'[p] \in Queue!Producers
    BY <1>1, ElementOfSeq DEF Queue!TypeOK
  <1>3. Queue!TypeOK'
    BY <1>2 DEF Queue!TypeOK, Queue!Messages
  <1>4. QueueRoles' /\ LockHeld'
    BY DEF Queue!TypeOK, QueueRoles, LockHeld
  <1>5. SentOnce' /\ Unlinked'
    BY DEF Queue!TypeOK, SentOnce, Unlinked, HasLinked
  <1>6. TakenFreed' /\ HeadOfList' /\ LinksInOrder'
    <2>1. TakenFreed'
      BY DEF Queue!TypeOK, TakenFreed, Processed
    <2>2. HeadOfList' /\ LinksInOrder'
      BY DEF HeadOfList, LinksInOrder, Queue!Nth
    <2> QED
      BY <2>1, <2>2
  <1>7. WalksInList'
    BY <1>1 DEF Queue!TypeOK, WalksInList
  <1>8. QueueEnding'
    BY DEF Queue!TypeOK, QueueRoles, QueueEnding
  <1> QED
    BY <1>3, <1>4, <1>5, <1>6, <1>7, <1>8

LEMMA QueueStepFirstOrLink ==
  ASSUME QueueLen \in Nat, QueueInv, NEW p \in Queue!Producers,
         Queue!First(p) \/ Queue!Link(p)
  PROVE  QueueInv'
  <1>1. Queue!TypeOK /\ SentOnce /\ HeadOfList /\ LinksInOrder
    BY DEF QueueInv
  <1>2. Len(sent) \in Nat /\ taken \in Nat /\ taken <= Len(sent)
    BY <1>1, LenProperties DEF Queue!TypeOK, HeadOfList
  <1>3. /\ sent' = Append(sent, p) /\ sent \in Seq(Queue!Producers)
        /\ taken' = taken /\ freed' = freed /\ mp' = mp /\ last' = last
        /\ queuepc' = [queuepc EXCEPT ![p] = "linked"]
        /\ queuepc[p] \in {"locked", "walk"}
    BY <1>1
    DEF Queue!TypeOK, Queue!First, Queue!Link, Queue!Goto, Queue!mains,
        Queue!history
  <1>4. /\ Len(sent') = Len(sent) + 1 /\ sent' \in Seq(Queue!Producers)
        /\ sent'[Len(sent) + 1] = p
        /\ \A k \in 1..Len(sent) : sent'[k] = sent[k]
    BY <1>3, AppendProperties
  <1>5. ~HasLinked(p) /\ next[p] = Queue!NULL
    BY <1>3 DEF QueueInv, Unlinked, HasLinked
  <1>6. \A k \in 1..Len(sent) :
          /\ sent[k] # p /\ sent[k] \in Queue!Producers
          /\ sent[k] # Queue!NULL
    BY <1>3, <1>5, ElementOfSeq, QueueKinds DEF QueueInv, SentOnce
  \* The last message of the list is where p is, if there is one.
  <1>7. \/ /\ taken = Len(sent) /\ workq' = p /\ next' = next
        \/ /\ taken < Len(sent) /\ workq' = workq
           /\ next' = [next EXCEPT ![sent[Len(sent)]] = p]
    <2>1. CASE Queue!First(p)
      <3>1. Queue!Nth(taken + 1) = Queue!NULL
        BY <2>1 DEF QueueInv, HeadOfList, Queue!First
      <3>2. ASSUME taken # Len(sent) PROVE FALSE
        <4>1. taken + 1 \in 1..Len(sent)
          BY <1>2, <3>2
        <4>2. Queue!Nth(taken + 1) = sent[taken + 1]
          BY <1>2, <4>1 DEF Queue!Nth
        <4> QED
          BY <1>6, <3>1, <4>1, <4>2
      <3> QED
        BY <2>1, <3>2 DEF Queue!First
    <2>2. CASE Queue!Link(p)
      <3>1. PICK k \in (taken + 1)..Len(sent) : last[p] = sent[k]
        BY <2>2 DEF QueueInv, WalksInList, Queue!Link, Queue!Goto
      <3>2. Queue!Nth(k + 1) = Queue!NULL
        BY <2>2, <3>1 DEF QueueInv, LinksInOrder, Queue!Link
      <3>3. ASSUME k # Len(sent) PROVE FALSE
        <4>1. k + 1 \in 1..Len(sent)
          BY <1>2, <3>1, <3>3
        <4>2. Queue!Nth(k + 1) = sent[k + 1]
          BY <1>2, <4>1 DEF Queue!Nth
        <4> QED
          BY <1>6, <3>2, <4>1, <4>2
      <3>4. taken < Len(sent) /\ last[p] = sent[Len(sent)]
        BY <1>2, <3>1, <3>3
      <3> QED
        BY <3>4, <2>2 DEF Queue!Link
    <2> QED
      BY <2>1, <2>2
  <1>8. Queue!TypeOK'
    <2>1. UNCHANGED <<freed, running, mp, last, queuemain, created, taken>>
      BY DEF Queue!First, Queue!Link, Queue!Goto, Queue!mains, Queue!history
    <2>2. workq' \in Queue!Messages /\ next' \in [Queue!Producers -> Queue!Messages]
      BY <1>1 DEF Queue!TypeOK, Queue!Messages, Queue!First, Queue!Link
    <2>3. qlock' \in Queue!Threads \cup {Queue!NULL}
      BY <1>1 DEF Queue!TypeOK, Queue!First, Queue!Link
    <2>4. queuepc' = [queuepc EXCEPT ![p] = "linked"]
      BY <1>3
    <2>5. QED
      BY <1>1, <1>4, <2>1, <2>2, <2>3, <2>4, QueueKinds DEF Queue!TypeOK
  <1>9. QueueRoles' /\ LockHeld'
    BY <1>3, <1>1, QueueKinds
    DEF QueueInv, Queue!TypeOK, QueueRoles, LockHeld, Queue!First, Queue!Link
  <1>10. SentOnce'
    <2>1. \A j, k \in 1..Len(sent') : sent'[j] = sent'[k] => j = k
      BY <1>2, <1>4, <1>6, <1>1 DEF SentOnce
    <2>2. \A q \in Queue!Producers : HasLinked(q)' <=> HasLinked(q) \/ q = p
      BY <1>3, <1>1, QueueKinds DEF Queue!TypeOK, HasLinked
    <2>3. \A q \in Queue!Producers : (\E k \in 1..Len(sent') : sent'[k] = q)
                                <=> (\E k \in 1..Len(sent) : sent[k] = q)
                                          \/ q = p
      BY <1>2, <1>4
    <2> QED
      BY <1>1, <2>1, <2>2, <2>3 DEF SentOnce
  <1>11. Unlinked'
    <2>1. ASSUME NEW q \in Queue!Producers, ~HasLinked(q)'
              PROVE next'[q] = Queue!NULL
      <3>1. ~HasLinked(q)
        BY <1>3, <1>1, <2>1, QueueKinds DEF Queue!TypeOK, HasLinked
      <3>2. next[q] = Queue!NULL /\ \A k \in 1..Len(sent) : sent[k] # q
        BY <3>1 DEF QueueInv, Unlinked, SentOnce
      <3>3. taken < Len(sent) => sent[Len(sent)] # q
        BY <1>2, <3>2
      <3> QED
        BY <1>1, <1>7, <3>2, <3>3 DEF Queue!TypeOK
    <2> QED
      BY <2>1 DEF Unlinked
  <1>12. TakenFreed'
    BY <1>2, <1>3, <1>4, <1>1, QueueKinds
    DEF QueueInv, Queue!TypeOK, TakenFreed, Processed
  <1>13. HeadOfList'
    <2>1. \A k \in 1..Len(sent) : Queue!Nth(k)' = Queue!Nth(k)
      BY <1>2, <1>4 DEF Queue!Nth
    <2>2. \A k \in 1..(Len(sent) + 1) : k = Len(sent) + 1 => Queue!Nth(k)' = p
      BY <1>2, <1>4 DEF Queue!Nth
    <2>3. taken + 1 \in 1..(Len(sent) + 1)
      BY <1>2
    <2>4. \A k \in 1..(Len(sent) + 1) : k = taken + 1 => workq' = Queue!Nth(k)'
      BY <1>2, <1>1, <1>7, <2>1, <2>2 DEF HeadOfList
    <2>5. workq' = Queue!Nth(taken + 1)'
      BY <1>3, <2>3, <2>4
    <2>6. taken' <= Len(sent')
      BY <1>2, <1>3, <1>4
    <2> QED
      BY <2>5, <2>6 DEF HeadOfList
  <1>14. LinksInOrder'
    <2>1. ASSUME NEW k \in (taken + 1)..Len(sent)
              PROVE next'[sent'[k]] = Queue!Nth(k + 1)'
      <3>1. /\ taken < Len(sent) /\ k \in 1..Len(sent)
            /\ sent'[k] = sent[k] /\ sent[k] \in Queue!Producers
            /\ next' = [next EXCEPT ![sent[Len(sent)]] = p]
        BY <1>2, <1>4, <1>6, <1>7, <2>1
      <3>2. CASE k = Len(sent)
        <4>1. next'[sent[k]] = p
          BY <1>1, <3>1, <3>2 DEF Queue!TypeOK
        <4>2. Queue!Nth(k + 1)' = p
          BY <1>2, <1>4, <3>2 DEF Queue!Nth
        <4> QED
          BY <3>1, <4>1, <4>2
      <3>3. CASE k # Len(sent)
        <4>1. k + 1 \in 1..Len(sent) /\ Len(sent) \in 1..Len(sent)
          BY <1>2, <3>1, <3>3
        <4>2. sent[k] # sent[Len(sent)]
          BY <1>1, <3>1, <3>3, <4>1 DEF SentOnce
        <4>3. next'[sent[k]] = next[sent[k]]
          BY <1>1, <3>1, <4>2 DEF Queue!TypeOK
        <4>4. Queue!Nth(k + 1)' = Queue!Nth(k + 1)
          BY <1>2, <1>4, <4>1 DEF Queue!Nth
        <4> QED
          BY <1>1, <3>1, <4>3, <4>4 DEF LinksInOrder
      <3> QED
        BY <3>2, <3>3
    <2>2. next'[p] = Queue!NULL
      BY <1>1, <1>2, <1>5, <1>6, <1>7 DEF Queue!TypeOK
    <2>3. ASSUME NEW k \in Nat, k = Len(sent) + 1
              PROVE next'[sent'[k]] = Queue!Nth(k + 1)'
      BY <1>2, <1>4, <2>2, <2>3 DEF Queue!Nth
    <2>4. (taken' + 1)..Len(sent') = ((taken + 1)..Len(sent)) \cup {Len(sent) + 1}
      BY <1>2, <1>3, <1>4
    <2>5. \A k \in (taken' + 1)..Len(sent') : next'[sent'[k]] = Queue!Nth(k + 1)'
      BY <1>2, <2>1, <2>3, <2>4
    <2> QED
      BY <2>5 DEF LinksInOrder
  <1>15. WalksInList'
    BY <1>2, <1>3, <1>4, <1>1 DEF QueueInv, Queue!TypeOK, WalksInList
  <1>16. QueueEnding'
    BY <1>3, <1>1, QueueKinds
    DEF QueueInv, Queue!TypeOK, QueueRoles, QueueEnding, Queue!First,
        Queue!Link, Queue!mains, Queue!history
  <1> QED
    BY <1>8, <1>9, <1>10, <1>11, <1>12, <1>13, <1>14, <1>15, <1>16 DEF QueueInv

\* Signals and unlocks: nothing of the list changes.
LEMMA QueueStepSignal ==
  ASSUME QueueLen \in Nat, QueueInv,
         \/ \E p \in Queue!Producers : Queue!Signal(p) \/ Queue!Unlock(p)
         \/ Queue!UnlockStop \/ Queue!SignalStop \/ Queue!ClearRunning
  PROVE  QueueInv'
  <1> USE QueueKinds
  DEF QueueInv, Queue!Signal, Queue!Unlock, Queue!UnlockStop, Queue!SignalStop,
      Queue!ClearRunning, Queue!Signalled, Queue!Goto, Queue!list, Queue!mains,
      Queue!history
  <1>1. Queue!TypeOK'
    BY DEF Queue!TypeOK
  <1>2. QueueRoles' /\ LockHeld'
    BY DEF Queue!TypeOK, QueueRoles, LockHeld
  <1>3. SentOnce' /\ Unlinked'
    <2>1. \A p \in Queue!Producers : HasLinked(p)' <=> HasLinked(p)
      BY DEF Queue!TypeOK, HasLinked
    <2> QED
      BY <2>1 DEF SentOnce, Unlinked
  <1>4. TakenFreed' /\ HeadOfList' /\ LinksInOrder'
    BY DEF Queue!TypeOK, TakenFreed, Processed, HeadOfList, LinksInOrder,
           Queue!Nth
  <1>5. WalksInList'
    BY DEF Queue!TypeOK, WalksInList
  <1>6. QueueEnding'
    BY DEF Queue!TypeOK, QueueRoles, QueueEnding
  <1> QED
    BY <1>1, <1>2, <1>3, <1>4, <1>5, <1>6

LEMMA QueueStepMain ==
  ASSUME QueueLen \in Nat, QueueInv, Queue!Main
  PROVE  QueueInv'
  <1> USE QueueKinds
  DEF QueueInv, Queue!Main, Queue!CreateConsumer, Queue!CreateProducer,
      Queue!CreateStop, Queue!End, Queue!Start, Queue!Exited, Queue!list,
      Queue!mains, Queue!history, Queue!threads
  <1>1. Queue!TypeOK'
    BY DEF Queue!TypeOK, Queue!Producers
  <1>2. QueueRoles' /\ LockHeld'
    BY DEF Queue!TypeOK, QueueRoles, LockHeld
  <1>3. SentOnce' /\ Unlinked'
    <2>1. \A p \in Queue!Producers : HasLinked(p)' <=> HasLinked(p)
      BY DEF Queue!TypeOK, HasLinked, Queue!Producers
    <2> QED
      BY <2>1 DEF SentOnce, Unlinked
  <1>4. TakenFreed' /\ HeadOfList' /\ LinksInOrder'
    BY DEF Queue!TypeOK, TakenFreed, Processed, HeadOfList, LinksInOrder,
           Queue!Nth
  <1>5. WalksInList'
    BY DEF Queue!TypeOK, WalksInList
  <1>6. QueueEnding'
    BY DEF Queue!TypeOK, QueueRoles, QueueEnding, Queue!Producers
  <1> QED
    BY <1>1, <1>2, <1>3, <1>4, <1>5, <1>6

-----------------------------------------------------------------------------
LEMMA QueueStepInv ==
  ASSUME QueueLen \in Nat, QueueInv, [Queue!Next]_Queue!vars
  PROVE  QueueInv'
  <1>1. CASE Queue!Main
    BY <1>1, QueueStepMain
  <1>2. CASE Queue!Consumer \/ Queue!SpuriousWakeup
    BY <1>2, QueueKinds, QueueStepLock, QueueStepConsumer, QueueStepTake
    DEF Queue!Consumer
  <1>3. CASE Queue!Stop
    BY <1>3, QueueKinds, QueueStepLock, QueueStepSignal DEF Queue!Stop
  <1>4. ASSUME NEW p \in Queue!Producers, Queue!Producer(p) PROVE QueueInv'
    BY <1>4, QueueKinds, QueueStepLock, QueueStepWalk, QueueStepFirstOrLink, QueueStepSignal
    DEF Queue!Producer
  <1>5. CASE UNCHANGED Queue!vars
    BY <1>5
    DEF Queue!vars, Queue!list, Queue!threads, Queue!mains, Queue!history,
        QueueInv, Queue!TypeOK, QueueRoles, LockHeld, SentOnce, HasLinked,
        Unlinked, TakenFreed, Processed, HeadOfList, LinksInOrder, WalksInList,
        Queue!Nth, QueueEnding
  <1> QED
    BY <1>1, <1>2, <1>3, <1>4, <1>5 DEF Queue!Next

(* The queue alone keeps its invariant, with any number of producers       *)
(* (cond_variable/main.c 22-79).                                           *)
THEOREM QueueInvariance == ASSUME QueueLen \in Nat PROVE Queue!Spec => []QueueInv
  <1>1. Queue!Init => QueueInv
    BY QueueInitInv
  <1>2. QueueInv /\ [Queue!Next]_Queue!vars => QueueInv'
    BY QueueStepInv
  <1> QED
    BY <1>1, <1>2, PTL DEF Queue!Spec

(* The list, the threads and the history of what was sent have their types *)
(* (cond_variable/main.c 6-19).                                            *)
THEOREM QueueTypeCorrect ==
  ASSUME QueueLen \in Nat PROVE Queue!Spec => []Queue!TypeOK
  BY QueueInvariance, PTL DEF QueueInv

(* When main returns, every message has been processed and freed           *)
(* (cond_variable/main.c 41-44, 98-100).                                   *)
THEOREM Drained ==
  ASSUME QueueLen \in Nat PROVE Queue!Spec => []Queue!AllProcessed
  <1>1. QueueInv => Queue!AllProcessed
    BY QueueInvProcessed
  <1> QED
    BY <1>1, QueueInvariance, PTL

-----------------------------------------------------------------------------
(* Why the consumer wakes up: while it sleeps, whoever gave it something   *)
(* to do has not signalled yet.                                            *)
Stopping == ~running

NoSignalLost ==
  queuepc[Queue!consumer] = "asleep" =>
    /\ workq # Queue!NULL => \E p \in Queue!Producers : queuepc[p] = "linked"
    /\ Stopping => queuepc[Queue!stop] \in {"unlock", "signal"}

(* Who holds the mutex will give it back; running is cleared when stop has *)
(* it.                                                                     *)
HolderGoesOn ==
  /\ qlock # Queue!NULL => queuepc[qlock] \in {"locked", "walk", "linked", "unlock"}
  /\ Stopping <=> queuepc[Queue!stop] \in {"unlock", "signal", "exited"}

WakeInv == QueueInv /\ HolderGoesOn /\ NoSignalLost

LEMMA WakeInit == ASSUME QueueLen \in Nat, Queue!Init PROVE WakeInv
  <1>1. QueueInv
    BY QueueInitInv
  <1>2. ~Stopping
    BY DEF Stopping, Queue!Init
  <1>3. HolderGoesOn /\ NoSignalLost
    BY <1>2, QueueKinds DEF HolderGoesOn, NoSignalLost, Queue!Init
  <1> QED
    BY <1>1, <1>3 DEF WakeInv

LEMMA WakeStep ==
  ASSUME QueueLen \in Nat, WakeInv, [Queue!Next]_Queue!vars
  PROVE  WakeInv'
  <1>0. QueueInv' /\ QueueInv
    BY QueueStepInv DEF WakeInv
  <1>1. /\ QueueRoles /\ LockHeld /\ HolderGoesOn /\ NoSignalLost
        /\ qlock \in Queue!Threads \cup {Queue!NULL}
        /\ queuepc \in [Queue!Threads ->
             {"absent", "lock", "locked", "asleep", "process", "walk", "linked", "unlock",
              "signal", "exited"}]
    BY DEF WakeInv, QueueInv, Queue!TypeOK
  <1>2. running' = running => (Stopping' <=> Stopping)
    BY DEF Stopping
  <1>3. running' = FALSE => Stopping'
    BY DEF Stopping
  <1>4. Queue!Sleep => ~Stopping
    BY DEF Stopping, Queue!Sleep
  <1> USE <1>1, <1>2, QueueKinds
      DEF QueueRoles, LockHeld, HolderGoesOn, NoSignalLost, Queue!Goto, Queue!Signalled,
          Queue!list, Queue!mains, Queue!history, Queue!threads
  <1>5. ASSUME NEW t \in Queue!Threads, Queue!Lock(t)
         PROVE  (HolderGoesOn /\ NoSignalLost)'
    BY <1>5 DEF Queue!Lock
  <1>6. Queue!Sleep => (HolderGoesOn /\ NoSignalLost)'
    BY <1>4 DEF Queue!Sleep
  <1>7. Queue!SpuriousWakeup => (HolderGoesOn /\ NoSignalLost)'
    BY DEF Queue!SpuriousWakeup
  <1>8. Queue!Leave => (HolderGoesOn /\ NoSignalLost)'
    BY DEF Queue!Leave
  <1>9. Queue!Process => (HolderGoesOn /\ NoSignalLost)'
    BY DEF Queue!Process
  <1>10. Queue!Take => (HolderGoesOn /\ NoSignalLost)'
    BY DEF Queue!Take
  <1>11. ASSUME NEW p \in Queue!Producers, Queue!First(p)
         PROVE  (HolderGoesOn /\ NoSignalLost)'
    BY <1>11 DEF Queue!First
  <1>12. ASSUME NEW p \in Queue!Producers, Queue!Walk(p)
         PROVE  (HolderGoesOn /\ NoSignalLost)'
    BY <1>12 DEF Queue!Walk
  <1>13. ASSUME NEW p \in Queue!Producers, Queue!WalkOn(p)
         PROVE  (HolderGoesOn /\ NoSignalLost)'
    BY <1>13 DEF Queue!WalkOn
  <1>14. ASSUME NEW p \in Queue!Producers, Queue!Link(p)
         PROVE  (HolderGoesOn /\ NoSignalLost)'
    BY <1>14 DEF Queue!Link
  <1>15. ASSUME NEW p \in Queue!Producers, Queue!Signal(p)
         PROVE  (HolderGoesOn /\ NoSignalLost)'
    BY <1>15 DEF Queue!Signal
  <1>16. ASSUME NEW p \in Queue!Producers, Queue!Unlock(p)
         PROVE  (HolderGoesOn /\ NoSignalLost)'
    BY <1>16 DEF Queue!Unlock
  <1>17. Queue!ClearRunning => (HolderGoesOn /\ NoSignalLost)'
    BY <1>3 DEF Queue!ClearRunning
  <1>18. Queue!UnlockStop => (HolderGoesOn /\ NoSignalLost)'
    BY DEF Queue!UnlockStop
  <1>19. Queue!SignalStop => (HolderGoesOn /\ NoSignalLost)'
    BY DEF Queue!SignalStop
  <1>20. Queue!CreateConsumer => (HolderGoesOn /\ NoSignalLost)'
    BY DEF Queue!CreateConsumer, Queue!Start
  <1>21. Queue!CreateProducer => (HolderGoesOn /\ NoSignalLost)'
    <2>1. Queue!CreateProducer => created + 1 \in Queue!Producers
      BY <1>0 DEF QueueInv, Queue!TypeOK, Queue!CreateProducer, Queue!Producers
    <2> QED
      BY <2>1 DEF Queue!CreateProducer, Queue!Start
  <1>22. Queue!CreateStop => (HolderGoesOn /\ NoSignalLost)'
    BY DEF Queue!CreateStop, Queue!Start
  <1>23. Queue!End => (HolderGoesOn /\ NoSignalLost)'
    BY DEF Queue!End
  <1>24. UNCHANGED Queue!vars => (HolderGoesOn /\ NoSignalLost)'
    BY DEF Queue!vars
  <1> HIDE DEF HolderGoesOn, NoSignalLost
  <1>25. (HolderGoesOn /\ NoSignalLost)'
    <2>1. ASSUME NEW p \in Queue!Producers, Queue!Producer(p)
          PROVE  (HolderGoesOn /\ NoSignalLost)'
      BY <2>1, <1>5, <1>11, <1>12, <1>13, <1>14, <1>15, <1>16
      DEF Queue!Producer
    <2>2. CASE Queue!Consumer \/ Queue!SpuriousWakeup
      BY <2>2, <1>5, <1>6, <1>7, <1>8, <1>9, <1>10
      DEF Queue!Consumer
    <2>3. CASE Queue!Stop
      BY <2>3, <1>5, <1>17, <1>18, <1>19 DEF Queue!Stop
    <2>4. CASE Queue!Main
      BY <2>4, <1>20, <1>21, <1>22, <1>23 DEF Queue!Main
    <2> QED
      BY <1>24, <2>1, <2>2, <2>3, <2>4 DEF Queue!Next
  <1> QED
    BY <1>0, <1>25 DEF WakeInv

(* cond_variable/main.c 27-35, 68-70, 74-79: with any number of producers  *)
(* the consumer never sleeps with a message in the list, or with running   *)
(* cleared, unless a producer that holds the mutex, or stop, is about to   *)
(* signal; although stop does so without the mutex.                        *)
THEOREM ConsumerWoken ==
  ASSUME QueueLen \in Nat PROVE Queue!Spec => []NoSignalLost
  <1>1. Queue!Init => WakeInv
    BY WakeInit
  <1>2. WakeInv /\ [Queue!Next]_Queue!vars => WakeInv'
    BY WakeStep
  <1>3. WakeInv => NoSignalLost
    BY DEF WakeInv
  <1> QED
    BY <1>1, <1>2, <1>3, PTL DEF Queue!Spec

-----------------------------------------------------------------------------
(* The ranges.                                                             *)
LEMMA DivLess ==
  ASSUME NEW a \in Nat, NEW b \in Nat \ {0}, NEW k \in Nat
  PROVE  a \div b \in Nat /\ (a \div b < k <=> a < k * b)
  <1> DEFINE q == a \div b
             r == a % b
  <1>1. q \in Nat /\ r \in 0..(b - 1) /\ a = b * q + r
    OBVIOUS
  <1> HIDE DEF q, r
  <1>2. CASE q < k
    <2>1. PICK d \in Nat : k = q + 1 + d
      <3>1. k - q - 1 \in Nat /\ k = q + 1 + (k - q - 1)
        BY <1>1, <1>2
      <3>2. QED
        BY <3>1
    <2>2. k * b = b * q + b + d * b /\ d * b \in Nat
      BY <1>1, <2>1
    <2>3. QED
      BY <1>1, <1>2, <2>2 DEF q
  <1>3. CASE ~(q < k)
    <2>1. PICK d \in Nat : q = k + d
      <3>1. q - k \in Nat /\ q = k + (q - k)
        BY <1>1, <1>3
      <3>2. QED
        BY <3>1
    <2>2. b * q = k * b + d * b /\ d * b \in Nat
      BY <1>1, <2>1
    <2>3. QED
      BY <1>1, <1>3, <2>2 DEF q
  <1>4. QED
    BY <1>2, <1>3

LEMMA MulMono ==
  ASSUME NEW a \in Nat, NEW b \in Nat, NEW c \in Nat, a <= b PROVE a * c <= b * c
  <1>1. PICK d \in Nat : b = a + d
    <2>1. b - a \in Nat /\ b = a + (b - a)
      OBVIOUS
    <2>2. QED
      BY <2>1
  <1>2. b * c = a * c + d * c /\ d * c \in Nat
    BY <1>1
  <1>3. QED
    BY <1>2

LEMMA RangeBounds ==
  ASSUME NEW t \in Sums!Threads
  PROVE  /\ Sums!From(t) \in Nat \ {0} /\ Sums!To(t) \in Nat
         /\ Sums!From(t) <= Sums!To(t) + 1 /\ Sums!To(t) <= SumLen
  <1>1. /\ t \in Nat /\ t + 1 \in Nat /\ t + 1 <= SumThreads
        /\ SumLen \in Nat /\ SumThreads \in Nat \ {0}
    BY SizesAssumption DEF Sums!Threads
  <1>2. t * SumLen \in Nat /\ (t + 1) * SumLen \in Nat
    BY <1>1
  <1>3. t * SumLen <= (t + 1) * SumLen /\ (t + 1) * SumLen <= SumThreads * SumLen
    BY <1>1, MulMono
  <1> DEFINE f == (t * SumLen) \div SumThreads
             g == ((t + 1) * SumLen) \div SumThreads
  <1>4. f \in Nat /\ g \in Nat
    BY <1>1, <1>2, DivLess
  <1>5. f < g + 1
    <2>1. (t + 1) * SumLen < (g + 1) * SumThreads
      BY <1>1, <1>2, <1>4, DivLess
    <2>2. QED
      BY <1>1, <1>2, <1>3, <1>4, <2>1, DivLess
  <1>6. g < SumLen + 1
    <2>1. (SumLen + 1) * SumThreads = SumThreads * SumLen + SumThreads
          /\ SumThreads * SumLen \in Nat
      BY <1>1
    <2>2. (t + 1) * SumLen < (SumLen + 1) * SumThreads
      BY <1>1, <1>2, <1>3, <2>1
    <2>3. QED
      BY <1>1, <1>2, <2>2, DivLess
  <1>7. QED
    BY <1>1, <1>4, <1>5, <1>6 DEF Sums!From, Sums!To

LEMMA RangesApart ==
  ASSUME NEW t \in Sums!Threads, NEW u \in Sums!Threads, t < u
  PROVE  Sums!To(t) < Sums!From(u)
  <1>1. /\ t + 1 \in Nat /\ u \in Nat /\ t + 1 <= u
        /\ SumLen \in Nat /\ SumThreads \in Nat \ {0}
    BY SizesAssumption DEF Sums!Threads
  <1>2. /\ (t + 1) * SumLen \in Nat /\ u * SumLen \in Nat
        /\ (t + 1) * SumLen <= u * SumLen
    BY <1>1, MulMono
  <1> DEFINE f == ((t + 1) * SumLen) \div SumThreads
             g == (u * SumLen) \div SumThreads
  <1>3. f \in Nat /\ g \in Nat
    BY <1>1, <1>2, DivLess
  <1>4. u * SumLen < (g + 1) * SumThreads
    BY <1>1, <1>2, <1>3, DivLess
  <1>5. (t + 1) * SumLen < (g + 1) * SumThreads /\ (g + 1) * SumThreads \in Nat
    BY <1>1, <1>2, <1>3, <1>4
  <1>6. f < g + 1
    BY <1>1, <1>2, <1>3, <1>5, DivLess
  <1>7. QED
    BY <1>6 DEF Sums!From, Sums!To

LEMMA RangesCover ==
  ASSUME NEW k \in Sums!Numbers
  PROVE  \E t \in Sums!Threads : Sums!From(t) <= k /\ k <= Sums!To(t)
  <1>1. k \in Nat \ {0} /\ k <= SumLen /\ SumLen \in Nat \ {0} /\ SumThreads \in Nat \ {0}
    BY SizesAssumption DEF Sums!Numbers
  <1> DEFINE a == k * SumThreads
             t == (a - 1) \div SumLen
  <1>2. a \in Nat \ {0} /\ a - 1 \in Nat
    BY <1>1
  <1>3. a <= SumLen * SumThreads /\ SumThreads * SumLen \in Nat
    BY <1>1, MulMono
  <1>4. t \in Nat /\ t < SumThreads
    <2>1. a - 1 < SumThreads * SumLen
      BY <1>1, <1>2, <1>3
    <2>2. QED
      BY <1>1, <1>2, <2>1, DivLess
  <1>5. t \in Sums!Threads
    BY <1>1, <1>4 DEF Sums!Threads
  <1>6. ~(a - 1 < t * SumLen) /\ a - 1 < (t + 1) * SumLen
    BY <1>1, <1>2, <1>4, DivLess
  <1>7. t * SumLen \in Nat /\ (t + 1) * SumLen \in Nat
    BY <1>1, <1>4
  <1> HIDE DEF a, t
  <1> DEFINE f == (t * SumLen) \div SumThreads
             g == ((t + 1) * SumLen) \div SumThreads
  <1>8. f \in Nat /\ f < k
    BY <1>1, <1>2, <1>6, <1>7, DivLess DEF a
  <1>9. g \in Nat /\ ~(g < k)
    BY <1>1, <1>2, <1>6, <1>7, DivLess DEF a
  <1>10. Sums!From(t) = f + 1 /\ Sums!To(t) = g
    BY DEF Sums!From, Sums!To
  <1> HIDE DEF f, g
  <1>11. Sums!From(t) <= k /\ k <= Sums!To(t)
    BY <1>1, <1>8, <1>9, <1>10
  <1>12. QED
    BY <1>5, <1>11

-----------------------------------------------------------------------------
(* The invariant of PartialSums.                                           *)

MainStates == [at : {"set", "create", "join", "ended", "crashed"}, i : 0..SumThreads,
               sum : [Sums!Numbers -> Nat]]

SumsTypeOK ==
  /\ thisBounds \in [Sums!Threads -> [from : Nat, to : Nat]]
  /\ totalSum_mutex \in Sums!Threads \cup {Sums!NoThread}
  /\ totalSum \in [Sums!Numbers -> Nat]
  /\ sumpc \in [Sums!Threads ->
       {"absent", "copy", "loop", "load", "store", "unlock", "returned"}]
  /\ myBounds \in [Sums!Threads -> [from : Nat, to : Nat]]
  /\ i \in [Sums!Threads -> Nat]
  /\ loaded \in [Sums!Threads -> [Sums!Numbers -> Nat]]
  /\ summain \in MainStates

RangeOf(t) == [from |-> Sums!From(t), to |-> Sums!To(t)]

(* Main has set the range of each thread that it creates, and creates and  *)
(* joins them in turn, those that could not be created as well.            *)
MainInTurn ==
  \A t \in Sums!Threads :
    /\ summain.at = "create" /\ t = summain.i => thisBounds[t] = RangeOf(t)
    /\ sumpc[t] # "absent" => thisBounds[t] = RangeOf(t)
    /\ summain.at \in {"set", "create"} /\ t >= summain.i => sumpc[t] = "absent"
    /\ summain.at = "join" /\ t < summain.i => sumpc[t] \in {"returned", "absent"}
    /\ summain.at = "ended" => sumpc[t] \in {"returned", "absent"}
MainInThreads == summain.at = "create" => summain.i \in Sums!Threads

(* A thread goes through its own range, and is through when it returns.    *)
InRange(t) ==
  sumpc[t] \notin {"absent", "copy"} =>
    /\ myBounds[t] = RangeOf(t)
    /\ Sums!From(t) <= i[t] /\ i[t] <= Sums!To(t) + 1
    /\ sumpc[t] \in {"load", "store", "unlock"} => i[t] <= Sums!To(t)
    /\ sumpc[t] = "returned" => i[t] = Sums!To(t) + 1

(* totalSum_mutex admits one thread to 27-29, and totalSum is still what   *)
(* that thread has read when it writes.                                    *)
HoldsMutex(t) ==
  /\ sumpc[t] \in {"load", "store", "unlock"} => totalSum_mutex = t
  /\ sumpc[t] = "store" => loaded[t] = totalSum

(* What a thread has added so far, and what is in the sum.                 *)
HasAdded(t, k) ==
  /\ sumpc[t] \notin {"absent", "copy"}
  /\ Sums!From(t) <= k
  /\ k < i[t] \/ (k = i[t] /\ sumpc[t] = "unlock")

SumOf(k) == IF \E t \in Sums!Threads : HasAdded(t, k) THEN 1 ELSE 0

SumsInv ==
  /\ SumsTypeOK /\ MainInTurn /\ MainInThreads
  /\ \A t \in Sums!Threads : InRange(t) /\ HoldsMutex(t)
  /\ \A k \in Sums!Numbers : totalSum[k] = SumOf(k)
  /\ summain.at = "ended" => summain.sum = totalSum

-----------------------------------------------------------------------------
LEMMA SumsInvImplies == SumsInv => Sums!EachAddedOnce
  <1> SUFFICES ASSUME SumsInv, summain.at = "ended", NEW k \in Sums!Numbers
               PROVE  summain.sum[k] = IF Sums!Missing(k) THEN 0 ELSE 1
    BY DEF Sums!EachAddedOnce
  <1>1. PICK t \in Sums!Threads : Sums!From(t) <= k /\ k <= Sums!To(t)
    BY RangesCover
  <1>2. \A u \in Sums!Threads :
          /\ sumpc[u] \in {"returned", "absent"}
          /\ sumpc[u] = "returned" => i[u] = Sums!To(u) + 1
    BY DEF SumsInv, MainInTurn, InRange
  <1>3. k \in Nat /\ \A u \in Sums!Threads : Sums!From(u) \in Nat /\ Sums!To(u) \in Nat
    BY RangeBounds, SizesAssumption DEF Sums!Numbers
  <1>4. ASSUME NEW u \in Sums!Threads, u # t PROVE ~HasAdded(u, k)
    <2>1. u < t \/ t < u
      BY <1>4 DEF Sums!Threads
    <2>2. Sums!To(u) < Sums!From(t) \/ Sums!To(t) < Sums!From(u)
      BY <2>1, RangesApart
    <2>3. sumpc[u] = "returned" => ~(Sums!From(u) <= k /\ k < i[u])
      BY <1>1, <1>2, <1>3, <2>2
    <2>4. QED
      BY <1>2, <2>3 DEF HasAdded
  <1>5. ASSUME NEW u \in Sums!Threads, k \in Sums!From(u)..Sums!To(u) PROVE u = t
    <2>1. ~(u < t) /\ ~(t < u)
      BY <1>1, <1>3, <1>5, RangesApart
    <2>2. QED
      BY <2>1 DEF Sums!Threads
  <1>6. Sums!Missing(k) <=> sumpc[t] = "absent"
    BY <1>1, <1>3, <1>5 DEF Sums!Missing
  <1>7. HasAdded(t, k) <=> sumpc[t] = "returned"
    BY <1>1, <1>2, <1>3 DEF HasAdded
  <1>8. summain.sum[k] = SumOf(k)
    BY DEF SumsInv
  <1>9. QED
    BY <1>2, <1>4, <1>6, <1>7, <1>8 DEF SumOf

LEMMA SumsInitInv == Sums!Init => SumsInv
  <1> SUFFICES ASSUME Sums!Init PROVE SumsInv
    OBVIOUS
  <1> USE DEF Sums!Init, Sums!Unset, Sums!NoSum, Sums!NoThread
  <1>1. SumsTypeOK /\ MainInThreads
    BY SizesAssumption DEF SumsTypeOK, MainStates, MainInThreads
  <1>2. MainInTurn
    BY DEF MainInTurn
  <1>3. \A t \in Sums!Threads : InRange(t) /\ HoldsMutex(t)
    BY DEF InRange, HoldsMutex
  <1>4. \A k \in Sums!Numbers : totalSum[k] = SumOf(k)
    BY DEF SumOf, HasAdded
  <1>5. QED
    BY <1>1, <1>2, <1>3, <1>4 DEF SumsInv

(* A step of main adds nothing and moves no thread but the one it creates. *)
LEMMA SumsMainInv == SumsInv /\ Sums!Main => SumsInv'
  <1> SUFFICES ASSUME SumsInv, Sums!Main PROVE SumsInv'
    OBVIOUS
  <1> USE DEF Sums!locals
  <1>1. /\ SumsTypeOK /\ MainInTurn /\ MainInThreads
        /\ \A t \in Sums!Threads : InRange(t) /\ HoldsMutex(t)
        /\ \A k \in Sums!Numbers : totalSum[k] = SumOf(k)
    BY DEF SumsInv
  <1>2. UNCHANGED <<totalSum_mutex, totalSum, myBounds, i, loaded>>
    BY DEF Sums!Main, Sums!SetBounds, Sums!Create, Sums!CreateFails, Sums!StartJoining,
           Sums!Join, Sums!JoinCrashes, Sums!Report
  <1>3. \A t \in Sums!Threads :
          sumpc'[t] = sumpc[t] \/ (sumpc[t] = "absent" /\ sumpc'[t] = "copy")
    BY <1>1 DEF Sums!Main, Sums!SetBounds, Sums!Create, Sums!CreateFails, Sums!StartJoining,
                Sums!Join, Sums!JoinCrashes, Sums!Report, SumsTypeOK, MainStates, MainInTurn,
                MainInThreads
  <1>4. SumsTypeOK' /\ MainInThreads' /\ MainInTurn'
    <2>1. CASE Sums!SetBounds
      <3>1. RangeOf(summain.i) \in [from : Nat, to : Nat]
        BY <2>1, RangeBounds DEF Sums!SetBounds, RangeOf
      <3>2. thisBounds' = [thisBounds EXCEPT ![summain.i] = RangeOf(summain.i)]
        BY <2>1 DEF Sums!SetBounds, RangeOf
      <3>3. SumsTypeOK'
        <4>1. thisBounds' \in [Sums!Threads -> [from : Nat, to : Nat]]
          BY <1>1, <3>1, <3>2 DEF SumsTypeOK
        <4>2. summain' \in MainStates
          BY <1>1, <2>1 DEF Sums!SetBounds, SumsTypeOK, MainStates
        <4>3. QED
          BY <1>1, <1>2, <2>1, <4>1, <4>2 DEF Sums!SetBounds, SumsTypeOK
      <3>4. MainInTurn'
        <4>1. /\ summain.at = "set" /\ summain.i \in Sums!Threads
              /\ summain'.at = "create" /\ summain'.i = summain.i /\ sumpc' = sumpc
          BY <1>1, <2>1 DEF Sums!SetBounds, SumsTypeOK, MainStates
        <4>2. thisBounds'[summain.i] = RangeOf(summain.i)
          BY <1>1, <3>2, <4>1 DEF SumsTypeOK
        <4>3. \A t \in Sums!Threads :
                t # summain.i => thisBounds'[t] = thisBounds[t]
          BY <1>1, <3>2 DEF SumsTypeOK
        <4>4. QED
          BY <1>1, <4>1, <4>2, <4>3 DEF MainInTurn, RangeOf
      <3>5. MainInThreads'
        BY <1>1, <2>1 DEF Sums!SetBounds, SumsTypeOK, MainStates, MainInThreads
      <3>6. QED
        BY <3>3, <3>4, <3>5
    <2>2. CASE Sums!Create
      <3>1. summain.i \in Sums!Threads /\ summain.i + 1 \in 0..SumThreads
        BY <1>1, <2>2, SizesAssumption
        DEF Sums!Create, MainInThreads, Sums!Threads
      <3>2. SumsTypeOK' /\ MainInThreads'
        BY <1>1, <2>2, <3>1 DEF Sums!Create, SumsTypeOK, MainStates, MainInThreads
      <3>3. MainInTurn'
        <4>1. /\ summain.at = "create" /\ summain'.at = "set"
              /\ summain'.i = summain.i + 1 /\ UNCHANGED thisBounds
              /\ sumpc' = [sumpc EXCEPT ![summain.i] = "copy"]
          BY <1>1, <2>2 DEF Sums!Create, SumsTypeOK, MainStates
        <4>2. QED
          BY <1>1, <3>1, <4>1 DEF SumsTypeOK, MainInTurn, Sums!Threads, RangeOf
      <3>4. QED
        BY <3>2, <3>3
    <2>3. CASE Sums!StartJoining
      <3>1. SumsTypeOK'
        <4>1. 0 \in 0..SumThreads
          BY <2>3, SizesAssumption DEF Sums!StartJoining, Sums!Threads
        <4>2. summain' \in MainStates
          BY <1>1, <2>3, <4>1 DEF Sums!StartJoining, SumsTypeOK, MainStates
        <4>3. QED
          BY <1>1, <2>3, <4>2 DEF Sums!StartJoining, SumsTypeOK
      <3>2. MainInThreads'
        BY <1>1, <2>3 DEF Sums!StartJoining, SumsTypeOK, MainStates, MainInThreads
      <3>3. MainInTurn'
        <4>1. /\ summain'.at = "join" /\ summain'.i = 0
              /\ UNCHANGED <<thisBounds, sumpc>>
          BY <1>1, <2>3 DEF Sums!StartJoining, SumsTypeOK, MainStates
        <4>2. QED
          BY <1>1, <4>1 DEF MainInTurn, Sums!Threads, RangeOf
      <3>4. QED
        BY <3>1, <3>2, <3>3
    <2>4. CASE Sums!Join
      <3>1. SumsTypeOK'
        <4>1. summain.i + 1 \in 0..SumThreads
          BY <2>4, SizesAssumption DEF Sums!Join, Sums!Threads
        <4>2. summain' \in MainStates
          BY <1>1, <2>4, <4>1 DEF Sums!Join, SumsTypeOK, MainStates
        <4>3. QED
          BY <1>1, <2>4, <4>2 DEF Sums!Join, SumsTypeOK
      <3>2. MainInThreads'
        BY <1>1, <2>4 DEF Sums!Join, SumsTypeOK, MainStates, MainInThreads
      <3>3. MainInTurn'
        <4>1. /\ summain.at = "join" /\ summain.i \in Sums!Threads
              /\ sumpc[summain.i] \in {"returned", "absent"}
              /\ summain'.at = "join" /\ summain'.i = summain.i + 1
              /\ UNCHANGED <<thisBounds, sumpc>>
          BY <1>1, <2>4 DEF Sums!Join, SumsTypeOK, MainStates
        <4>2. \A t \in Sums!Threads :
                t < summain'.i => t < summain.i \/ t = summain.i
          BY <4>1, SizesAssumption DEF Sums!Threads
        <4>3. QED
          BY <1>1, <4>1, <4>2 DEF MainInTurn, RangeOf
      <3>4. QED
        BY <3>1, <3>2, <3>3
    <2>5. CASE Sums!Report
      <3>1. SumsTypeOK'
        BY <1>1, <2>5 DEF Sums!Report, SumsTypeOK, MainStates
      <3>2. MainInThreads'
        BY <1>1, <2>5 DEF Sums!Report, SumsTypeOK, MainStates, MainInThreads
      <3>3. MainInTurn'
        <4>1. /\ summain.at = "join" /\ summain.i = SumThreads
              /\ summain'.at = "ended" /\ UNCHANGED <<thisBounds, sumpc>>
          BY <1>1, <2>5 DEF Sums!Report, SumsTypeOK, MainStates
        <4>2. \A t \in Sums!Threads : sumpc[t] \in {"returned", "absent"}
          BY <1>1, <4>1, SizesAssumption DEF MainInTurn, Sums!Threads
        <4>3. QED
          BY <1>1, <4>1, <4>2 DEF MainInTurn, RangeOf
      <3>4. QED
        BY <3>1, <3>2, <3>3
    <2>6. CASE Sums!CreateFails
      <3>1. summain.i \in Sums!Threads /\ summain.i + 1 \in 0..SumThreads
        BY <1>1, <2>6, SizesAssumption
        DEF Sums!CreateFails, MainInThreads, Sums!Threads
      <3>2. SumsTypeOK' /\ MainInThreads'
        BY <1>1, <2>6, <3>1
        DEF Sums!CreateFails, SumsTypeOK, MainStates, MainInThreads
      <3>3. MainInTurn'
        <4>1. /\ summain.at = "create" /\ summain'.at = "set"
              /\ summain'.i = summain.i + 1 /\ UNCHANGED <<thisBounds, sumpc>>
          BY <1>1, <2>6 DEF Sums!CreateFails, SumsTypeOK, MainStates
        <4>2. \A t \in Sums!Threads : t >= summain'.i => t >= summain.i
          BY <3>1, <4>1 DEF Sums!Threads
        <4>3. QED
          BY <1>1, <4>1, <4>2 DEF MainInTurn, RangeOf
      <3>4. QED
        BY <3>2, <3>3
    <2>7. CASE Sums!JoinCrashes
      <3>1. SumsTypeOK' /\ MainInThreads'
        BY <1>1, <2>7 DEF Sums!JoinCrashes, SumsTypeOK, MainStates, MainInThreads
      <3>2. MainInTurn'
        <4>1. summain'.at = "crashed" /\ UNCHANGED <<thisBounds, sumpc>>
          BY <1>1, <2>7 DEF Sums!JoinCrashes, SumsTypeOK, MainStates
        <4>2. QED
          BY <1>1, <4>1 DEF MainInTurn, RangeOf
      <3>3. QED
        BY <3>1, <3>2
    <2>8. QED
      BY <2>1, <2>2, <2>3, <2>4, <2>5, <2>6, <2>7 DEF Sums!Main
  <1>5. \A t \in Sums!Threads : InRange(t)' /\ HoldsMutex(t)'
    BY <1>1, <1>2, <1>3 DEF InRange, HoldsMutex
  <1>6. ASSUME NEW k \in Sums!Numbers PROVE totalSum'[k] = SumOf(k)'
    <2>1. \A t \in Sums!Threads : HasAdded(t, k)' <=> HasAdded(t, k)
      BY <1>2, <1>3 DEF HasAdded
    <2>2. QED
      BY <1>1, <1>2, <2>1 DEF SumOf
  <1>7. summain'.at = "ended" => summain'.sum = totalSum'
    BY <1>1
    DEF SumsInv, SumsTypeOK, MainStates, Sums!Main, Sums!SetBounds, Sums!Create,
        Sums!CreateFails, Sums!StartJoining, Sums!Join, Sums!JoinCrashes, Sums!Report
  <1>8. QED
    BY <1>4, <1>5, <1>6, <1>7 DEF SumsInv

(* A step of a thread that adds nothing                                    *)
LEMMA SumsThreadInv ==
  ASSUME NEW t \in Sums!Threads, SumsInv,
         \/ Sums!Copy(t) \/ Sums!Lock(t) \/ Sums!Load(t)
         \/ Sums!Unlock(t) \/ Sums!Return(t)
  PROVE  SumsInv'
  <1> USE DEF Sums!Copy, Sums!Lock, Sums!Load, Sums!Unlock, Sums!Return, Sums!Goto,
              Sums!locals
  <1>1. /\ SumsTypeOK /\ MainInTurn /\ MainInThreads
        /\ \A u \in Sums!Threads : InRange(u) /\ HoldsMutex(u)
        /\ \A k \in Sums!Numbers : totalSum[k] = SumOf(k)
    BY DEF SumsInv
  <1>2. SumsTypeOK'
    <2>1. UNCHANGED <<thisBounds, totalSum, summain>>
      OBVIOUS
    <2>2. sumpc' \in [Sums!Threads ->
            {"absent", "copy", "loop", "load", "store", "unlock", "returned"}]
      BY <1>1 DEF SumsTypeOK
    <2>3. totalSum_mutex' \in Sums!Threads \cup {Sums!NoThread}
      BY <1>1 DEF SumsTypeOK
    <2>4. myBounds' \in [Sums!Threads -> [from : Nat, to : Nat]]
      BY <1>1 DEF SumsTypeOK
    <2>5. i' \in [Sums!Threads -> Nat]
      <3>1. thisBounds[t].from \in Nat /\ i[t] + 1 \in Nat
        BY <1>1 DEF SumsTypeOK
      <3>2. \/ i' = i \/ i' = [i EXCEPT ![t] = thisBounds[t].from]
            \/ i' = [i EXCEPT ![t] = i[t] + 1]
        OBVIOUS
      <3>3. QED
        BY <1>1, <3>1, <3>2 DEF SumsTypeOK
    <2>6. loaded' \in [Sums!Threads -> [Sums!Numbers -> Nat]]
      BY <1>1 DEF SumsTypeOK
    <2>7. QED
      BY <1>1, <2>1, <2>2, <2>3, <2>4, <2>5, <2>6 DEF SumsTypeOK
  <1>3. MainInTurn' /\ MainInThreads'
    BY <1>1 DEF SumsTypeOK, MainInTurn, MainInThreads
  <1>4. \A u \in Sums!Threads \ {t} :
          /\ sumpc'[u] = sumpc[u] /\ myBounds'[u] = myBounds[u]
          /\ i'[u] = i[u] /\ loaded'[u] = loaded[u]
    BY <1>1 DEF SumsTypeOK
  <1>5. \A u \in Sums!Threads : InRange(u)'
    <2>1. InRange(t)'
      <3>1. CASE Sums!Copy(t)
        <4>1. /\ myBounds'[t] = RangeOf(t) /\ i'[t] = Sums!From(t)
              /\ sumpc'[t] = "loop"
          BY <1>1, <3>1 DEF SumsTypeOK, MainInTurn, RangeOf
        <4>2. QED
          BY <4>1, RangeBounds DEF InRange
      <3>2. CASE Sums!Lock(t) \/ Sums!Load(t) \/ Sums!Return(t)
        <4>1. myBounds'[t] = myBounds[t] /\ i'[t] = i[t] /\ i[t] \in Nat
          BY <1>1, <3>2 DEF SumsTypeOK
        <4>2. Sums!From(t) \in Nat /\ Sums!To(t) \in Nat
          BY RangeBounds
        <4>3. /\ sumpc[t] \notin {"absent", "copy"}
              /\ sumpc'[t] \in {"load", "store", "unlock"} =>
                   sumpc[t] \in {"load", "store", "unlock"} \/ i[t] <= myBounds[t].to
              /\ sumpc'[t] = "returned" => i[t] > myBounds[t].to
          BY <1>1, <3>2 DEF SumsTypeOK
        <4>4. QED
          BY <1>1, <4>1, <4>2, <4>3 DEF InRange, RangeOf
      <3>3. CASE Sums!Unlock(t)
        <4>1. /\ i'[t] = i[t] + 1 /\ sumpc'[t] = "loop" /\ i[t] \in Nat
              /\ sumpc[t] = "unlock" /\ myBounds'[t] = myBounds[t]
          BY <1>1, <3>3 DEF SumsTypeOK
        <4>2. QED
          BY <1>1, <4>1, RangeBounds DEF InRange
      <3>4. QED
        BY <3>1, <3>2, <3>3
    <2>2. QED
      BY <1>1, <1>4, <2>1 DEF InRange
  <1>6. \A u \in Sums!Threads : HoldsMutex(u)'
    <2>1. HoldsMutex(t)'
      BY <1>1 DEF SumsTypeOK, HoldsMutex
    <2>2. ASSUME NEW u \in Sums!Threads \ {t} PROVE HoldsMutex(u)'
      <3>1. HoldsMutex(u) /\ HoldsMutex(t) /\ u # Sums!NoThread
        BY <1>1 DEF Sums!Threads, Sums!NoThread
      <3>2. sumpc[u] \in {"load", "store", "unlock"} => totalSum_mutex' = totalSum_mutex
        BY <1>1, <2>2, <3>1 DEF HoldsMutex
      <3>3. QED
        BY <1>4, <3>1, <3>2 DEF HoldsMutex
    <2>3. QED
      BY <2>1, <2>2
  <1>7. ASSUME NEW k \in Sums!Numbers PROVE totalSum'[k] = SumOf(k)'
    <2>1. HasAdded(t, k)' <=> HasAdded(t, k)
      <3>1. k \in Nat /\ i[t] \in Nat
        BY <1>1 DEF SumsTypeOK, Sums!Numbers
      <3>2. CASE Sums!Copy(t)
        <4>1. i'[t] = Sums!From(t) /\ sumpc'[t] = "loop" /\ sumpc[t] = "copy"
          BY <1>1, <3>2 DEF SumsTypeOK, MainInTurn, RangeOf
        <4>2. QED
          BY <3>1, <4>1, RangeBounds DEF HasAdded
      <3>3. CASE Sums!Lock(t) \/ Sums!Load(t) \/ Sums!Return(t)
        BY <1>1, <3>3 DEF HasAdded, SumsTypeOK
      <3>4. CASE Sums!Unlock(t)
        <4>1. i'[t] = i[t] + 1 /\ sumpc'[t] = "loop" /\ sumpc[t] = "unlock"
          BY <1>1, <3>4 DEF SumsTypeOK
        <4>2. QED
          BY <3>1, <4>1 DEF HasAdded
      <3>5. QED
        BY <3>2, <3>3, <3>4
    <2>2. \A u \in Sums!Threads : HasAdded(u, k)' <=> HasAdded(u, k)
      BY <1>4, <2>1 DEF HasAdded
    <2>3. QED
      BY <1>1, <2>2 DEF SumOf
  <1>8. summain'.at = "ended" => summain'.sum = totalSum'
    BY DEF SumsInv
  <1>9. QED
    BY <1>2, <1>3, <1>5, <1>6, <1>7, <1>8 DEF SumsInv

(* The step that adds: nobody has added that number yet.                   *)
LEMMA SumsStoreInv ==
  ASSUME NEW t \in Sums!Threads, SumsInv, Sums!Store(t) PROVE SumsInv'
  <1> USE DEF Sums!Store, Sums!Goto, Sums!locals
  <1> DEFINE n == i[t]
  <1>1. /\ SumsTypeOK /\ MainInTurn /\ MainInThreads
        /\ \A u \in Sums!Threads : InRange(u) /\ HoldsMutex(u)
        /\ \A k \in Sums!Numbers : totalSum[k] = SumOf(k)
    BY DEF SumsInv
  <1>2. n \in Nat /\ Sums!From(t) <= n /\ n <= Sums!To(t)
    BY <1>1 DEF SumsTypeOK, InRange
  <1>3. n \in Sums!Numbers
    BY <1>2, RangeBounds, SizesAssumption DEF Sums!Numbers
  <1>4. totalSum' = [totalSum EXCEPT ![n] = @ + 1]
    BY <1>1 DEF HoldsMutex
  <1>5. ASSUME NEW u \in Sums!Threads PROVE ~HasAdded(u, n)
    <2>1. CASE u = t
      BY <1>2, <2>1 DEF HasAdded
    <2>2. CASE u # t
      <3>1. /\ Sums!From(u) \in Nat /\ Sums!To(u) \in Nat
            /\ Sums!From(t) \in Nat /\ Sums!To(t) \in Nat
        BY RangeBounds
      <3>2. u < t \/ t < u
        BY <2>2 DEF Sums!Threads
      <3>3. Sums!To(u) < Sums!From(t) \/ Sums!To(t) < Sums!From(u)
        BY <3>2, RangesApart
      <3>4. /\ i[u] \in Nat
            /\ sumpc[u] \notin {"absent", "copy"} => i[u] <= Sums!To(u) + 1
            /\ sumpc[u] = "unlock" => i[u] <= Sums!To(u)
        BY <1>1 DEF SumsTypeOK, InRange
      <3>5. QED
        BY <1>2, <3>1, <3>3, <3>4 DEF HasAdded
    <2>3. QED
      BY <2>1, <2>2
  <1>6. SumsTypeOK'
    BY <1>1, <1>3, <1>4 DEF SumsTypeOK
  <1>7. MainInTurn' /\ MainInThreads'
    BY <1>1 DEF SumsTypeOK, MainInTurn, MainInThreads
  <1>8. \A u \in Sums!Threads : InRange(u)' /\ HoldsMutex(u)'
    BY <1>1 DEF SumsTypeOK, InRange, HoldsMutex
  <1>9. ASSUME NEW k \in Sums!Numbers PROVE totalSum'[k] = SumOf(k)'
    <2>1. ASSUME NEW u \in Sums!Threads
          PROVE  HasAdded(u, k)' <=> HasAdded(u, k) \/ (u = t /\ k = n)
      BY <1>1, <1>2 DEF HasAdded, SumsTypeOK
    <2>2. CASE k = n
      <3>1. totalSum[n] = 0
        BY <1>1, <1>3, <1>5 DEF SumOf
      <3>2. SumOf(k)' = 1
        BY <2>1, <2>2 DEF SumOf
      <3>3. QED
        BY <1>1, <1>3, <1>4, <2>2, <3>1, <3>2 DEF SumsTypeOK
    <2>3. CASE k # n
      <3>1. SumOf(k)' = SumOf(k)
        BY <2>1, <2>3 DEF SumOf
      <3>2. QED
        BY <1>1, <1>4, <2>3, <3>1 DEF SumsTypeOK
    <2>4. QED
      BY <2>2, <2>3
  <1>10. summain'.at # "ended"
    OBVIOUS
  <1>11. QED
    BY <1>6, <1>7, <1>8, <1>9, <1>10 DEF SumsInv

LEMMA SumsStepInv == SumsInv /\ [Sums!Next]_Sums!vars => SumsInv'
  <1> SUFFICES ASSUME SumsInv, [Sums!Next]_Sums!vars PROVE SumsInv'
    OBVIOUS
  <1>1. CASE Sums!Main
    BY <1>1, SumsMainInv
  <1>2. ASSUME NEW t \in Sums!Threads, Sums!Thread(t) PROVE SumsInv'
    BY <1>2, SumsThreadInv, SumsStoreInv DEF Sums!Thread
  <1>3. CASE UNCHANGED Sums!vars
    BY <1>3
    DEF Sums!vars, Sums!locals, SumsInv, SumsTypeOK, MainInTurn, MainInThreads, InRange,
        HoldsMutex, SumOf, HasAdded
  <1>4. QED
    BY <1>1, <1>2, <1>3 DEF Sums!Next

-----------------------------------------------------------------------------
(* What the programs with a lock have in common.  A call is inside a       *)
(* section if the lock was taken before it and not given back since.       *)

CallNames == {"wait", "put", "post", "join", "init", "announce"}

\* The calls of Reinitialised alone
Special == {"init", "announce"}

Inside(c, k) ==
  \E j \in 1..(k - 1) :
    c[j] \in {"wait", "try"} /\ \A m \in (j + 1)..(k - 1) : c[m] # "post"

Locks(c) ==
  \A k \in DOMAIN c :
    /\ k \in Nat \ {0} /\ c[k] # "set"
    /\ c[k] \in Writes \cup {"seek", "post"} => Inside(c, k)
    /\ c[k] = "write" => k - 1 \in DOMAIN c /\ c[k - 1] = "seek"

\* The calls that write follow one another.
WritesOnce(c) ==
  \A j, k \in DOMAIN c : c[j] \in Writes /\ c[k] \in Writes /\ j < k => k = j + 1

LEMMA PrintStringLocks ==
  /\ Locks(PrintString) /\ WritesOnce(PrintString)
  /\ \A k \in DOMAIN PrintString : PrintString[k] \notin Special
  BY DEF PrintString, Locks, WritesOnce, Inside, Writes, Special

LEMMA PrintAndJoinLocks ==
  LET c == Append(PrintString, "join")
  IN  /\ Locks(c) /\ WritesOnce(c)
      /\ \A k \in DOMAIN c : c[k] \notin Special
  <1> DEFINE d == <<"wait", "put", "put", "post", "join">>
  <1>1. Append(PrintString, "join") = d
    <2>1. /\ PrintString \in Seq(CallNames) /\ Len(PrintString) = 4
          /\ d \in Seq(CallNames) /\ Len(d) = 5
      BY DEF PrintString, CallNames
    <2>2. "join" \in CallNames
      BY DEF CallNames
    <2> DEFINE s == PrintString
               t == Append(s, "join")
    <2> HIDE DEF s
    <2>3. s \in Seq(CallNames)
      BY <2>1 DEF s
    <2>4. /\ t \in Seq(CallNames) /\ Len(t) = Len(s) + 1
          /\ \A k \in 1..Len(s) : t[k] = s[k]
          /\ t[Len(s) + 1] = "join"
      BY <2>3, <2>2, AppendProperties
    <2>5. /\ Len(t) = 5 /\ t[5] = "join" /\ \A k \in 1..4 : t[k] = s[k]
      BY <2>1, <2>4 DEF s
    <2> HIDE DEF t
    <2>6. \A k \in 1..5 : t[k] = d[k]
      BY <2>5 DEF s, PrintString
    <2>7. t = d
      BY <2>1, <2>4, <2>5, <2>6, SeqEqual
    <2>8. QED
      BY <2>7 DEF t, s
  <1>2. Locks(d) /\ WritesOnce(d) /\ \A k \in DOMAIN d : d[k] \notin Special
    BY DEF Locks, WritesOnce, Inside, Writes, Special
  <1>3. QED
    BY <1>1, <1>2

LEMMA ReinitialisedLocks ==
  /\ Locks(Reinitialised.A) /\ WritesOnce(Reinitialised.A)
  /\ Locks(Reinitialised.B) /\ WritesOnce(Reinitialised.B)
  /\ \A k \in DOMAIN Reinitialised.A :
       Reinitialised.A[k] \notin {"init", "announce", "write"}
  /\ \A k \in DOMAIN Reinitialised.B :
       /\ Reinitialised.B[k] = "init" => k = 5
       /\ Reinitialised.B[k] = "announce" => k > 5
       /\ Reinitialised.B[k] # "write"
       /\ Reinitialised.B[k] \in Writes => k < 5
  <1> DEFINE a == <<"wait", "put", "put", "post", "join", "wait", "post">>
             b == <<"wait", "put", "put", "post", "init", "announce", "announce",
                    "wait", "post">>
  <1>1. Reinitialised.A = a /\ Reinitialised.B = b
    <2>1. PrintString \in Seq(CallNames) /\ Len(PrintString) = 4
      BY DEF PrintString, CallNames
    <2>2. ASSUME NEW s \in Seq(CallNames), NEW d \in Seq(CallNames), Len(d) = 4 + Len(s),
                 \A k \in 1..4 : d[k] = PrintString[k],
                 \A k \in 1..Len(s) : d[k + 4] = s[k]
          PROVE  PrintString \o s = d
      <3> DEFINE p == PrintString
                 t == p \o s
      <3> HIDE DEF p
      <3>1. Len(s) \in Nat /\ Len(p) = 4 /\ p \in Seq(CallNames)
        BY <2>1, LenProperties DEF p
      <3>2. /\ t \in Seq(CallNames) /\ Len(t) = Len(p) + Len(s)
            /\ \A k \in 1..(Len(p) + Len(s)) :
                 t[k] = IF k <= Len(p) THEN p[k] ELSE s[k - Len(p)]
        BY <3>1, ConcatProperties
      <3> HIDE DEF t
      <3>3. ASSUME NEW k \in 1..Len(t) PROVE t[k] = d[k]
        <4>1. CASE k <= 4
          BY <2>2, <3>1, <3>2, <4>1 DEF p
        <4>2. CASE k > 4
          <5>1. k - 4 \in 1..Len(s) /\ (k - 4) + 4 = k /\ t[k] = s[k - 4]
            BY <3>1, <3>2, <4>2
          <5>2. QED
            BY <2>2, <5>1
        <4>3. QED
          BY <4>1, <4>2
      <3>4. t = d
        BY <2>2, <3>1, <3>2, <3>3, SeqEqual
      <3>5. QED
        BY <3>4 DEF t, p
    <2>3. PrintString \o <<"join", "wait", "post">> = a
      <3> DEFINE s == <<"join", "wait", "post">>
      <3>1. /\ s \in Seq(CallNames) /\ a \in Seq(CallNames) /\ Len(a) = 4 + Len(s)
            /\ \A k \in 1..4 : a[k] = PrintString[k]
            /\ \A k \in 1..Len(s) : a[k + 4] = s[k]
        <4>1. /\ s \in Seq(CallNames) /\ Len(s) = 3 /\ a \in Seq(CallNames) /\ Len(a) = 7
              /\ \A k \in 1..4 : a[k] = PrintString[k]
              /\ \A k \in 1..3 : a[k + 4] = s[k]
          BY DEF CallNames, PrintString
        <4> HIDE DEF s, a
        <4>2. QED
          BY <4>1
      <3> HIDE DEF s, a
      <3>2. PrintString \o s = a
        BY <2>2, <3>1
      <3>3. QED
        BY <3>2 DEF s
    <2>4. PrintString \o <<"init", "announce", "announce", "wait", "post">> = b
      <3> DEFINE s == <<"init", "announce", "announce", "wait", "post">>
      <3>1. /\ s \in Seq(CallNames) /\ b \in Seq(CallNames) /\ Len(b) = 4 + Len(s)
            /\ \A k \in 1..4 : b[k] = PrintString[k]
            /\ \A k \in 1..Len(s) : b[k + 4] = s[k]
        <4>1. /\ s \in Seq(CallNames) /\ Len(s) = 5 /\ b \in Seq(CallNames) /\ Len(b) = 9
              /\ \A k \in 1..4 : b[k] = PrintString[k]
              /\ \A k \in 1..5 : b[k + 4] = s[k]
          BY DEF CallNames, PrintString
        <4> HIDE DEF s, b
        <4>2. QED
          BY <4>1
      <3> HIDE DEF s, b
      <3>2. PrintString \o s = b
        BY <2>2, <3>1
      <3>3. QED
        BY <3>2 DEF s
    <2>5. QED
      BY <2>3, <2>4 DEF Reinitialised, Pair
  <1>2. /\ Locks(a) /\ WritesOnce(a)
        /\ \A k \in DOMAIN a : a[k] \notin {"init", "announce", "write"}
    BY DEF Locks, WritesOnce, Inside, Writes
  <1>3. /\ WritesOnce(b)
        /\ \A k \in DOMAIN b :
             /\ b[k] = "init" => k = 5
             /\ b[k] = "announce" => k > 5
             /\ b[k] # "write"
             /\ b[k] \in Writes => k < 5
    BY DEF WritesOnce, Writes
  <1>4. Locks(b)
    <2>1. Inside(b, 2) /\ Inside(b, 3) /\ Inside(b, 4)
      BY DEF Inside
    <2>2. Inside(b, 9)
      <3>1. b[8] \in {"wait", "try"} /\ \A m \in (8 + 1)..(9 - 1) : b[m] # "post"
        OBVIOUS
      <3>2. 8 \in 1..(9 - 1)
        OBVIOUS
      <3>3. QED
        BY <3>1, <3>2 DEF Inside
    <2>3. QED
      BY <2>1, <2>2 DEF Locks, Writes
  <1> HIDE DEF a, b
  <1>5. QED
    BY <1>1, <1>2, <1>3, <1>4

LEMMA FileLocks ==
  \A c \in {LockFile, LockUnlock} :
    Locks(c) /\ WritesOnce(c) /\ \A k \in DOMAIN c : c[k] \notin Special
  <1>1. Locks(LockFile) /\ WritesOnce(LockFile)
    BY DEF LockFile, Locks, WritesOnce, Inside, Writes
  <1>2. WritesOnce(LockUnlock)
    BY DEF LockUnlock, WritesOnce, Writes
  <1>3. Inside(LockUnlock, 4)
    BY DEF LockUnlock, Inside
  <1>4. Locks(LockUnlock)
    BY <1>3 DEF LockUnlock, Locks, Writes
  <1>5. /\ \A k \in DOMAIN LockFile : LockFile[k] \notin Special
        /\ \A k \in DOMAIN LockUnlock : LockUnlock[k] \notin Special
    BY DEF LockFile, LockUnlock, Special
  <1>6. QED
    BY <1>1, <1>2, <1>4, <1>5

LEMMA SemaphoreLocks ==
  LET c == ProcessSemaphoreChild
  IN  Locks(c) /\ WritesOnce(c) /\ \A k \in DOMAIN c : c[k] \notin Special
  BY DEF ProcessSemaphoreChild, Locks, WritesOnce, Inside, Writes, Special

LEMMA MutexLocks ==
  Locks(MutexThread) /\ \A k \in DOMAIN MutexThread : MutexThread[k] \notin Special
  <1> DEFINE c == MutexThread
             four == <<"wait", "seek", "write", "post">>
  <1>1. Loops * 4 \in Nat /\ c = [k \in 1..(Loops * 4) |-> four[((k - 1) % 4) + 1]]
    BY LoopsAssumption DEF MutexThread, Repeated
  <1>2. ASSUME NEW k \in DOMAIN c
        PROVE  /\ k \in Nat \ {0} /\ k \in 1..(Loops * 4)
               /\ \/ (k - 1) % 4 = 0 /\ c[k] = "wait"
                  \/ (k - 1) % 4 = 1 /\ c[k] = "seek"
                  \/ (k - 1) % 4 = 2 /\ c[k] = "write"
                  \/ (k - 1) % 4 = 3 /\ c[k] = "post"
    <2>1. k \in 1..(Loops * 4) /\ c[k] = four[((k - 1) % 4) + 1]
      BY <1>1
    <2>2. (k - 1) % 4 \in 0..3
      BY <2>1
    <2>3. QED
      BY <2>1, <2>2
  <1>3. ASSUME NEW k \in DOMAIN c, c[k] \in Writes \cup {"seek", "post"}
        PROVE  Inside(c, k)
    <2> DEFINE j == k - ((k - 1) % 4)
    <2>1. /\ k \in 1..(Loops * 4) /\ (k - 1) % 4 \in 1..3 /\ j \in 1..(k - 1)
          /\ k - j <= 3
      BY <1>1, <1>2, <1>3 DEF Writes
    <2>2. j \in DOMAIN c /\ (j - 1) % 4 = 0
      BY <1>1, <2>1
    <2>3. c[j] = "wait"
      BY <1>2, <2>2
    <2>4. ASSUME NEW m \in (j + 1)..(k - 1) PROVE c[m] # "post"
      <3>1. m \in DOMAIN c /\ (m - 1) % 4 \in 1..2
        <4>1. m \in 1..(Loops * 4) /\ (m = j + 1 \/ m = j + 2)
          BY <1>1, <2>1
        <4>2. (m - 1) % 4 \in 1..2
          BY <1>1, <2>1, <2>2, <4>1
        <4>3. QED
          BY <1>1, <4>1, <4>2
      <3>2. QED
        BY <1>2, <3>1
    <2>5. QED
      BY <2>1, <2>3, <2>4 DEF Inside
  <1>4. ASSUME NEW k \in DOMAIN c, c[k] = "write"
        PROVE  k - 1 \in DOMAIN c /\ c[k - 1] = "seek"
    <2>1. k \in 1..(Loops * 4) /\ (k - 1) % 4 = 2
      BY <1>2, <1>4
    <2>2. k - 1 \in DOMAIN c /\ (k - 2) % 4 = 1
      BY <1>1, <2>1
    <2>3. QED
      BY <1>2, <2>2
  <1>5. \A k \in DOMAIN c : k \in Nat \ {0} /\ c[k] \notin {"set", "init", "announce"}
    BY <1>2
  <1>6. QED
    BY <1>3, <1>4, <1>5 DEF Locks, Special

(* Every program that has a lock                                           *)
LEMMA ProgramLocks ==
  ASSUME NEW p \in Programs, p.lock # "none", NEW w \in Workers
  PROVE  /\ Locks(p[w])
         /\ p # Mutex => WritesOnce(p[w])
         /\ p # Reinitialised => \A k \in DOMAIN p[w] : p[w][k] \notin Special
  <1>1. CASE p \in {NamedSemaphore, UnnamedSemaphore}
    <2>1. p[w] = PrintString \/ p[w] = Append(PrintString, "join")
      BY <1>1 DEF NamedSemaphore, UnnamedSemaphore, Pair, Workers
    <2>2. QED
      BY <2>1, PrintStringLocks, PrintAndJoinLocks
  <1>2. CASE p = Reinitialised
    BY <1>2, ReinitialisedLocks DEF Workers
  <1>3. CASE p = ProcessSemaphore
    BY <1>3, SemaphoreLocks DEF ProcessSemaphore, Pair, Workers
  <1>4. CASE p = Mutex
    BY <1>4, MutexLocks DEF Mutex, Pair, Workers
  <1>5. CASE p \in {NonMutex, SharedMemory, RaceCondition}
    BY <1>5 DEF NonMutex, SharedMemory, RaceCondition, Pair
  <1>6. ASSUME NEW a \in {LockFile, LockUnlock}, NEW b \in {LockFile, LockUnlock},
               p = Pair("fcntl", a, b)
        PROVE  Locks(p[w]) /\ WritesOnce(p[w]) /\ \A k \in DOMAIN p[w] : p[w][k] \notin Special
    BY <1>6, FileLocks DEF Pair, Workers
  <1>7. QED
    BY <1>1, <1>2, <1>3, <1>4, <1>5, <1>6 DEF Programs

-----------------------------------------------------------------------------
(* The invariant of the programs with a lock.                              *)

Marks == Workers \cup {Notice}

SectionsTypeOK ==
  /\ program \in Programs /\ there \in BOOLEAN
  /\ pc \in [Workers -> Nat \ {0}]
  /\ state \in [Workers -> {"running", "asleep", "exited", "killed"}]
  /\ value \in Nat /\ holds \in [Workers -> BOOLEAN]
  /\ text \in Seq(Marks) /\ pos \in [Workers -> Nat]

Locked == program.lock # "none" /\ there

\* Until the second sem_init
Exclusive == program = Reinitialised => pc["B"] <= 5

(* One holds the lock, and who is in its section does.                     *)
LockInv ==
  /\ Exclusive => \A w \in Workers : holds[w] => value = 0 /\ ~holds[Other(w)]
  /\ Exclusive => value <= 1
  /\ \A w \in Workers : ~Ended(w) /\ Inside(program[w], pc[w]) => holds[w]

AtWrite(w) == ~Ended(w) /\ pc[w] \in DOMAIN program[w] /\ program[w][pc[w]] \in Writes

(* What is written goes to the end of the text.                            *)
PosAtEnd(w) ==
  AtWrite(w) /\ program[w][pc[w]] = "write" => pos[w] = Len(text)

CountInv == Len(text) = Made("A") + Made("B")

\* What the child of Reinitialised prints without the lock
AtNotice(w) ==
  ~Ended(w) /\ pc[w] \in DOMAIN program[w] /\ program[w][pc[w]] = "announce"

HasWritten(w) == \E k \in DOMAIN program[w] : k < pc[w] /\ program[w][k] \in Writes

(* Who writes for a second time finds its own mark at the end, the parent  *)
(* perhaps followed by what its child announced; who has not written yet   *)
(* finds none.                                                             *)
LastOwn(w) ==
  \E n \in 1..Len(text) :
    /\ text[n] = w /\ \A m \in (n + 1)..Len(text) : text[m] = Notice
    /\ w # "A" => n = Len(text)

StringInv(w) ==
  /\ AtWrite(w) /\ HasWritten(w) => LastOwn(w)
  /\ ~HasWritten(w) => \A k \in 1..Len(text) : text[k] # w

SectionsInv ==
  /\ SectionsTypeOK
  /\ Locked =>
       /\ LockInv /\ CountInv
       /\ \A w \in Workers : PosAtEnd(w)
       /\ program # Mutex => Unbroken /\ \A w \in Workers : StringInv(w)

-----------------------------------------------------------------------------
(* What a step does, whatever the call.                                    *)

\* w makes a call.
Moves(w) ==
  LET call == program[w][pc[w]]
  IN /\ state[w] = "running" /\ pc[w] \in DOMAIN program[w]
     /\ pc' = [pc EXCEPT ![w] = @ + 1]
     /\ IF call \in {"wait", "try"}
        THEN value > 0 /\ value' = value - 1 /\ holds' = [holds EXCEPT ![w] = TRUE]
        ELSE IF call = "post"
        THEN value' = value + 1 /\ holds' = [holds EXCEPT ![w] = FALSE]
        ELSE value' = (IF call = "init" THEN 1 ELSE value) /\ holds' = holds
     /\ pos' = IF call = "seek" THEN [pos EXCEPT ![w] = Len(text)] ELSE pos
     /\ text' = IF call = "write" THEN Written(w)
                ELSE IF call = "put" THEN Append(text, w)
                ELSE IF call = "announce" THEN Append(text, Notice) ELSE text

\* It sleeps or ends, and what a killed process held is given back.
Stays(w) ==
  /\ UNCHANGED <<pc, text, pos>>
  /\ \/ UNCHANGED <<value, holds>>
     \/ holds[w] /\ Ended(w)' /\ Gives(w)

LEMMA StepsAreMoves ==
  ASSUME SectionsTypeOK, Locked, NEW w \in Workers, Step(w) \/ Enter(w) \/ Kill(w)
  PROVE  /\ UNCHANGED <<program, there>>
         /\ state' \in [Workers -> {"running", "asleep", "exited", "killed"}]
         /\ \A x \in Workers : Ended(x) => Ended(x)'
         /\ Moves(w) \/ Stays(w)
  <1>1. \A k \in DOMAIN program[w] : program[w][k] # "set"
    BY ProgramLocks DEF SectionsTypeOK, Locked, Locks
  <1> USE DEF SectionsTypeOK, Locked, Ended, semaphore, content, Calls, At, Return
  <1>2. CASE Open(w)
    BY <1>2 DEF Open, Moves
  <1>3. CASE OpenFails(w)
    BY <1>3 DEF OpenFails, Ends, Stays
  <1>4. CASE Wait(w)
    BY <1>4 DEF Wait, Takes, Moves
  <1>5. CASE Sleep(w)
    BY <1>5 DEF Sleep, Calls, Stays
  <1>6. CASE Try(w)
    <2>1. CASE Takes(w) /\ Return(w) /\ UNCHANGED state
      BY <1>6, <2>1 DEF Try, Takes, Moves
    <2>2. CASE value = 0 /\ state' = [state EXCEPT ![w] = "exited"]
               /\ UNCHANGED <<program, there, pc, semaphore>>
      BY <1>6, <2>2 DEF Try, Stays
    <2>3. QED
      BY <1>6, <2>1, <2>2 DEF Try
  <1>7. CASE Post(w)
    BY <1>7 DEF Post, Gives, Wakes, Moves
  <1>8. CASE Reinit(w)
    BY <1>8 DEF Reinit, Moves
  <1>9. CASE Seek(w)
    BY <1>9 DEF Seek, Moves
  <1>10. CASE Write(w)
    BY <1>10 DEF Write, Moves
  <1>11. CASE Set(w)
    BY <1>1, <1>11 DEF Set, Calls, At
  <1>12. CASE Put(w)
    BY <1>12 DEF Put, Moves
  <1>13. CASE Look(w)
    BY <1>13 DEF Look, Moves
  <1>14. CASE Join(w)
    BY <1>14 DEF Join, Moves
  <1>15. CASE Exit(w)
    BY <1>15 DEF Exit, Ends, Stays
  <1>16. CASE Enter(w)
    BY <1>16 DEF Enter, Moves
  <1>17. CASE Kill(w)
    BY <1>17 DEF Kill, Ends, Stays
  <1>18. CASE Announce(w)
    BY <1>18 DEF Announce, Moves
  <1>19. QED
    BY <1>2, <1>3, <1>4, <1>5, <1>6, <1>7, <1>8, <1>9, <1>10, <1>11, <1>12, <1>13,
       <1>14, <1>15, <1>16, <1>17, <1>18 DEF Step

LEMMA FunctionIsSeq ==
  ASSUME NEW S, NEW n \in Nat, NEW f \in [1..n -> S]
  PROVE  f \in Seq(S) /\ Len(f) = n
  <1>1. f \in Seq(S)
    BY SeqDef
  <1>2. DOMAIN f = 1..n /\ DOMAIN f = 1..Len(f) /\ Len(f) \in Nat
    BY <1>1, LenProperties
  <1>3. QED
    BY <1>2

LEMMA WrittenSeq ==
  ASSUME NEW w \in Workers, text \in Seq(Marks), pos[w] \in Nat
  PROVE  /\ Written(w) \in Seq(Marks) /\ Len(Written(w)) = pos[w] + 1
         /\ pos[w] = Len(text) => Written(w) = Append(text, w)
  <1>1. w \in Marks /\ \A k \in 1..Len(text) : text[k] \in Marks
    BY ElementOfSeq DEF Marks
  <1>2. Written(w) \in [1..(pos[w] + 1) -> Marks]
    BY <1>1, LenProperties DEF Written
  <1>3. Written(w) \in Seq(Marks) /\ Len(Written(w)) = pos[w] + 1
    BY <1>2, FunctionIsSeq
  <1>4. ASSUME pos[w] = Len(text) PROVE Written(w) = Append(text, w)
    <2>1. /\ Append(text, w) \in Seq(Marks) /\ Len(Append(text, w)) = Len(text) + 1
          /\ \A k \in 1..Len(text) : Append(text, w)[k] = text[k]
          /\ Append(text, w)[Len(text) + 1] = w
      BY <1>1, AppendProperties
    <2>2. \A k \in 1..(Len(text) + 1) : Written(w)[k] = Append(text, w)[k]
      BY <1>4, <2>1, LenProperties DEF Written
    <2>3. QED
      BY <1>3, <1>4, <2>1, <2>2, SeqEqual
  <1>5. QED
    BY <1>3, <1>4

LEMMA SectionsTypes == SectionsTypeOK /\ [Next]_vars => SectionsTypeOK'
  <1> SUFFICES ASSUME SectionsTypeOK, [Next]_vars PROVE SectionsTypeOK'
    OBVIOUS
  <1> USE DEF SectionsTypeOK, semaphore, content
  <1>1. CASE UNCHANGED vars
    BY <1>1 DEF vars
  <1>2. ASSUME NEW w \in Workers, Step(w) \/ Enter(w) \/ Kill(w) PROVE SectionsTypeOK'
    <2>1. /\ text \in Seq(Marks) /\ Len(text) \in Nat
          /\ Append(text, w) \in Seq(Marks) /\ Append(text, Notice) \in Seq(Marks)
          /\ Written(w) \in Seq(Marks)
      <3>1. w \in Marks /\ Notice \in Marks
        BY DEF Marks
      <3>2. QED
        BY <3>1, WrittenSeq, AppendProperties, LenProperties
    <2>2. [k \in 1..Ten |-> w] \in Seq(Marks)
      <3>1. Ten \in Nat /\ [k \in 1..Ten |-> w] \in [1..Ten -> Marks]
        BY LoopsAssumption DEF Marks
      <3>2. QED
        BY <3>1, FunctionIsSeq
    <2>3. text' \in Seq(Marks) /\ pos' \in [Workers -> Nat]
      BY <1>2, <2>1, <2>2
      DEF Step, Open, OpenFails, Wait, Sleep, Try, Post, Reinit, Seek, Write, Set, Put,
          Announce, Look, Join, Exit, Enter, Kill, Ends
    <2>4. program' \in Programs /\ there' \in BOOLEAN /\ pc' \in [Workers -> Nat \ {0}]
      BY <1>2
      DEF Step, Open, OpenFails, Wait, Sleep, Try, Post, Reinit, Seek, Write, Set, Put,
          Announce, Look, Join, Exit, Enter, Kill, Ends, Return
    <2>5. value' \in Nat /\ holds' \in [Workers -> BOOLEAN]
      <3>1. value' \in {value, value + 1, 1} \/ (value > 0 /\ value' = value - 1)
        BY <1>2
        DEF Step, Open, OpenFails, Wait, Sleep, Try, Post, Reinit, Seek, Write, Set, Put,
            Announce, Look, Join, Exit, Enter, Kill, Takes, Gives, Ends
      <3>2. value' \in Nat
        BY <3>1
      <3>3. \/ holds' = [holds EXCEPT ![w] = TRUE] \/ holds' = [holds EXCEPT ![w] = FALSE]
            \/ holds' = holds
        BY <1>2
        DEF Step, Open, OpenFails, Wait, Sleep, Try, Post, Reinit, Seek, Write, Set, Put,
            Announce, Look, Join, Exit, Enter, Kill, Takes, Gives, Ends
      <3>4. holds' \in [Workers -> BOOLEAN]
        BY <3>3
      <3>5. QED
        BY <3>2, <3>4
    <2>6. state' \in [Workers -> {"running", "asleep", "exited", "killed"}]
      BY <1>2
      DEF Step, Open, OpenFails, Wait, Sleep, Try, Post, Reinit, Seek, Write, Set, Put,
          Announce, Look, Join, Exit, Enter, Kill, Ends, Wakes
    <2>7. QED
      BY <2>3, <2>4, <2>5, <2>6
  <1>3. QED
    BY <1>1, <1>2 DEF Next

-----------------------------------------------------------------------------
LEMMA InsideNext ==
  ASSUME NEW c, NEW k \in Nat \ {0}, Inside(c, k + 1)
  PROVE  c[k] \in {"wait", "try"} \/ (Inside(c, k) /\ c[k] # "post")
  <1>1. PICK j \in 1..k :
          c[j] \in {"wait", "try"} /\ \A m \in (j + 1)..k : c[m] # "post"
    BY DEF Inside
  <1>2. CASE j = k
    BY <1>1, <1>2
  <1>3. CASE j # k
    <2>1. j \in 1..(k - 1) /\ k \in (j + 1)..k
      BY <1>3
    <2>2. \A m \in (j + 1)..(k - 1) : m \in (j + 1)..k
      OBVIOUS
    <2>3. QED
      BY <1>1, <2>1, <2>2 DEF Inside
  <1>4. QED
    BY <1>2, <1>3

\* The code of a worker, at the call it makes.
LEMMA CallFacts ==
  ASSUME SectionsTypeOK, Locked, NEW w \in Workers, pc[w] \in DOMAIN program[w]
  PROVE  LET call == program[w][pc[w]]
         IN /\ pc[w] \in Nat \ {0} /\ call # "set"
            /\ call \in Writes \cup {"seek", "post"} => Inside(program[w], pc[w])
            /\ call = "init" => program = Reinitialised /\ w = "B" /\ pc[w] = 5
            /\ call = "announce" => program = Reinitialised /\ w = "B" /\ pc[w] > 5
            /\ program = Reinitialised =>
                 call # "write" /\ (w = "B" /\ call \in Writes => pc[w] < 5)
  <1>1. program \in Programs /\ program.lock # "none"
    BY DEF SectionsTypeOK, Locked
  <1>2. Locks(program[w])
    BY <1>1, ProgramLocks
  <1>3. program # Reinitialised => program[w][pc[w]] \notin Special
    BY <1>1, ProgramLocks
  <1>4. ASSUME program = Reinitialised
        PROVE  /\ program[w][pc[w]] # "write"
               /\ program[w][pc[w]] = "init" => w = "B" /\ pc[w] = 5
               /\ program[w][pc[w]] = "announce" => w = "B" /\ pc[w] > 5
               /\ w = "B" /\ program[w][pc[w]] \in Writes => pc[w] < 5
    BY <1>4, ReinitialisedLocks DEF Workers
  <1>5. QED
    BY <1>2, <1>3, <1>4 DEF Locks, Special

LEMMA LockStep ==
  ASSUME SectionsTypeOK, Locked, LockInv, NEW w \in Workers, Step(w) \/ Enter(w) \/ Kill(w)
  PROVE  LockInv'
  <1>1. /\ UNCHANGED <<program, there>>
        /\ \A x \in Workers : Ended(x) => Ended(x)'
        /\ Moves(w) \/ Stays(w)
    BY StepsAreMoves
  <1>2. /\ Other(w) \in Workers /\ Other(w) # w /\ Other(Other(w)) = w
        /\ \A x \in Workers : x = w \/ x = Other(w)
    BY DEF Workers, Other
  <1> DEFINE o == Other(w)
             call == program[w][pc[w]]
  <1> HIDE DEF o
  <1>3. o \in Workers /\ o # w /\ Other(w) = o /\ Other(o) = w /\ \A x \in Workers : x = w \/ x = o
    BY <1>2 DEF o
  <1>4. CASE Moves(w)
    <2>1. /\ ~Ended(w) /\ pc[w] \in DOMAIN program[w] /\ pc[w] \in Nat \ {0}
          /\ pc'[w] = pc[w] + 1 /\ pc'[o] = pc[o]
      BY <1>3, <1>4 DEF Moves, Ended, SectionsTypeOK
    <2>2. Exclusive' => Exclusive
      <3>1. pc'["B"] <= 5 => pc["B"] <= 5
        BY <1>3, <1>4 DEF Moves, SectionsTypeOK, Workers
      <3>2. QED
        BY <1>1, <3>1 DEF Exclusive
    <2>3. /\ call \in Writes \cup {"seek", "post"} => Inside(program[w], pc[w])
          /\ call = "init" => ~Exclusive'
      BY <1>1, <2>1, CallFacts DEF Exclusive
    <2>4. Inside(program[w], pc[w] + 1) =>
            call \in {"wait", "try"} \/ (Inside(program[w], pc[w]) /\ call # "post")
      BY <2>1, InsideNext
    <2>5. ~Ended(o)' /\ Inside(program[o], pc[o]) => holds[o]
      BY <1>1, <1>3 DEF LockInv
    <2>6. CASE call \in {"wait", "try"}
      <3>1. /\ value \in Nat /\ value > 0 /\ value' = value - 1
            /\ holds'[w] = TRUE /\ holds'[o] = holds[o]
        BY <1>3, <1>4, <2>6 DEF Moves, SectionsTypeOK
      <3>2. Exclusive => value <= 1 /\ ~holds[o]
        BY <1>3, <3>1 DEF LockInv
      <3>3. QED
        BY <1>1, <1>3, <2>1, <2>2, <2>5, <3>1, <3>2 DEF LockInv
    <2>7. CASE call = "post"
      <3>1. /\ value' = value + 1 /\ holds'[w] = FALSE /\ holds'[o] = holds[o]
        BY <1>3, <1>4, <2>7 DEF Moves, SectionsTypeOK
      <3>2. holds[w]
        BY <2>1, <2>3, <2>7 DEF LockInv
      <3>3. Exclusive => value = 0 /\ ~holds[o]
        BY <1>3, <3>2 DEF LockInv
      <3>4. QED
        BY <1>1, <1>3, <2>1, <2>2, <2>4, <2>5, <2>7, <3>1, <3>3 DEF LockInv
    <2>8. CASE call \notin {"wait", "try", "post"}
      <3>1. holds' = holds /\ (Exclusive' => value' = value)
        BY <1>4, <2>3, <2>8 DEF Moves
      <3>2. Inside(program[w], pc[w] + 1) => holds[w]
        BY <2>1, <2>4, <2>8 DEF LockInv
      <3>3. QED
        BY <1>1, <1>3, <2>1, <2>2, <2>5, <3>1, <3>2 DEF LockInv
    <2>9. QED
      BY <2>6, <2>7, <2>8
  <1>5. CASE Stays(w)
    <2>1. pc' = pc /\ (Exclusive' <=> Exclusive)
      BY <1>1, <1>5 DEF Stays, Exclusive
    <2>2. CASE UNCHANGED <<value, holds>>
      BY <1>1, <2>1, <2>2 DEF LockInv
    <2>3. CASE holds[w] /\ Ended(w)' /\ Gives(w)
      <3>1. value' = value + 1 /\ holds'[w] = FALSE /\ holds'[o] = holds[o]
        BY <1>3, <2>3 DEF Gives, SectionsTypeOK
      <3>2. Exclusive => value = 0 /\ ~holds[o]
        BY <1>3, <2>3 DEF LockInv
      <3>3. QED
        BY <1>1, <1>3, <2>1, <2>3, <3>1, <3>2 DEF LockInv
    <2>4. QED
      BY <1>5, <2>2, <2>3 DEF Stays
  <1>6. QED
    BY <1>1, <1>4, <1>5

-----------------------------------------------------------------------------
(* Only one is about to write.                                             *)
LEMMA OneWriter ==
  ASSUME SectionsTypeOK, Locked, LockInv,
         NEW w \in Workers, NEW x \in Workers, AtWrite(w), AtWrite(x)
  PROVE  w = x
  <1>1. holds[w] /\ holds[x]
    BY CallFacts DEF LockInv, AtWrite
  <1>2. CASE Exclusive
    BY <1>1, <1>2 DEF LockInv, Other, Workers
  <1>3. CASE ~Exclusive
    <2>1. program = Reinitialised /\ ~(pc["B"] < 5)
      BY <1>3 DEF Exclusive, SectionsTypeOK, Workers
    <2>2. w # "B" /\ x # "B"
      BY <2>1, CallFacts DEF AtWrite
    <2>3. QED
      BY <2>2 DEF Workers
  <1>4. QED
    BY <1>2, <1>3

(* A write adds the writer's mark at the end, an announcement its own, and *)
(* no other call changes the text.                                         *)
LEMMA TextStep ==
  ASSUME SectionsTypeOK, Locked, LockInv, NEW w \in Workers, PosAtEnd(w),
         Step(w) \/ Enter(w) \/ Kill(w)
  PROVE  /\ pc' = pc \/ pc' = [pc EXCEPT ![w] = @ + 1]
         /\ pc' # pc => ~Ended(w) /\ pc[w] \in DOMAIN program[w]
         /\ pc' # pc /\ AtWrite(w) => text' = Append(text, w)
         /\ pc' # pc /\ AtNotice(w) => text' = Append(text, Notice)
         /\ pc' = pc \/ ~(AtWrite(w) \/ AtNotice(w)) => text' = text
  <1>1. Moves(w) \/ Stays(w)
    BY StepsAreMoves
  <1>2. CASE Stays(w)
    BY <1>2 DEF Stays
  <1>3. CASE Moves(w)
    <2>1. /\ ~Ended(w) /\ pc[w] \in DOMAIN program[w]
          /\ pc' = [pc EXCEPT ![w] = @ + 1] /\ pc' # pc
      <3>1. pc'[w] = pc[w] + 1 /\ pc[w] \in Nat
        BY <1>3 DEF Moves, SectionsTypeOK
      <3>2. QED
        BY <1>3, <3>1 DEF Moves, Ended
    <2>2. program[w][pc[w]] \notin {"write", "put", "announce"} => text' = text
      BY <1>3 DEF Moves
    <2>3. program[w][pc[w]] = "put" => text' = Append(text, w)
      BY <1>3 DEF Moves
    <2>4. program[w][pc[w]] = "announce" => text' = Append(text, Notice)
      BY <1>3 DEF Moves
    <2>5. ASSUME program[w][pc[w]] = "write" PROVE text' = Append(text, w)
      <3>1. pos[w] = Len(text) /\ text \in Seq(Marks) /\ pos[w] \in Nat
        BY <2>1, <2>5 DEF PosAtEnd, AtWrite, Writes, SectionsTypeOK
      <3>2. text' = Written(w)
        BY <1>3, <2>5 DEF Moves
      <3>3. QED
        BY <3>1, <3>2, WrittenSeq
    <2>6. QED
      BY <2>1, <2>2, <2>3, <2>4, <2>5 DEF AtWrite, AtNotice, Writes
  <1>4. QED
    BY <1>1, <1>2, <1>3

LEMMA PosStep ==
  ASSUME SectionsTypeOK, Locked, LockInv, \A x \in Workers : PosAtEnd(x),
         NEW w \in Workers, Step(w) \/ Enter(w) \/ Kill(w), NEW x \in Workers
  PROVE  PosAtEnd(x)'
  <1> SUFFICES ASSUME AtWrite(x)', program'[x][pc'[x]] = "write"
               PROVE  pos'[x] = Len(text')
    BY DEF PosAtEnd
  <1>1. /\ program' = program /\ (Ended(x) => Ended(x)')
        /\ Moves(w) \/ Stays(w)
    BY StepsAreMoves
  <1>2. pc'[x] \in DOMAIN program[x] /\ program[x][pc'[x]] = "write" /\ ~Ended(x)
    BY <1>1 DEF AtWrite
  <1>3. CASE Stays(w)
    BY <1>1, <1>2, <1>3 DEF Stays, PosAtEnd, AtWrite
  <1>4. CASE Moves(w) /\ x = w
    <2>1. pc'[w] = pc[w] + 1 /\ pc[w] \in Nat
      BY <1>4 DEF Moves, SectionsTypeOK
    <2>2. program[w][pc[w]] = "seek"
      <3>1. Locks(program[w])
        BY ProgramLocks DEF SectionsTypeOK, Locked
      <3>2. program[w][pc'[w] - 1] = "seek"
        BY <1>2, <1>4, <3>1 DEF Locks
      <3>3. QED
        BY <2>1, <3>2
    <2>3. QED
      BY <1>4, <2>2 DEF Moves, SectionsTypeOK
  <1>5. CASE Moves(w) /\ x # w
    <2>1. pc'[x] = pc[x] /\ pos'[x] = pos[x]
      BY <1>5 DEF Moves, SectionsTypeOK
    <2>2. AtWrite(x)
      BY <1>2, <2>1 DEF AtWrite, Writes
    <2>3. ~AtWrite(w)
      BY <1>5, <2>2, OneWriter
    <2>4. ~AtNotice(w)
      BY <1>2, <2>1, CallFacts DEF AtNotice
    <2>5. text' = text
      BY <2>3, <2>4, TextStep
    <2>6. QED
      BY <1>2, <2>1, <2>2, <2>5 DEF PosAtEnd
  <1>6. QED
    BY <1>1, <1>3, <1>4, <1>5

LEMMA CountStep ==
  ASSUME SectionsTypeOK, Locked, LockInv, CountInv, NEW w \in Workers, PosAtEnd(w),
         Step(w) \/ Enter(w) \/ Kill(w)
  PROVE  CountInv'
  <1> DEFINE Prints == Writes \cup {"announce"}
             Done(x, n) == {k \in 1..n : program[x][k] \in Prints}
  <1>1. ASSUME NEW x \in Workers, NEW n \in Nat
        PROVE  /\ IsFiniteSet(Done(x, n)) /\ Cardinality(Done(x, n)) \in Nat
               /\ program[x][n + 1] \notin Prints => Done(x, n + 1) = Done(x, n)
               /\ program[x][n + 1] \in Prints =>
                    /\ Done(x, n + 1) = Done(x, n) \cup {n + 1}
                    /\ Cardinality(Done(x, n + 1)) = Cardinality(Done(x, n)) + 1
    <2>1. IsFiniteSet(1..n)
      BY FS_Interval
    <2>2. IsFiniteSet(Done(x, n)) /\ Cardinality(Done(x, n)) \in Nat
      BY <2>1, FS_Subset, FS_CardinalityType
    <2>3. program[x][n + 1] \notin Prints => Done(x, n + 1) = Done(x, n)
      OBVIOUS
    <2>4. program[x][n + 1] \in Prints => Done(x, n + 1) = Done(x, n) \cup {n + 1}
      OBVIOUS
    <2>5. n + 1 \notin Done(x, n)
      OBVIOUS
    <2> HIDE DEF Done
    <2>6. Cardinality(Done(x, n) \cup {n + 1}) = Cardinality(Done(x, n)) + 1
      BY <2>2, <2>5, FS_AddElement
    <2>7. QED
      BY <2>2, <2>3, <2>4, <2>6
  <1>2. /\ program' = program /\ pc[w] \in Nat \ {0}
        /\ Len(text) \in Nat /\ text \in Seq(Marks)
    BY StepsAreMoves, LenProperties DEF SectionsTypeOK
  <1>3. Made("A") \in Nat /\ Made("B") \in Nat
    <2>1. ASSUME NEW x \in Workers PROVE Made(x) \in Nat
      <3>1. pc[x] - 1 \in Nat /\ Made(x) = Cardinality(Done(x, pc[x] - 1))
        BY DEF SectionsTypeOK, Made
      <3>2. QED
        BY <1>1, <3>1
    <2>2. QED
      BY <2>1 DEF Workers
  <1>4. CASE pc' = pc
    <2>1. text' = text
      BY <1>4, TextStep
    <2>2. QED
      BY <1>2, <1>4, <2>1 DEF CountInv, Made
  <1>5. CASE pc' # pc
    <2>1. /\ pc' = [pc EXCEPT ![w] = @ + 1] /\ ~Ended(w) /\ pc[w] \in DOMAIN program[w]
          /\ AtWrite(w) => text' = Append(text, w)
          /\ AtNotice(w) => text' = Append(text, Notice)
          /\ ~(AtWrite(w) \/ AtNotice(w)) => text' = text
      BY <1>5, TextStep
    <2>2. pc'[w] = pc[w] + 1 /\ \A x \in Workers \ {w} : pc'[x] = pc[x]
      BY <2>1 DEF SectionsTypeOK
    <2>3. \A x \in Workers \ {w} : Made(x)' = Made(x)
      BY <1>2, <2>2 DEF Made
    <2>4. /\ Made(w) = Cardinality(Done(w, pc[w] - 1))
          /\ Made(w)' = Cardinality(Done(w, pc[w]))
      <3>1. pc'[w] - 1 = pc[w]
        BY <1>2, <2>2
      <3>2. Made(w)' = Cardinality(Done(w, pc'[w] - 1))
        BY <1>2 DEF Made
      <3>3. QED
        BY <3>1, <3>2 DEF Made
    <2>5. AtWrite(w) \/ AtNotice(w) <=> program[w][pc[w]] \in Prints
      BY <2>1 DEF AtWrite, AtNotice
    <2>6. IF AtWrite(w) \/ AtNotice(w) THEN Made(w)' = Made(w) + 1 ELSE Made(w)' = Made(w)
      <3> DEFINE n == pc[w] - 1
      <3>1. n \in Nat /\ n + 1 = pc[w]
        BY <1>2
      <3> HIDE DEF n, Done
      <3>2. /\ program[w][n + 1] \notin Prints => Done(w, n + 1) = Done(w, n)
            /\ program[w][n + 1] \in Prints =>
                 Cardinality(Done(w, n + 1)) = Cardinality(Done(w, n)) + 1
        BY <1>1, <3>1
      <3>3. QED
        BY <2>4, <2>5, <3>1, <3>2 DEF n
    <2>7. IF AtWrite(w) \/ AtNotice(w)
          THEN Len(text') = Len(text) + 1 ELSE Len(text') = Len(text)
      <3>1. w \in Marks /\ Notice \in Marks
        BY DEF Marks
      <3>2. Len(Append(text, w)) = Len(text) + 1 /\ Len(Append(text, Notice)) = Len(text) + 1
        BY <1>2, <3>1, AppendProperties
      <3>3. QED
        BY <2>1, <3>2
    <2>8. (w = "A" /\ "B" \in Workers \ {w}) \/ (w = "B" /\ "A" \in Workers \ {w})
      BY DEF Workers
    <2>9. QED
      BY <1>2, <1>3, <2>3, <2>6, <2>7, <2>8 DEF CountInv
  <1>6. QED
    BY <1>4, <1>5

LEMMA UnbrokenAppend ==
  ASSUME NEW w \in Marks, text \in Seq(Marks), Unbroken, text' = Append(text, w),
         w \in Workers => LastOwn(w) \/ \A k \in 1..Len(text) : text[k] # w
  PROVE  Unbroken'
  <1>1. /\ Len(text) \in Nat /\ DOMAIN text = 1..Len(text)
        /\ DOMAIN text' = 1..(Len(text) + 1)
        /\ text'[Len(text) + 1] = w /\ \A k \in 1..Len(text) : text'[k] = text[k]
    BY AppendProperties, LenProperties
  <1>2. SUFFICES ASSUME NEW j \in DOMAIN text', NEW k \in DOMAIN text',
                        NEW m \in DOMAIN text', j < k, k < m, text'[j] = text'[m],
                        text'[j] \in Workers
                 PROVE  text'[k] = text'[j] \/ (text'[j] = "A" /\ text'[k] = Notice)
    BY DEF Unbroken
  <1>3. /\ j \in DOMAIN text /\ k \in DOMAIN text
        /\ text'[j] = text[j] /\ text'[k] = text[k]
    BY <1>1, <1>2
  <1>4. CASE m \in DOMAIN text
    <2>1. text'[m] = text[m]
      BY <1>1, <1>4
    <2>2. QED
      BY <1>2, <1>3, <1>4, <2>1 DEF Unbroken
  <1>5. CASE m \notin DOMAIN text
    <2>1. text[j] = w
      <3>1. m = Len(text) + 1
        BY <1>1, <1>5
      <3>2. QED
        BY <1>1, <1>2, <1>3, <3>1
    <2>2. PICK n \in 1..Len(text) :
            /\ text[n] = w /\ \A l \in (n + 1)..Len(text) : text[l] = Notice
            /\ w # "A" => n = Len(text)
      BY <1>1, <1>2, <1>3, <2>1 DEF LastOwn
    <2>3. CASE k < n
      BY <1>1, <1>2, <1>3, <2>1, <2>2, <2>3 DEF Unbroken
    <2>4. CASE k = n
      BY <1>3, <2>1, <2>2, <2>4
    <2>5. CASE k > n
      <3>1. k \in 1..Len(text) /\ Len(text) \in Nat /\ n \in Nat
        BY <1>1, <1>3
      <3>2. k \in (n + 1)..Len(text) /\ n # Len(text)
        BY <2>5, <3>1
      <3>3. QED
        BY <1>3, <2>1, <2>2, <3>2
    <2>6. QED
      BY <1>1, <1>3, <2>3, <2>4, <2>5
  <1>6. QED
    BY <1>4, <1>5

LEMMA StringStep ==
  ASSUME SectionsTypeOK, Locked, LockInv, program # Mutex, Unbroken,
         \A x \in Workers : PosAtEnd(x) /\ StringInv(x),
         NEW w \in Workers, Step(w) \/ Enter(w) \/ Kill(w)
  PROVE  Unbroken' /\ \A x \in Workers : StringInv(x)'
  <1>1. /\ program' = program /\ \A x \in Workers : Ended(x) => Ended(x)'
    BY StepsAreMoves
  <1>2. /\ pc' = pc \/ pc' = [pc EXCEPT ![w] = @ + 1]
        /\ pc' # pc => ~Ended(w) /\ pc[w] \in DOMAIN program[w]
        /\ pc' # pc /\ AtWrite(w) => text' = Append(text, w)
        /\ pc' # pc /\ AtNotice(w) => text' = Append(text, Notice)
        /\ pc' = pc \/ ~(AtWrite(w) \/ AtNotice(w)) => text' = text
    BY TextStep
  <1>3. /\ pc \in [Workers -> Nat \ {0}] /\ text \in Seq(Marks) /\ Len(text) \in Nat
    BY LenProperties DEF SectionsTypeOK
  <1>4. CASE pc' = pc
    <2>1. text' = text
      BY <1>2, <1>4
    <2>2. \A x \in Workers : (AtWrite(x)' => AtWrite(x)) /\ (HasWritten(x)' <=> HasWritten(x))
      BY <1>1, <1>4 DEF AtWrite, HasWritten
    <2>3. QED
      BY <2>1, <2>2 DEF Unbroken, StringInv, LastOwn
  <1>5. CASE pc' # pc
    <2>1. /\ pc'[w] = pc[w] + 1 /\ ~Ended(w) /\ pc[w] \in DOMAIN program[w]
          /\ \A x \in Workers \ {w} : pc'[x] = pc[x]
      BY <1>2, <1>3, <1>5
    <2>2. \A k \in DOMAIN program[w] : k \in Nat
      BY ProgramLocks DEF SectionsTypeOK, Locked, Locks
    <2>3. HasWritten(w)' <=> HasWritten(w) \/ AtWrite(w)
      <3>1. \A k \in DOMAIN program[w] : k < pc'[w] <=> k < pc[w] \/ k = pc[w]
        BY <1>3, <2>1, <2>2
      <3>2. QED
        BY <1>1, <2>1, <3>1 DEF HasWritten, AtWrite
    <2>4. \A x \in Workers \ {w} :
            (AtWrite(x)' => AtWrite(x)) /\ (HasWritten(x)' <=> HasWritten(x))
      BY <1>1, <2>1 DEF AtWrite, HasWritten
    \* Two calls that write follow one another.
    <2>5. AtWrite(w)' /\ HasWritten(w)' => AtWrite(w)
      <3>1. SUFFICES ASSUME AtWrite(w)', HasWritten(w)' PROVE AtWrite(w)
        OBVIOUS
      <3>2. WritesOnce(program[w])
        BY ProgramLocks DEF SectionsTypeOK, Locked
      <3>3. PICK k \in DOMAIN program[w] : k < pc'[w] /\ program[w][k] \in Writes
        BY <1>1, <3>1 DEF HasWritten
      <3>4. pc'[w] \in DOMAIN program[w] /\ program[w][pc'[w]] \in Writes
        BY <1>1, <3>1 DEF AtWrite
      <3>5. pc'[w] = k + 1
        BY <3>2, <3>3, <3>4 DEF WritesOnce
      <3>6. k = pc[w]
        BY <1>3, <2>1, <2>2, <3>3, <3>5
      <3>7. QED
        BY <2>1, <3>3, <3>6 DEF AtWrite
    <2>6. CASE AtWrite(w)
      <3>1. text' = Append(text, w) /\ w \in Marks
        BY <1>2, <1>5, <2>6 DEF Marks
      <3>2. /\ Len(text') = Len(text) + 1 /\ text'[Len(text) + 1] = w
            /\ \A k \in 1..Len(text) : text'[k] = text[k]
        BY <1>3, <3>1, AppendProperties
      <3>3. Unbroken'
        BY <1>3, <2>6, <3>1, UnbrokenAppend DEF StringInv
      <3>4. StringInv(w)'
        <4>1. LastOwn(w)'
          <5>1. Len(text') \in 1..Len(text') /\ text'[Len(text')] = w
            BY <1>3, <3>2
          <5>2. \A m \in (Len(text') + 1)..Len(text') : FALSE
            BY <1>3, <3>2
          <5>3. QED
            BY <5>1, <5>2 DEF LastOwn
        <4>2. QED
          BY <2>3, <2>6, <4>1 DEF StringInv
      <3>5. ASSUME NEW x \in Workers \ {w} PROVE StringInv(x)'
        <4>1. ~AtWrite(x)
          BY <2>6, <3>5, OneWriter
        <4>2. ~AtWrite(x)'
          BY <2>4, <4>1
        <4>3. ~HasWritten(x)' => \A k \in 1..Len(text') : text'[k] # x
          BY <1>3, <2>4, <3>2 DEF StringInv
        <4>4. QED
          BY <4>2, <4>3 DEF StringInv
      <3>6. QED
        BY <3>3, <3>4, <3>5
    \* The child has no string left to print, and its parent's goes on behind.
    <2>7. CASE AtNotice(w)
      <3>1. /\ text' = Append(text, Notice) /\ Notice \in Marks /\ Notice \notin Workers
            /\ ~AtWrite(w)
        BY <1>2, <1>5, <2>7 DEF Marks, Notice, Workers, AtNotice, AtWrite, Writes
      <3>2. /\ Len(text') = Len(text) + 1 /\ text'[Len(text) + 1] = Notice
            /\ \A k \in 1..Len(text) : text'[k] = text[k]
        BY <1>3, <3>1, AppendProperties
      <3>3. Unbroken'
        BY <1>3, <3>1, UnbrokenAppend
      <3>4. w = "B" /\ program = Reinitialised /\ pc["B"] > 5
        BY <2>7, CallFacts DEF AtNotice
      <3>5. ~AtWrite("B")'
        BY <1>1, <1>3, <2>1, <3>4, ReinitialisedLocks DEF AtWrite
      <3>6. ASSUME NEW x \in Workers PROVE ~HasWritten(x)' =>
                     \A k \in 1..Len(text') : text'[k] # x
        <4>1. ~HasWritten(x)' => \A k \in 1..Len(text) : text[k] # x
          BY <2>3, <2>4, <3>1 DEF StringInv
        <4>2. \A k \in 1..Len(text') : k \in 1..Len(text) \/ k = Len(text) + 1
          BY <1>3, <3>2
        <4>3. QED
          BY <3>1, <3>2, <4>1, <4>2
      <3>7. ASSUME AtWrite("A")', HasWritten("A")' PROVE LastOwn("A")'
        <4>1. "A" \in Workers \ {w}
          BY <3>4 DEF Workers
        <4>2. LastOwn("A")
          BY <2>4, <3>7, <4>1 DEF StringInv
        <4>3. PICK n \in 1..Len(text) :
                text[n] = "A" /\ \A m \in (n + 1)..Len(text) : text[m] = Notice
          BY <4>2 DEF LastOwn
        <4>4. n \in 1..Len(text') /\ text'[n] = "A"
          BY <1>3, <3>2, <4>3
        <4>5. \A m \in (n + 1)..Len(text') : text'[m] = Notice
          <5>1. \A m \in (n + 1)..Len(text') :
                  m = Len(text) + 1 \/ (m \in 1..Len(text) /\ m \in (n + 1)..Len(text))
            BY <1>3, <3>2
          <5>2. QED
            BY <3>2, <4>3, <5>1
        <4>6. QED
          BY <4>4, <4>5 DEF LastOwn
      <3>8. QED
        BY <3>3, <3>5, <3>6, <3>7 DEF StringInv, Workers
    <2>8. CASE ~AtWrite(w) /\ ~AtNotice(w)
      <3>1. text' = text
        BY <1>2, <2>8
      <3>2. \A x \in Workers : /\ AtWrite(x)' /\ HasWritten(x)' => AtWrite(x) /\ HasWritten(x)
                               /\ HasWritten(x) => HasWritten(x)'
        BY <2>3, <2>4, <2>5, <2>8
      <3>3. QED
        BY <3>1, <3>2 DEF Unbroken, StringInv, LastOwn
    <2>9. QED
      BY <2>6, <2>7, <2>8
  <1>6. QED
    BY <1>4, <1>5

LEMMA SectionsInit == Init => SectionsInv
  <1> SUFFICES ASSUME Init PROVE SectionsInv
    OBVIOUS
  <1>1. text = <<>> /\ text \in Seq(Marks) /\ Len(text) = 0 /\ DOMAIN text = {}
    BY EmptySeq DEF Init
  <1>2. /\ \A w \in Workers : pc[w] = 1 /\ state[w] = "running" /\ holds[w] = FALSE
        /\ value \in {0, 1}
    BY DEF Init, Workers
  <1>3. SectionsTypeOK
    <2>1. there \in BOOLEAN /\ holds \in [Workers -> BOOLEAN]
      BY DEF Init
    <2>2. QED
      BY <1>1, <1>2, <2>1 DEF Init, SectionsTypeOK
  <1>4. LockInv
    <2>1. \A w \in Workers : ~Inside(program[w], pc[w])
      BY <1>2 DEF Inside
    <2>2. QED
      BY <1>2, <2>1 DEF LockInv
  <1>5. CountInv
    <2>1. ASSUME NEW w \in Workers PROVE Made(w) = 0
      <3>1. {k \in 1..(pc[w] - 1) : program[w][k] \in Writes \cup {"announce"}} = {}
        BY <1>2
      <3>2. QED
        BY <3>1, FS_EmptySet DEF Made
    <2>2. QED
      BY <1>1, <2>1 DEF CountInv, Workers
  <1>6. Locked => \A w \in Workers : ~HasWritten(w) /\ PosAtEnd(w)
    <2>1. SUFFICES ASSUME Locked, NEW w \in Workers PROVE ~HasWritten(w) /\ PosAtEnd(w)
      OBVIOUS
    <2>2. Locks(program[w])
      BY <1>3, <2>1, ProgramLocks DEF SectionsTypeOK, Locked
    <2>3. \A k \in DOMAIN program[w] : k \in Nat \ {0} /\ (program[w][k] = "write" => k # 1)
      BY <2>2 DEF Locks
    <2>4. QED
      BY <1>2, <2>3 DEF HasWritten, PosAtEnd, AtWrite
  <1>7. Unbroken
    BY <1>1 DEF Unbroken
  <1>8. Locked => \A w \in Workers : StringInv(w)
    BY <1>1, <1>6 DEF StringInv
  <1>9. QED
    BY <1>3, <1>4, <1>5, <1>6, <1>7, <1>8 DEF SectionsInv

LEMMA SectionsStep == SectionsInv /\ [Next]_vars => SectionsInv'
  <1> SUFFICES ASSUME SectionsInv, [Next]_vars PROVE SectionsInv'
    OBVIOUS
  <1>1. SectionsTypeOK /\ SectionsTypeOK'
    BY SectionsTypes DEF SectionsInv
  <1>2. program' = program /\ there' = there
    BY DEF vars, Next, Step, Open, OpenFails, Wait, Sleep, Try, Post, Reinit, Seek, Write,
           Set, Put, Announce, Look, Join, Exit, Enter, Kill, Ends, Return
  <1>3. SUFFICES ASSUME Locked
        PROVE  /\ LockInv' /\ CountInv' /\ \A w \in Workers : PosAtEnd(w)'
               /\ program # Mutex => Unbroken' /\ \A w \in Workers : StringInv(w)'
    BY <1>1, <1>2 DEF SectionsInv, Locked
  <1>4. ASSUME NEW w \in Workers, Step(w) \/ Enter(w) \/ Kill(w)
        PROVE  /\ LockInv' /\ CountInv' /\ \A x \in Workers : PosAtEnd(x)'
               /\ program # Mutex => Unbroken' /\ \A x \in Workers : StringInv(x)'
    <2>1. LockInv' /\ CountInv' /\ \A x \in Workers : PosAtEnd(x)'
      BY <1>1, <1>3, <1>4, LockStep, CountStep, PosStep DEF SectionsInv
    <2>2. program # Mutex => Unbroken' /\ \A x \in Workers : StringInv(x)'
      BY <1>1, <1>3, <1>4, StringStep DEF SectionsInv
    <2>3. QED
      BY <2>1, <2>2
  <1>5. CASE UNCHANGED vars
    <2>1. UNCHANGED <<program, there, pc, state, value, holds, text, pos>>
      BY <1>5 DEF vars, semaphore, content
    <2>2. (LockInv <=> LockInv') /\ (CountInv <=> CountInv')
      BY <2>1 DEF LockInv, Exclusive, Ended, CountInv, Made
    <2>3. /\ Unbroken <=> Unbroken'
          /\ \A w \in Workers : (PosAtEnd(w) <=> PosAtEnd(w)') /\ (StringInv(w) <=> StringInv(w)')
      BY <2>1 DEF PosAtEnd, AtWrite, Ended, Unbroken, StringInv, LastOwn, HasWritten
    <2>4. QED
      BY <1>3, <2>1, <2>2, <2>3 DEF SectionsInv
  <1>6. QED
    BY <1>4, <1>5 DEF Next

LEMMA SectionsImplies == SectionsInv => SectionsKept
  <1>1. SUFFICES ASSUME SectionsInv, Locked
                 PROVE  /\ program # Reinitialised => ~(holds["A"] /\ holds["B"])
                        /\ Len(text) = Made("A") + Made("B")
                        /\ program # Mutex => Unbroken
    BY DEF SectionsKept, Locked
  <1>2. program # Reinitialised => ~(holds["A"] /\ holds["B"])
    BY <1>1 DEF SectionsInv, LockInv, Exclusive, Other, Workers
  <1>3. QED
    BY <1>1, <1>2 DEF SectionsInv, CountInv

-----------------------------------------------------------------------------
(* The two counters without a lock.                                        *)

\* How often a worker whose calls are "seek" and "write" in turns has written
Rounds(w) == (pc[w] - 1) \div 2
IsOdd(n) == n % 2 = 1

\* nonmutex: the counter is 1 at least when it has been written, and what a
\* thread reads later is so too; it is below 2 only until both have written twice.
NonMutexInv ==
  /\ \A w \in Workers :
       /\ pc[w] \in 1..(2 * Loops + 1)
       /\ state[w] = "exited" => pc[w] = 2 * Loops + 1
       /\ ~IsOdd(pc[w]) => /\ pos[w] <= Rounds("A") + Rounds("B")
                           /\ Rounds(w) > 0 => pos[w] > 0
  /\ Len(text) <= Rounds("A") + Rounds("B")
  /\ Rounds("A") + Rounds("B") > 0 => Len(text) > 0
  /\ Len(text) >= 2 \/ Rounds("A") < 2 \/ Rounds("B") < 2

\* shared_memory: B goes on from what A has set, unless it had read the number
\* before.
SharedMemoryInv ==
  /\ pc["A"] \in 1..3 /\ pc["B"] \in 1..(2 * Loops + 1)
  /\ state["A"] = "exited" => pc["A"] = 3
  /\ state["B"] = "exited" => pc["B"] = 2 * Loops + 1
  /\ Len(text) = Rounds("B") \/ (pc["A"] > 1 /\ Len(text) \in Ten..(Ten + Rounds("B")))
  /\ ~IsOdd(pc["B"]) =>
       pos["B"] = Rounds("B") \/ (pc["A"] > 1 /\ pos["B"] \in Ten..(Ten + Rounds("B")))

CountersInv ==
  /\ SectionsTypeOK
  /\ program.lock = "none" => there
  /\ program = NonMutex => NonMutexInv
  /\ program = SharedMemory => SharedMemoryInv

\* The code of a thread of nonmutex, and of the child in shared_memory
LEMMA CounterCode ==
  LET c == Repeated(<<"seek", "write">>)
  IN  /\ Len(c) = 2 * Loops /\ DOMAIN c = 1..(2 * Loops)
      /\ \A k \in DOMAIN c : c[k] = IF IsOdd(k) THEN "seek" ELSE "write"
  <1> DEFINE c == Repeated(<<"seek", "write">>)
             two == <<"seek", "write">>
  <1>1. Loops * 2 \in Nat /\ c = [k \in 1..(Loops * 2) |-> two[((k - 1) % 2) + 1]]
    BY LoopsAssumption DEF Repeated
  <1>2. ASSUME NEW k \in 1..(Loops * 2)
        PROVE  c[k] \in {"seek", "write"} /\ c[k] = IF IsOdd(k) THEN "seek" ELSE "write"
    <2>1. \/ (k - 1) % 2 = 0 /\ k % 2 = 1
          \/ (k - 1) % 2 = 1 /\ k % 2 = 0
      BY <1>1
    <2>2. c[k] = two[((k - 1) % 2) + 1]
      BY <1>1
    <2>3. QED
      BY <2>1, <2>2 DEF IsOdd
  <1>3. c \in [1..(Loops * 2) -> {"seek", "write"}]
    BY <1>1, <1>2
  <1>4. Len(c) = Loops * 2
    BY <1>1, <1>3, FunctionIsSeq
  <1>5. QED
    BY <1>1, <1>2, <1>4, LoopsAssumption

\* What a step of a program does whose calls are these four.
CounterStep(w) ==
  LET call == program[w][pc[w]]
  IN \/ /\ pc[w] \in DOMAIN program[w] /\ pc' = [pc EXCEPT ![w] = @ + 1] /\ state' = state
        /\ \/ call = "seek" /\ pos' = [pos EXCEPT ![w] = Len(text)] /\ text' = text
           \/ call = "write" /\ text' = Written(w) /\ pos' = pos
           \/ call = "set" /\ text' = [k \in 1..Ten |-> w] /\ pos' = pos
           \/ call = "join" /\ text' = text /\ pos' = pos
     \/ /\ UNCHANGED <<pc, text, pos>>
        /\ \A x \in Workers :
             state'[x] = "exited" => state[x] = "exited" \/ (x = w /\ pc[w] > Len(program[w]))

LEMMA CounterSteps ==
  ASSUME SectionsTypeOK, there, NEW w \in Workers, Step(w) \/ Enter(w) \/ Kill(w),
         \A k \in DOMAIN program[w] : program[w][k] \in {"seek", "write", "set", "join"}
  PROVE  CounterStep(w)
  <1> USE DEF Calls, At, Return, semaphore, content, SectionsTypeOK
  <1>1. CASE Open(w) \/ OpenFails(w) \/ Wait(w) \/ Sleep(w) \/ Try(w) \/ Post(w)
             \/ Reinit(w) \/ Put(w) \/ Announce(w) \/ Look(w) \/ Enter(w)
    BY <1>1
    DEF Open, OpenFails, Wait, Sleep, Try, Post, Reinit, Put, Announce, Look, Enter
  <1>2. CASE Seek(w)
    BY <1>2 DEF Seek, CounterStep
  <1>3. CASE Write(w)
    BY <1>3 DEF Write, CounterStep
  <1>4. CASE Set(w)
    BY <1>4 DEF Set, CounterStep
  <1>5. CASE Join(w)
    BY <1>5 DEF Join, CounterStep
  <1>6. CASE Exit(w)
    BY <1>6 DEF Exit, Ends, CounterStep
  <1>7. CASE Kill(w)
    BY <1>7 DEF Kill, Ends, CounterStep
  <1>8. QED
    BY <1>1, <1>2, <1>3, <1>4, <1>5, <1>6, <1>7 DEF Step

LEMMA RoundsStep ==
  ASSUME NEW n \in Nat \ {0}
  PROVE  /\ (n - 1) \div 2 \in Nat
         /\ IsOdd(n) => (n - 1) \div 2 = ((n + 1) - 1) \div 2 /\ ~IsOdd(n + 1)
         /\ ~IsOdd(n) => ((n + 1) - 1) \div 2 = (n - 1) \div 2 + 1 /\ IsOdd(n + 1)
  BY DEF IsOdd

LEMMA NonMutexStep ==
  ASSUME SectionsTypeOK, there, program = NonMutex, NonMutexInv,
         program' = program, SectionsTypeOK',
         NEW w \in Workers, Step(w) \/ Enter(w) \/ Kill(w)
  PROVE  NonMutexInv'
  <1>1. /\ Len(program[w]) = 2 * Loops /\ DOMAIN program[w] = 1..(2 * Loops)
        /\ \A k \in DOMAIN program[w] :
             program[w][k] = IF IsOdd(k) THEN "seek" ELSE "write"
    BY CounterCode DEF NonMutex, NonMutexThread, Pair, Workers
  <1>2. CounterStep(w)
    BY <1>1, CounterSteps
  <1>3. ASSUME NEW x \in Workers
        PROVE  /\ pc[x] \in Nat \ {0} /\ Rounds(x) \in Nat
               /\ pc'[x] \in Nat \ {0} /\ Rounds(x)' \in Nat
               /\ pos[x] \in Nat
    BY RoundsStep DEF Rounds, SectionsTypeOK
  <1> DEFINE o == Other(w)
  <1>4. /\ o \in Workers /\ o # w /\ \A x \in Workers : x = w \/ x = o
        /\ (w = "A" /\ o = "B") \/ (w = "B" /\ o = "A")
    <2>1. (w = "A" /\ o = "B") \/ (w = "B" /\ o = "A")
      BY DEF Workers, Other
    <2>2. QED
      BY <2>1 DEF Workers
  <1> HIDE DEF o
  <1>5. /\ Rounds("A") + Rounds("B") = Rounds(w) + Rounds(o)
        /\ Rounds("A")' + Rounds("B")' = Rounds(w)' + Rounds(o)'
        /\ Rounds("A") < 2 \/ Rounds("B") < 2 <=> Rounds(w) < 2 \/ Rounds(o) < 2
        /\ Rounds("A")' < 2 \/ Rounds("B")' < 2 <=> Rounds(w)' < 2 \/ Rounds(o)' < 2
    BY <1>3, <1>4
  <1>6. CASE /\ UNCHANGED <<pc, text, pos>>
             /\ \A x \in Workers : state'[x] = "exited" =>
                  state[x] = "exited" \/ (x = w /\ pc[w] > Len(program[w]))
    <2>1. \A x \in Workers : pc[x] \in 1..(2 * Loops + 1) /\ Rounds(x)' = Rounds(x)
      BY <1>6 DEF NonMutexInv, Rounds
    <2>2. ASSUME NEW x \in Workers, state'[x] = "exited"
          PROVE  pc[x] = 2 * Loops + 1
      <3>1. CASE state[x] = "exited"
        BY <3>1 DEF NonMutexInv
      <3>2. CASE x = w /\ pc[w] > 2 * Loops
        BY <2>1, <3>2, LoopsAssumption
      <3>3. QED
        BY <1>1, <1>6, <2>2, <3>1, <3>2
    <2>3. "A" \in Workers /\ "B" \in Workers
      BY DEF Workers
    <2>4. QED
      BY <1>6, <2>1, <2>2, <2>3 DEF NonMutexInv
  <1>7. ASSUME pc[w] \in DOMAIN program[w], pc' = [pc EXCEPT ![w] = @ + 1], state' = state
        PROVE  /\ pc[w] \in 1..(2 * Loops) /\ pc'[w] = pc[w] + 1 /\ pc'[o] = pc[o]
               /\ \A x \in Workers : pc'[x] \in 1..(2 * Loops + 1)
               /\ \A x \in Workers : state'[x] = "exited" => pc'[x] = 2 * Loops + 1
               /\ Rounds(o)' = Rounds(o)
               /\ IsOdd(pc[w]) => Rounds(w)' = Rounds(w) /\ ~IsOdd(pc'[w])
               /\ ~IsOdd(pc[w]) => Rounds(w)' = Rounds(w) + 1 /\ IsOdd(pc'[w])
    <2>1. /\ pc[w] \in 1..(2 * Loops) /\ pc'[w] = pc[w] + 1 /\ pc'[o] = pc[o]
      BY <1>1, <1>4, <1>7 DEF SectionsTypeOK
    <2>2. /\ pc[o] \in 1..(2 * Loops + 1)
          /\ state[o] = "exited" => pc[o] = 2 * Loops + 1
          /\ state[w] = "exited" => pc[w] = 2 * Loops + 1
      BY <1>4 DEF NonMutexInv
    <2>3. /\ \A x \in Workers : pc'[x] \in 1..(2 * Loops + 1)
          /\ \A x \in Workers : state'[x] = "exited" => pc'[x] = 2 * Loops + 1
      BY <1>4, <1>7, <2>1, <2>2, LoopsAssumption
    <2>4. Rounds(o)' = Rounds(o)
      BY <2>1 DEF Rounds
    <2>5. /\ IsOdd(pc[w]) => Rounds(w)' = Rounds(w) /\ ~IsOdd(pc'[w])
          /\ ~IsOdd(pc[w]) => Rounds(w)' = Rounds(w) + 1 /\ IsOdd(pc'[w])
      BY <1>3, <2>1, RoundsStep DEF Rounds
    <2>6. QED
      BY <2>1, <2>3, <2>4, <2>5
  <1>8. /\ Len(text) \in Nat /\ Len(text) <= Rounds(w) + Rounds(o)
        /\ Rounds(w) + Rounds(o) > 0 => Len(text) > 0
        /\ Len(text) >= 2 \/ Rounds(w) < 2 \/ Rounds(o) < 2
        /\ \A x \in Workers :
             ~IsOdd(pc[x]) => /\ pos[x] <= Rounds(w) + Rounds(o)
                              /\ Rounds(x) > 0 => pos[x] > 0
    BY <1>5, LenProperties DEF NonMutexInv, SectionsTypeOK
  <1>9. ASSUME pc[w] \in DOMAIN program[w], pc' = [pc EXCEPT ![w] = @ + 1], state' = state,
               \/ IsOdd(pc[w]) /\ pos' = [pos EXCEPT ![w] = Len(text)] /\ text' = text
               \/ ~IsOdd(pc[w]) /\ text' = Written(w) /\ pos' = pos
        PROVE  NonMutexInv'
    <2> DEFINE sum == Rounds(w)' + Rounds(o)'
    <2>1. /\ Len(text') <= sum
          /\ sum > 0 => Len(text') > 0
          /\ Len(text') >= 2 \/ Rounds(w)' < 2 \/ Rounds(o)' < 2
      <3>1. CASE IsOdd(pc[w])
        BY <1>7, <1>8, <1>9, <3>1
      <3>2. CASE ~IsOdd(pc[w])
        <4>1. Len(text') = pos[w] + 1
          BY <1>3, <1>9, <3>2, WrittenSeq DEF SectionsTypeOK
        <4>2. QED
          BY <1>3, <1>4, <1>7, <1>8, <1>9, <3>2, <4>1
      <3>3. QED
        BY <3>1, <3>2
    <2>2. ~IsOdd(pc'[w]) => pos'[w] <= sum /\ (Rounds(w)' > 0 => pos'[w] > 0)
      <3>1. CASE IsOdd(pc[w])
        <4>1. pos'[w] = Len(text)
          BY <1>9, <3>1 DEF SectionsTypeOK
        <4>2. QED
          BY <1>3, <1>4, <1>7, <1>8, <1>9, <3>1, <4>1
      <3>2. CASE ~IsOdd(pc[w])
        BY <1>7, <1>9, <3>2
      <3>3. QED
        BY <3>1, <3>2
    <2>3. ~IsOdd(pc'[o]) => pos'[o] <= sum /\ (Rounds(o)' > 0 => pos'[o] > 0)
      <3>1. pos'[o] = pos[o] /\ pc'[o] = pc[o] /\ Rounds(o)' = Rounds(o)
        BY <1>4, <1>7, <1>9 DEF SectionsTypeOK
      <3>2. Rounds(w)' >= Rounds(w)
        BY <1>3, <1>7, <1>9
      <3>3. QED
        BY <1>3, <1>4, <1>8, <3>1, <3>2
    <2>4. sum = Rounds("A")' + Rounds("B")'
      BY <1>5
    <2> HIDE DEF sum
    <2>5. \A x \in Workers :
            ~IsOdd(pc'[x]) => pos'[x] <= Rounds("A")' + Rounds("B")'
                              /\ (Rounds(x)' > 0 => pos'[x] > 0)
      BY <1>4, <2>2, <2>3, <2>4
    <2>6. Len(text') >= 2 \/ Rounds("A")' < 2 \/ Rounds("B")' < 2
      BY <1>5, <2>1
    <2>7. QED
      BY <1>7, <1>9, <2>1, <2>4, <2>5, <2>6 DEF NonMutexInv, IsOdd
  <1>10. QED
    <2>1. pc[w] \in DOMAIN program[w] =>
            program[w][pc[w]] = IF IsOdd(pc[w]) THEN "seek" ELSE "write"
      BY <1>1
    <2>2. QED
      BY <1>2, <1>6, <1>9, <2>1 DEF CounterStep

LEMMA SharedMemoryStep ==
  ASSUME SectionsTypeOK, there, program = SharedMemory, SharedMemoryInv,
         program' = program, SectionsTypeOK',
         NEW w \in Workers, Step(w) \/ Enter(w) \/ Kill(w)
  PROVE  SharedMemoryInv'
  <1>1. /\ Len(program["B"]) = 2 * Loops /\ DOMAIN program["B"] = 1..(2 * Loops)
        /\ \A k \in DOMAIN program["B"] :
             program["B"][k] = IF IsOdd(k) THEN "seek" ELSE "write"
    BY CounterCode DEF SharedMemory, Pair
  <1>2. /\ Len(program["A"]) = 2 /\ DOMAIN program["A"] = 1..2
        /\ program["A"][1] = "set" /\ program["A"][2] = "join"
    BY DEF SharedMemory, Pair
  <1>3. w \in {"A", "B"} /\ "A" \in Workers /\ "B" \in Workers
    BY DEF Workers
  <1>4. CounterStep(w)
    <2>1. \A k \in DOMAIN program[w] :
            program[w][k] \in {"seek", "write", "set", "join"}
      BY <1>1, <1>2, <1>3
    <2>2. QED
      BY <2>1, CounterSteps
  <1>5. /\ pc["A"] \in Nat \ {0} /\ pc["B"] \in Nat \ {0} /\ pos["B"] \in Nat
        /\ Rounds("B") \in Nat /\ Rounds("B")' \in Nat
        /\ Len(text) \in Nat /\ Ten \in Nat /\ Loops \in Nat \ {0}
    BY <1>3, RoundsStep, LenProperties, LoopsAssumption DEF Rounds, SectionsTypeOK
  <1>6. CASE /\ UNCHANGED <<pc, text, pos>>
             /\ \A x \in Workers : state'[x] = "exited" =>
                  state[x] = "exited" \/ (x = w /\ pc[w] > Len(program[w]))
    <2>1. Rounds("B")' = Rounds("B")
      BY <1>6 DEF Rounds
    <2>2. state'["A"] = "exited" => pc["A"] = 3
      BY <1>2, <1>3, <1>6 DEF SharedMemoryInv
    <2>3. state'["B"] = "exited" => pc["B"] = 2 * Loops + 1
      <3>1. pc["B"] \in 1..(2 * Loops + 1)
        BY DEF SharedMemoryInv
      <3>2. state["B"] = "exited" => pc["B"] = 2 * Loops + 1
        BY DEF SharedMemoryInv
      <3>3. ASSUME pc["B"] > 2 * Loops PROVE pc["B"] = 2 * Loops + 1
        BY <1>5, <3>1, <3>3
      <3>4. state'["B"] = "exited" => state["B"] = "exited" \/ pc["B"] > 2 * Loops
        BY <1>1, <1>3, <1>6
      <3>5. QED
        BY <3>2, <3>3, <3>4
    <2>4. QED
      BY <1>6, <2>1, <2>2, <2>3 DEF SharedMemoryInv
  <1>7. ASSUME w = "A", pc["A"] \in 1..2, pc' = [pc EXCEPT !["A"] = @ + 1],
               state' = state, pos' = pos,
               \/ pc["A"] = 1 /\ text' = [k \in 1..Ten |-> "A"]
               \/ pc["A"] = 2 /\ text' = text
        PROVE  SharedMemoryInv'
    <2>1. pc'["A"] = pc["A"] + 1 /\ pc'["B"] = pc["B"] /\ Rounds("B")' = Rounds("B")
      BY <1>3, <1>7 DEF Rounds, SectionsTypeOK
    <2>2. Len(text') = Rounds("B") \/ Len(text') \in Ten..(Ten + Rounds("B"))
      <3>1. CASE pc["A"] = 1
        <4>1. text' \in [1..Ten -> Workers]
          BY <1>3, <1>7, <3>1
        <4>2. Len(text') = Ten
          BY <1>5, <4>1, FunctionIsSeq
        <4>3. QED
          BY <1>5, <4>2
      <3>2. CASE pc["A"] = 2
        BY <1>7, <3>2 DEF SharedMemoryInv
      <3>3. QED
        BY <1>7, <3>1, <3>2
    <2>3. ~IsOdd(pc["B"]) =>
            pos["B"] = Rounds("B") \/ pos["B"] \in Ten..(Ten + Rounds("B"))
      BY DEF SharedMemoryInv
    <2>4. QED
      BY <1>7, <2>1, <2>2, <2>3 DEF SharedMemoryInv, IsOdd
  <1>8. ASSUME w = "B", pc["B"] \in 1..(2 * Loops), pc' = [pc EXCEPT !["B"] = @ + 1],
               state' = state,
               \/ IsOdd(pc["B"]) /\ pos' = [pos EXCEPT !["B"] = Len(text)] /\ text' = text
               \/ ~IsOdd(pc["B"]) /\ text' = Written("B") /\ pos' = pos
        PROVE  SharedMemoryInv'
    <2>1. /\ pc'["B"] = pc["B"] + 1 /\ pc'["A"] = pc["A"]
          /\ state'["B"] # "exited" /\ pc'["B"] \in 1..(2 * Loops + 1)
      BY <1>3, <1>5, <1>8 DEF SectionsTypeOK, SharedMemoryInv
    <2>2. /\ IsOdd(pc["B"]) => Rounds("B")' = Rounds("B") /\ ~IsOdd(pc'["B"])
          /\ ~IsOdd(pc["B"]) => Rounds("B")' = Rounds("B") + 1 /\ IsOdd(pc'["B"])
      BY <1>5, <2>1, RoundsStep DEF Rounds
    <2>3. CASE IsOdd(pc["B"])
      <3>1. pos'["B"] = Len(text) /\ text' = text
        BY <1>3, <1>8, <2>3 DEF SectionsTypeOK
      <3>2. QED
        BY <1>8, <2>1, <2>2, <2>3, <3>1 DEF SharedMemoryInv, IsOdd
    <2>4. CASE ~IsOdd(pc["B"])
      <3>1. Len(text') = pos["B"] + 1
        BY <1>3, <1>5, <1>8, <2>4, WrittenSeq DEF SectionsTypeOK
      <3>2. \/ Len(text') = Rounds("B")'
            \/ pc'["A"] > 1 /\ Len(text') \in Ten..(Ten + Rounds("B")')
        BY <1>5, <2>1, <2>2, <2>4, <3>1 DEF SharedMemoryInv
      <3>3. QED
        BY <1>8, <2>1, <2>2, <2>4, <3>2 DEF SharedMemoryInv, IsOdd
    <2>5. QED
      BY <2>3, <2>4
  <1>9. QED
    <2>1. CASE w = "A"
      BY <1>2, <1>4, <1>6, <1>7, <2>1 DEF CounterStep
    <2>2. CASE w = "B"
      <3>1. pc["B"] \in 1..(2 * Loops) =>
              program["B"][pc["B"]] = IF IsOdd(pc["B"]) THEN "seek" ELSE "write"
        BY <1>1
      <3>2. QED
        BY <1>1, <1>4, <1>6, <1>8, <2>2, <3>1 DEF CounterStep
    <2>3. QED
      BY <1>3, <2>1, <2>2

LEMMA CountersInit == Init => CountersInv
  <1> SUFFICES ASSUME Init PROVE CountersInv
    OBVIOUS
  <1>1. SectionsTypeOK
    BY SectionsInit DEF SectionsInv
  <1>2. program.lock = "none" => there
    BY DEF Init
  <1>3. /\ Len(text) = 0 /\ "A" \in Workers /\ "B" \in Workers
        /\ \A w \in Workers : pc[w] = 1 /\ state[w] = "running" /\ pos[w] = 0
    BY EmptySeq DEF Init, Workers
  <1>4. Loops \in Nat \ {0} /\ IsOdd(1) /\ (1 - 1) \div 2 = 0
    BY LoopsAssumption DEF IsOdd
  <1>5. \A w \in Workers : Rounds(w) = 0 /\ IsOdd(pc[w])
    BY <1>3, <1>4 DEF Rounds
  <1>6. NonMutexInv
    BY <1>3, <1>4, <1>5 DEF NonMutexInv
  <1>7. SharedMemoryInv
    BY <1>3, <1>4, <1>5 DEF SharedMemoryInv
  <1>8. QED
    BY <1>1, <1>2, <1>6, <1>7 DEF CountersInv

LEMMA CountersStep == CountersInv /\ [Next]_vars => CountersInv'
  <1> SUFFICES ASSUME CountersInv, [Next]_vars PROVE CountersInv'
    OBVIOUS
  <1>1. SectionsTypeOK /\ SectionsTypeOK'
    BY SectionsTypes DEF CountersInv
  <1>2. program' = program /\ there' = there
    BY DEF vars, Next, Step, Open, OpenFails, Wait, Sleep, Try, Post, Reinit, Seek, Write,
           Set, Put, Announce, Look, Join, Exit, Enter, Kill, Ends, Return
  <1>3. NonMutex.lock = "none" /\ SharedMemory.lock = "none"
    BY DEF NonMutex, SharedMemory, Pair
  <1>4. ASSUME NEW w \in Workers, Step(w) \/ Enter(w) \/ Kill(w)
        PROVE  /\ program = NonMutex => NonMutexInv'
               /\ program = SharedMemory => SharedMemoryInv'
    <2>1. program = NonMutex => NonMutexInv'
      BY <1>1, <1>2, <1>3, <1>4, NonMutexStep DEF CountersInv
    <2>2. program = SharedMemory => SharedMemoryInv'
      BY <1>1, <1>2, <1>3, <1>4, SharedMemoryStep DEF CountersInv
    <2>3. QED
      BY <2>1, <2>2
  <1>5. CASE UNCHANGED vars
    <2>1. UNCHANGED <<pc, state, text, pos>>
      BY <1>5 DEF vars, content
    <2>2. NonMutexInv <=> NonMutexInv'
      BY <2>1 DEF NonMutexInv, Rounds
    <2>3. SharedMemoryInv <=> SharedMemoryInv'
      BY <2>1 DEF SharedMemoryInv, Rounds
    <2>4. QED
      BY <1>1, <1>2, <2>2, <2>3 DEF CountersInv
  <1>6. CASE Next
    BY <1>1, <1>2, <1>4, <1>6 DEF Next, CountersInv
  <1>7. QED
    BY <1>5, <1>6

LEMMA CountersImply == CountersInv => UnlockedCounts
  <1> SUFFICES ASSUME CountersInv, \A w \in Workers : state[w] = "exited"
               PROVE  /\ program = NonMutex /\ Loops > 1 => Len(text) \in 2..(2 * Loops)
                      /\ program = SharedMemory =>
                           Len(text) \in {Loops} \cup Ten..(Ten + Loops)
    BY DEF UnlockedCounts
  <1>1. /\ Len(text) \in Nat /\ Loops \in Nat \ {0} /\ "A" \in Workers /\ "B" \in Workers
        /\ ((2 * Loops + 1) - 1) \div 2 = Loops
    BY LenProperties, LoopsAssumption DEF CountersInv, SectionsTypeOK, Workers
  <1>2. ASSUME program = NonMutex, Loops > 1 PROVE Len(text) \in 2..(2 * Loops)
    <2>1. Rounds("A") = Loops /\ Rounds("B") = Loops
      BY <1>1, <1>2 DEF CountersInv, NonMutexInv, Rounds
    <2>2. QED
      BY <1>1, <1>2, <2>1 DEF CountersInv, NonMutexInv
  <1>3. ASSUME program = SharedMemory
        PROVE  Len(text) \in {Loops} \cup Ten..(Ten + Loops)
    <2>1. Rounds("B") = Loops
      BY <1>1, <1>3 DEF CountersInv, SharedMemoryInv, Rounds
    <2>2. QED
      BY <1>1, <1>3, <2>1 DEF CountersInv, SharedMemoryInv
  <1>4. QED
    BY <1>2, <1>3

-----------------------------------------------------------------------------
(* Homework2 level3.c: a producer, consumers and a circular buffer.         *)

(* Consumers between sem_wait(&availableItems) (50) and their take (57),   *)
(* and between the take and sem_post(&remainingSpace) (64).                *)
Claiming == {c \in Consumers : consumerpc[c] \in {"lock", "take"}}
Returning ==
  {c \in Consumers : consumerpc[c] \in {"add", "count", "unlock", "post"}}

InMutex(c) == consumerpc[c] \in {"take", "add", "count", "unlock"}

(* totalSum_mutex admits one consumer to 56-63.                            *)
MutexHeld == \A c \in Consumers : InMutex(c) <=> totalMutex = c

(* Every number posted and not taken is in availableItems or claimed.      *)
ItemsBalance ==
  /\ IsFiniteSet(Claiming)
  /\ availableItems + Cardinality(Claiming) = producer.i - 1 - Buffer!Takes

(* Every slot is free, filled, or about to be filled or given back.        *)
SpaceBalance ==
  /\ IsFiniteSet(Returning)
  /\ remainingSpace + Cardinality(Returning) + (Buffer!Puts - Buffer!Takes)
       + (IF producer.at = "put" THEN 1 ELSE 0) = BUFFER_SIZE

(* head and tail stand where the counts of takes and puts say.             *)
Pointers == head = Buffer!Takes % BUFFER_SIZE /\ tail = Buffer!Puts % BUFFER_SIZE

(* The part of SlotsIntact that speaks of the contents.                    *)
SlotsHold == \A k \in (Buffer!Takes + 1)..Buffer!Puts : circular[(k - 1) % BUFFER_SIZE] = k

(* What main knows at each statement.                                      *)
MainKnows ==
  /\ producer.at \in {"put", "post"} => producer.i <= BufferedLen
  /\ buffermain.at # "join" => producer.at = "wait" /\ producer.i = BufferedLen + 1
  /\ buffermain.at \in {"report", "ended"} => processed >= BufferedLen
  /\ Buffer!ReportsSum

BufferInv ==
  /\ Buffer!TypeOK /\ MutexHeld /\ ItemsBalance /\ SpaceBalance
  /\ Pointers /\ SlotsHold /\ Buffer!AddsInOrder /\ MainKnows

-----------------------------------------------------------------------------
(* Arithmetic of the circular buffer                                       *)

(* Division with remainder, in the form the provers need it.               *)
LEMMA DivMod ==
  ASSUME NEW a \in Nat, NEW B \in Nat \ {0}
  PROVE  a = B * (a \div B) + (a % B) /\ a \div B \in Nat /\ a % B \in 0..(B - 1)
  OBVIOUS

LEMMA NextMultiple ==
  ASSUME NEW B \in Nat \ {0}, NEW q \in Int, NEW r \in Int, q < r
  PROVE  B * r >= B * q + B
  OBVIOUS

LEMMA ModUnique ==
  ASSUME NEW q \in Nat, NEW r \in Nat, NEW B \in Nat \ {0}, r < B
  PROVE  (B * q + r) % B = r
  OBVIOUS

(* Counts less than B apart have different slots (36-37).                  *)
LEMMA SlotsDiffer ==
  ASSUME NEW a \in Nat, NEW b \in Nat, NEW B \in Nat \ {0}, a < b, b < a + B
  PROVE  a % B # b % B
  <1> DEFINE q == a \div B
             r == b \div B
  <1>1. a = B * q + (a % B) /\ q \in Nat /\ a % B \in 0..(B - 1)
    BY DivMod
  <1>2. b = B * r + (b % B) /\ r \in Nat /\ b % B \in 0..(B - 1)
    BY DivMod
  <1>3. SUFFICES ASSUME a % B = b % B PROVE FALSE
    OBVIOUS
  <1> HIDE DEF q, r
  <1>4. B * r - B * q = b - a
    BY <1>1, <1>2, <1>3
  <1>5. CASE q < r
    <2>1. B * r >= B * q + B
      BY <1>5, <1>1, <1>2, NextMultiple
    <2>2. QED
      BY <2>1, <1>4, <1>1, <1>2
  <1>6. CASE r <= q
    <2>1. B * r <= B * q
      BY <1>6, <1>1, <1>2, NextMultiple
    <2>2. QED
      BY <2>1, <1>4, <1>1, <1>2
  <1>7. QED
    BY <1>5, <1>6, <1>1, <1>2

(* (tail + 1) % BUFFER_SIZE is the slot of the next count (37, 58).        *)
LEMMA SuccessorMod ==
  ASSUME NEW a \in Nat, NEW B \in Nat \ {0}
  PROVE  ((a % B) + 1) % B = (a + 1) % B
  <1> DEFINE q == a \div B
             r == a % B
  <1>1. a = B * q + r /\ q \in Nat /\ r \in 0..(B - 1)
    BY DivMod
  <1> HIDE DEF q, r
  <1>2. CASE r + 1 < B
    <2>1. (B * q + (r + 1)) % B = r + 1
      BY <1>1, <1>2, ModUnique
    <2>2. (B * 0 + (r + 1)) % B = r + 1
      BY <1>1, <1>2, ModUnique
    <2>3. a + 1 = B * q + (r + 1) /\ B * 0 + (r + 1) = r + 1
      BY <1>1
    <2>4. QED
      BY <2>1, <2>2, <2>3 DEF r
  <1>3. CASE r + 1 = B
    <2>1. (B * (q + 1) + 0) % B = 0
      BY <1>1, ModUnique
    <2>2. (B * 1 + 0) % B = 0
      BY <1>1, ModUnique
    <2>3. a + 1 = B * (q + 1) + 0 /\ B * 1 + 0 = r + 1
      BY <1>1, <1>3
    <2>4. QED
      BY <2>1, <2>2, <2>3 DEF r
  <1>4. QED
    BY <1>1, <1>2, <1>3

(* Adding the next square keeps the closed form (60).                      *)
LEMMA NextSquare ==
  ASSUME NEW t \in Nat, NEW p \in Nat, 6 * t = Buffer!SixSquares(p)
  PROVE  6 * (t + (p + 1) * (p + 1)) = Buffer!SixSquares(p + 1)
  BY DEF Buffer!SixSquares

-----------------------------------------------------------------------------
(* Initial states, and what a step without puts and takes preserves        *)

LEMMA BufferInitInv == Buffer!Init => BufferInv
  <1> SUFFICES ASSUME Buffer!Init PROVE BufferInv
    OBVIOUS
  <1> USE DEF Buffer!Init
  <1>1. Buffer!TypeOK
    BY SizesAssumption DEF Buffer!TypeOK, Buffer!Slots, Buffer!PCs
  <1>2. MutexHeld /\ Buffer!AddsInOrder /\ MainKnows
    BY SizesAssumption
    DEF MutexHeld, InMutex, Buffer!AddsInOrder, Buffer!SixSquares, MainKnows,
        Buffer!ReportsSum
  <1>3. Buffer!Takes = 0 /\ Buffer!Puts = 0 /\ Claiming = {} /\ Returning = {}
    BY SizesAssumption DEF Buffer!Takes, Buffer!Puts, Claiming, Returning
  <1>4. ItemsBalance /\ SpaceBalance
    BY <1>3, FS_EmptySet, SizesAssumption DEF ItemsBalance, SpaceBalance
  <1>5. 0 % BUFFER_SIZE = 0
    BY SizesAssumption
  <1>6. Pointers /\ SlotsHold
    BY <1>3, <1>5 DEF Pointers, SlotsHold
  <1>7. QED
    BY <1>1, <1>2, <1>4, <1>6 DEF BufferInv

(* A step that puts and takes nothing keeps the balances and the contents. *)
LEMMA NothingMoves ==
  ASSUME ItemsBalance, SpaceBalance, Pointers, SlotsHold,
         UNCHANGED <<Buffer!queue, Buffer!semaphores, producer>>,
         Buffer!Takes' = Buffer!Takes, Claiming' = Claiming, Returning' = Returning
  PROVE  (ItemsBalance /\ SpaceBalance /\ Pointers /\ SlotsHold)'
  BY DEF ItemsBalance, SpaceBalance, Pointers, SlotsHold, Buffer!queue,
         Buffer!semaphores, Buffer!Puts

(* The counts are numbers, and a buffer apart at most.                     *)
LEMMA BufferCounts ==
  ASSUME Buffer!TypeOK, ItemsBalance, SpaceBalance
  PROVE  /\ Buffer!Takes \in Nat /\ Buffer!Puts \in Nat
         /\ Buffer!Takes <= Buffer!Puts /\ Buffer!Puts <= Buffer!Takes + BUFFER_SIZE
         /\ Cardinality(Claiming) \in Nat /\ Cardinality(Returning) \in Nat
         /\ producer.at = "put" => Buffer!Puts < Buffer!Takes + BUFFER_SIZE
  <1>1. Cardinality(Claiming) \in Nat /\ Cardinality(Returning) \in Nat
    BY FS_CardinalityType DEF ItemsBalance, SpaceBalance
  <1>2. Buffer!Takes \in Nat /\ Buffer!Puts \in Nat
    BY DEF Buffer!TypeOK, Buffer!Takes, Buffer!Puts
  <1>3. Buffer!Takes <= producer.i - 1 /\ producer.i - 1 <= Buffer!Puts
    BY <1>1, <1>2 DEF Buffer!TypeOK, ItemsBalance, Buffer!Puts
  <1>4. QED
    BY <1>1, <1>2, <1>3, SizesAssumption DEF Buffer!TypeOK, SpaceBalance

-----------------------------------------------------------------------------
(* Steps of the producer                                                   *)

LEMMA BufferWaitForSpaceInv == BufferInv /\ Buffer!WaitForSpace => BufferInv'
  <1> SUFFICES ASSUME BufferInv, Buffer!WaitForSpace PROVE BufferInv'
    OBVIOUS
  <1> USE DEF Buffer!WaitForSpace, Buffer!queue, Buffer!sums
  <1>1. Buffer!TypeOK' /\ MutexHeld' /\ Buffer!AddsInOrder' /\ MainKnows'
    <2>1. Buffer!TypeOK'
      BY DEF BufferInv, Buffer!TypeOK
    <2>2. MutexHeld' /\ Buffer!AddsInOrder'
      BY DEF BufferInv, MutexHeld, InMutex, Buffer!AddsInOrder
    <2>3. producer'.at = "put" /\ producer'.i = producer.i
      BY DEF BufferInv, Buffer!TypeOK
    <2>4. MainKnows'
      BY <2>3, SizesAssumption DEF BufferInv, Buffer!TypeOK, MainKnows,
             Buffer!ReportsSum
    <2>5. QED
      BY <2>1, <2>2, <2>4
  <1>2. Buffer!Takes' = Buffer!Takes /\ Buffer!Puts' = Buffer!Puts
        /\ Claiming' = Claiming /\ Returning' = Returning
    BY DEF Buffer!Takes, Buffer!Puts, Claiming, Returning
  <1>3. ItemsBalance' /\ Pointers' /\ SlotsHold'
    BY <1>2 DEF BufferInv, ItemsBalance, Pointers, SlotsHold
  <1>4. SpaceBalance'
    BY <1>2, BufferCounts DEF BufferInv, Buffer!TypeOK, SpaceBalance
  <1>5. QED
    BY <1>1, <1>3, <1>4 DEF BufferInv

(* The slot that the producer writes (36) holds no number still to take.   *)
LEMMA BufferPutInv == BufferInv /\ Buffer!Put => BufferInv'
  <1> SUFFICES ASSUME BufferInv, Buffer!Put PROVE BufferInv'
    OBVIOUS
  <1> USE DEF Buffer!Put, Buffer!semaphores, Buffer!sums
  <1>1. /\ Buffer!Takes \in Nat /\ Buffer!Puts \in Nat
        /\ Buffer!Takes <= Buffer!Puts
        /\ Buffer!Puts < Buffer!Takes + BUFFER_SIZE
        /\ Buffer!Puts = producer.i - 1 /\ producer.i \in 1..BufferedLen
    BY BufferCounts, SizesAssumption DEF BufferInv, Buffer!TypeOK, MainKnows,
           Buffer!Puts
  <1>2. Buffer!Takes' = Buffer!Takes /\ Buffer!Puts' = Buffer!Puts + 1
        /\ Claiming' = Claiming /\ Returning' = Returning
    BY <1>1 DEF BufferInv, Buffer!TypeOK, Buffer!Takes, Buffer!Puts, Claiming,
           Returning
  <1>3. tail = Buffer!Puts % BUFFER_SIZE /\ tail \in Buffer!Slots
        /\ tail' = (Buffer!Puts + 1) % BUFFER_SIZE
    BY <1>1, SizesAssumption, SuccessorMod DEF BufferInv, Buffer!TypeOK, Pointers,
           Buffer!Successor
  <1>4. tail' \in Buffer!Slots
    <2>1. Buffer!Puts + 1 \in Nat
      BY <1>1
    <2>2. (Buffer!Puts + 1) % BUFFER_SIZE \in 0..(BUFFER_SIZE - 1)
      BY ONLY <2>1, SizesAssumption, DivMod
    <2>3. QED
      BY <2>2, <1>3 DEF Buffer!Slots
  <1>5. Buffer!TypeOK' /\ MutexHeld' /\ Buffer!AddsInOrder' /\ MainKnows'
    <2>1. Buffer!TypeOK'
      BY <1>1, <1>3, <1>4 DEF BufferInv, Buffer!TypeOK
    <2>2. QED
      BY <2>1, <1>1 DEF BufferInv, MutexHeld, InMutex, Buffer!AddsInOrder,
             MainKnows, Buffer!ReportsSum
  <1>6. ItemsBalance' /\ SpaceBalance' /\ Pointers'
    BY <1>1, <1>2, <1>3, BufferCounts DEF BufferInv, Buffer!TypeOK, ItemsBalance,
           SpaceBalance, Pointers
  <1>7. SlotsHold'
    <2> SUFFICES ASSUME NEW k \in (Buffer!Takes + 1)..(Buffer!Puts + 1)
                 PROVE  circular'[(k - 1) % BUFFER_SIZE] = k
      BY <1>2 DEF SlotsHold
    <2>1. CASE k = Buffer!Puts + 1
      BY <2>1, <1>1, <1>3 DEF BufferInv, Buffer!TypeOK
    <2>2. CASE k \in (Buffer!Takes + 1)..Buffer!Puts
      <3>1. k - 1 \in Nat /\ k - 1 < Buffer!Puts
            /\ Buffer!Puts < (k - 1) + BUFFER_SIZE
        BY <2>2, <1>1, SizesAssumption
      <3>2. (k - 1) % BUFFER_SIZE # tail
        BY <3>1, <1>1, <1>3, SlotsDiffer, SizesAssumption
      <3>3. (k - 1) % BUFFER_SIZE \in Buffer!Slots
        BY <3>1, DivMod, SizesAssumption DEF Buffer!Slots
      <3>4. circular[(k - 1) % BUFFER_SIZE] = k
        BY <2>2 DEF BufferInv, SlotsHold
      <3>5. QED
        BY <3>2, <3>3, <3>4 DEF BufferInv, Buffer!TypeOK
    <2>3. QED
      BY <2>1, <2>2, <1>1
  <1>8. QED
    BY <1>5, <1>6, <1>7 DEF BufferInv

LEMMA BufferPostItemInv == BufferInv /\ Buffer!PostItem => BufferInv'
  <1> SUFFICES ASSUME BufferInv, Buffer!PostItem PROVE BufferInv'
    OBVIOUS
  <1> USE DEF Buffer!PostItem, Buffer!queue, Buffer!sums
  <1>1. producer.i \in 1..BufferedLen
    BY SizesAssumption DEF BufferInv, Buffer!TypeOK, MainKnows
  <1>2. Buffer!TypeOK' /\ MutexHeld' /\ Buffer!AddsInOrder' /\ MainKnows'
    BY <1>1, SizesAssumption
    DEF BufferInv, Buffer!TypeOK, MutexHeld, InMutex, Buffer!AddsInOrder,
        MainKnows, Buffer!ReportsSum
  <1>3. Buffer!Takes' = Buffer!Takes /\ Buffer!Puts' = Buffer!Puts
        /\ Claiming' = Claiming /\ Returning' = Returning
    BY <1>1 DEF Buffer!Takes, Buffer!Puts, Claiming, Returning
  <1>4. Pointers' /\ SlotsHold'
    BY <1>3 DEF BufferInv, Pointers, SlotsHold
  <1>5. ItemsBalance' /\ SpaceBalance'
    BY <1>1, <1>3, BufferCounts DEF BufferInv, Buffer!TypeOK, ItemsBalance,
           SpaceBalance
  <1>6. QED
    BY <1>2, <1>4, <1>5 DEF BufferInv

-----------------------------------------------------------------------------
(* Steps of a consumer                                                     *)

LEMMA BufferWaitForItemInv ==
  ASSUME NEW c \in Consumers PROVE BufferInv /\ Buffer!WaitForItem(c) => BufferInv'
  <1> SUFFICES ASSUME BufferInv, Buffer!WaitForItem(c) PROVE BufferInv'
    OBVIOUS
  <1> USE DEF Buffer!WaitForItem, Buffer!Goto, Buffer!queue, Buffer!sums
  <1>1. consumerpc[c] = "wait"
        /\ consumerpc' = [consumerpc EXCEPT ![c] = "lock"]
        /\ consumerpc \in [Consumers -> Buffer!PCs]
    BY DEF BufferInv, Buffer!TypeOK
  <1>2. Buffer!TypeOK' /\ MutexHeld' /\ MainKnows'
    <2>1. Buffer!TypeOK'
      BY DEF BufferInv, Buffer!TypeOK, Buffer!PCs
    <2>2. MutexHeld'
      BY <1>1 DEF BufferInv, MutexHeld, InMutex
    <2>3. QED
      BY <2>1, <2>2 DEF BufferInv, MainKnows, Buffer!ReportsSum
  <1>3. Buffer!AddsInOrder'
    BY <1>1 DEF BufferInv, Buffer!AddsInOrder
  <1>4. Buffer!Takes' = Buffer!Takes /\ Buffer!Puts' = Buffer!Puts
    BY <1>1 DEF BufferInv, Buffer!TypeOK, MutexHeld, InMutex, Buffer!Takes,
           Buffer!Puts
  <1>5. Claiming' = Claiming \cup {c} /\ c \notin Claiming /\ Returning' = Returning
    BY <1>1 DEF Claiming, Returning
  <1>6. SpaceBalance' /\ Pointers' /\ SlotsHold'
    BY <1>4, <1>5 DEF BufferInv, SpaceBalance, Pointers, SlotsHold
  <1>7. IsFiniteSet(Claiming') /\ Cardinality(Claiming') = Cardinality(Claiming) + 1
    BY <1>5, FS_AddElement DEF BufferInv, ItemsBalance
  <1>8. ItemsBalance'
    BY <1>4, <1>7, BufferCounts DEF BufferInv, Buffer!TypeOK, ItemsBalance
  <1>9. QED
    BY <1>2, <1>3, <1>6, <1>8 DEF BufferInv

LEMMA BufferLockInv ==
  ASSUME NEW c \in Consumers PROVE BufferInv /\ Buffer!Lock(c) => BufferInv'
  <1> SUFFICES ASSUME BufferInv, Buffer!Lock(c) PROVE BufferInv'
    OBVIOUS
  <1> USE DEF Buffer!Lock, Buffer!Goto, Buffer!sums
  <1>1. consumerpc[c] = "lock"
        /\ consumerpc' = [consumerpc EXCEPT ![c] = "take"]
        /\ consumerpc \in [Consumers -> Buffer!PCs]
    BY DEF BufferInv, Buffer!TypeOK
  <1>2. Buffer!TypeOK' /\ MutexHeld' /\ MainKnows'
    <2>1. Buffer!TypeOK'
      BY DEF BufferInv, Buffer!TypeOK, Buffer!PCs, Buffer!queue, Buffer!semaphores
    <2>2. MutexHeld'
      BY <1>1, SizesAssumption DEF BufferInv, MutexHeld, InMutex
    <2>3. QED
      BY <2>1, <2>2 DEF BufferInv, MainKnows, Buffer!ReportsSum
  <1>3. Buffer!AddsInOrder'
    BY <1>1 DEF BufferInv, Buffer!AddsInOrder
  <1>4. Buffer!Takes' = Buffer!Takes /\ Claiming' = Claiming
        /\ Returning' = Returning
    BY <1>1 DEF Buffer!Takes, Claiming, Returning
  <1>5. QED
    BY <1>2, <1>3, <1>4, NothingMoves DEF BufferInv

(* The number taken (57) is the next one, for the slot still holds it.     *)
LEMMA BufferTakeInv ==
  ASSUME NEW c \in Consumers PROVE BufferInv /\ Buffer!Take(c) => BufferInv'
  <1> SUFFICES ASSUME BufferInv, Buffer!Take(c) PROVE BufferInv'
    OBVIOUS
  <1> USE DEF Buffer!Take, Buffer!Goto, Buffer!semaphores, Buffer!sums
  <1>1. /\ consumerpc[c] = "take"
        /\ consumerpc' = [consumerpc EXCEPT ![c] = "add"]
        /\ consumerpc \in [Consumers -> Buffer!PCs]
        /\ totalMutex = c /\ totalMutex' = c /\ c # "free"
    BY SizesAssumption DEF BufferInv, Buffer!TypeOK, MutexHeld, InMutex
  <1>2. Buffer!Takes = processed /\ Buffer!Takes' = Buffer!Takes + 1
        /\ Buffer!Puts' = Buffer!Puts
    BY <1>1 DEF BufferInv, Buffer!TypeOK, Buffer!Takes, Buffer!Puts
  <1>3. /\ Claiming' = Claiming \ {c} /\ c \in Claiming
        /\ Returning' = Returning \cup {c} /\ c \notin Returning
    BY <1>1 DEF Claiming, Returning
  <1>4. /\ IsFiniteSet(Claiming')
        /\ Cardinality(Claiming') = Cardinality(Claiming) - 1
        /\ IsFiniteSet(Returning')
        /\ Cardinality(Returning') = Cardinality(Returning) + 1
    BY <1>3, FS_AddElement, FS_RemoveElement DEF BufferInv, ItemsBalance,
           SpaceBalance
  <1>5. ItemsBalance' /\ SpaceBalance'
    BY <1>2, <1>4, BufferCounts DEF BufferInv, Buffer!TypeOK, ItemsBalance,
           SpaceBalance
  <1>6. Buffer!Takes \in Nat /\ Buffer!Puts \in Nat /\ Buffer!Takes < Buffer!Puts
    <2>1. Cardinality(Claiming) \in Nat /\ Cardinality(Claiming) # 0
      BY <1>3, FS_CardinalityType, FS_EmptySet DEF BufferInv, ItemsBalance
    <2>2. QED
      BY <2>1, BufferCounts DEF BufferInv, Buffer!TypeOK, ItemsBalance, Buffer!Puts
  <1>7. head = Buffer!Takes % BUFFER_SIZE /\ head \in Buffer!Slots
        /\ head' = (Buffer!Takes + 1) % BUFFER_SIZE
    BY <1>6, SizesAssumption, SuccessorMod DEF BufferInv, Buffer!TypeOK, Pointers,
           Buffer!Successor
  <1>8. head' \in Buffer!Slots
    <2>1. Buffer!Takes + 1 \in Nat
      BY <1>6
    <2>2. (Buffer!Takes + 1) % BUFFER_SIZE \in 0..(BUFFER_SIZE - 1)
      BY ONLY <2>1, SizesAssumption, DivMod
    <2>3. QED
      BY <2>2, <1>7 DEF Buffer!Slots
  <1>9. circular[head] = processed + 1
    <2>1. Buffer!Takes + 1 \in (Buffer!Takes + 1)..Buffer!Puts
          /\ (Buffer!Takes + 1) - 1 = Buffer!Takes
      BY <1>6
    <2>2. QED
      BY <2>1, <1>2, <1>7 DEF BufferInv, SlotsHold
  <1>10. Pointers' /\ SlotsHold'
    BY <1>2, <1>6, <1>7 DEF BufferInv, Pointers, SlotsHold
  <1>11. Buffer!TypeOK'
    BY <1>7, <1>8 DEF BufferInv, Buffer!TypeOK, Buffer!PCs
  <1>12. MutexHeld' /\ MainKnows'
    BY <1>1 DEF BufferInv, MutexHeld, InMutex, MainKnows, Buffer!ReportsSum
  <1>13. Buffer!AddsInOrder'
    <2>1. \A d \in Consumers : consumerpc'[d] = "add" => d = c
      BY <1>1, <1>12 DEF MutexHeld, InMutex
    <2>2. val'[c] = processed + 1
      BY <1>9 DEF BufferInv, Buffer!TypeOK
    <2>3. \A d \in Consumers : consumerpc[d] # "count" /\ consumerpc'[d] # "count"
      BY <1>1 DEF BufferInv, MutexHeld, InMutex
    <2>4. QED
      BY <2>1, <2>2, <2>3 DEF BufferInv, Buffer!AddsInOrder
  <1>14. QED
    BY <1>5, <1>10, <1>11, <1>12, <1>13 DEF BufferInv

LEMMA BufferAddInv ==
  ASSUME NEW c \in Consumers PROVE BufferInv /\ Buffer!Add(c) => BufferInv'
  <1> SUFFICES ASSUME BufferInv, Buffer!Add(c) PROVE BufferInv'
    OBVIOUS
  <1> USE DEF Buffer!Add, Buffer!Goto
  <1>1. /\ consumerpc[c] = "add"
        /\ consumerpc' = [consumerpc EXCEPT ![c] = "count"]
        /\ consumerpc \in [Consumers -> Buffer!PCs]
        /\ totalMutex = c /\ totalMutex' = c /\ c # "free"
    BY SizesAssumption DEF BufferInv, Buffer!TypeOK, MutexHeld, InMutex
  <1>2. Buffer!Takes' = Buffer!Takes /\ Claiming' = Claiming
        /\ Returning' = Returning
    BY <1>1 DEF Buffer!Takes, Claiming, Returning
  <1>3. MutexHeld' /\ MainKnows'
    BY <1>1 DEF BufferInv, MutexHeld, InMutex, MainKnows, Buffer!ReportsSum
  <1>4. val[c] = processed + 1 /\ squares' = squares + val[c] * val[c]
        /\ squares \in Nat /\ processed \in Nat
    BY <1>1 DEF BufferInv, Buffer!TypeOK, Buffer!AddsInOrder
  <1>5. Buffer!TypeOK'
    BY <1>1, <1>4 DEF BufferInv, Buffer!TypeOK, Buffer!PCs, Buffer!queue,
           Buffer!semaphores
  <1>6. Buffer!AddsInOrder'
    <2>1. 6 * squares = Buffer!SixSquares(processed)
      BY <1>1 DEF BufferInv, MutexHeld, InMutex, Buffer!AddsInOrder
    <2>2. 6 * squares' = Buffer!SixSquares(processed + 1)
      BY <2>1, <1>4, NextSquare
    <2>3. consumerpc'[c] = "count" /\ \A d \in Consumers : consumerpc'[d] # "add"
      BY <1>1, <1>3 DEF MutexHeld, InMutex
    <2>4. QED
      BY <2>2, <2>3 DEF Buffer!AddsInOrder
  <1>7. QED
    BY <1>2, <1>3, <1>5, <1>6, NothingMoves DEF BufferInv

LEMMA BufferCountInv ==
  ASSUME NEW c \in Consumers PROVE BufferInv /\ Buffer!Count(c) => BufferInv'
  <1> SUFFICES ASSUME BufferInv, Buffer!Count(c) PROVE BufferInv'
    OBVIOUS
  <1> USE DEF Buffer!Count, Buffer!Goto
  <1>1. /\ consumerpc[c] = "count"
        /\ consumerpc' = [consumerpc EXCEPT ![c] = "unlock"]
        /\ consumerpc \in [Consumers -> Buffer!PCs]
        /\ totalMutex = c /\ totalMutex' = c /\ c # "free"
    BY SizesAssumption DEF BufferInv, Buffer!TypeOK, MutexHeld, InMutex
  <1>2. Buffer!Takes' = Buffer!Takes /\ Claiming' = Claiming
        /\ Returning' = Returning
    BY <1>1 DEF Buffer!Takes, Claiming, Returning
  <1>3. MutexHeld' /\ Buffer!TypeOK'
    BY <1>1 DEF BufferInv, Buffer!TypeOK, Buffer!PCs, Buffer!queue,
           Buffer!semaphores, MutexHeld, InMutex
  <1>4. MainKnows'
    BY SizesAssumption DEF BufferInv, Buffer!TypeOK, MainKnows, Buffer!ReportsSum
  <1>5. Buffer!AddsInOrder'
    <2>1. \A d \in Consumers : consumerpc'[d] \notin {"add", "count"}
      BY <1>1, <1>3 DEF MutexHeld, InMutex
    <2>2. 6 * squares = Buffer!SixSquares(processed + 1)
      BY <1>1 DEF BufferInv, Buffer!AddsInOrder
    <2>3. QED
      BY <2>1, <2>2 DEF Buffer!AddsInOrder
  <1>6. QED
    BY <1>2, <1>3, <1>4, <1>5, NothingMoves DEF BufferInv

LEMMA BufferUnlockInv ==
  ASSUME NEW c \in Consumers PROVE BufferInv /\ Buffer!Unlock(c) => BufferInv'
  <1> SUFFICES ASSUME BufferInv, Buffer!Unlock(c) PROVE BufferInv'
    OBVIOUS
  <1> USE DEF Buffer!Unlock, Buffer!Goto, Buffer!sums
  <1>1. /\ consumerpc[c] = "unlock"
        /\ consumerpc' = [consumerpc EXCEPT ![c] = "post"]
        /\ consumerpc \in [Consumers -> Buffer!PCs]
        /\ totalMutex = c /\ totalMutex' = "free"
    BY DEF BufferInv, Buffer!TypeOK, MutexHeld, InMutex
  <1>2. Buffer!Takes' = Buffer!Takes /\ Claiming' = Claiming
        /\ Returning' = Returning
    BY <1>1 DEF Buffer!Takes, Claiming, Returning
  <1>3. Buffer!TypeOK'
    BY <1>1 DEF BufferInv, Buffer!TypeOK, Buffer!PCs, Buffer!queue,
           Buffer!semaphores
  <1>4. MutexHeld' /\ Buffer!AddsInOrder' /\ MainKnows'
    BY <1>1, SizesAssumption
    DEF BufferInv, MutexHeld, InMutex, Buffer!AddsInOrder, MainKnows,
        Buffer!ReportsSum
  <1>5. QED
    BY <1>2, <1>3, <1>4, NothingMoves DEF BufferInv

LEMMA BufferPostSpaceInv ==
  ASSUME NEW c \in Consumers PROVE BufferInv /\ Buffer!PostSpace(c) => BufferInv'
  <1> SUFFICES ASSUME BufferInv, Buffer!PostSpace(c) PROVE BufferInv'
    OBVIOUS
  <1> USE DEF Buffer!PostSpace, Buffer!Goto, Buffer!queue, Buffer!sums
  <1>1. consumerpc[c] = "post"
        /\ consumerpc' = [consumerpc EXCEPT ![c] = "wait"]
        /\ consumerpc \in [Consumers -> Buffer!PCs]
    BY DEF BufferInv, Buffer!TypeOK
  <1>2. Buffer!TypeOK'
    BY <1>1 DEF BufferInv, Buffer!TypeOK, Buffer!PCs
  <1>3. MutexHeld' /\ Buffer!AddsInOrder' /\ MainKnows'
    BY <1>1 DEF BufferInv, MutexHeld, InMutex, Buffer!AddsInOrder, MainKnows,
           Buffer!ReportsSum
  <1>4. Buffer!Takes' = Buffer!Takes /\ Buffer!Puts' = Buffer!Puts
    BY <1>1 DEF BufferInv, Buffer!TypeOK, MutexHeld, InMutex, Buffer!Takes,
           Buffer!Puts
  <1>5. Claiming' = Claiming /\ Returning' = Returning \ {c} /\ c \in Returning
    BY <1>1 DEF Claiming, Returning
  <1>6. ItemsBalance' /\ Pointers' /\ SlotsHold'
    BY <1>4, <1>5 DEF BufferInv, ItemsBalance, Pointers, SlotsHold
  <1>7. IsFiniteSet(Returning')
        /\ Cardinality(Returning') = Cardinality(Returning) - 1
    BY <1>5, FS_RemoveElement DEF BufferInv, SpaceBalance
  <1>8. SpaceBalance'
    BY <1>4, <1>7, BufferCounts DEF BufferInv, Buffer!TypeOK, SpaceBalance
  <1>9. QED
    BY <1>2, <1>3, <1>6, <1>8 DEF BufferInv

-----------------------------------------------------------------------------
(* Steps of main                                                           *)

(* When main has counted N numbers, none is left anywhere, and no consumer *)
(* is between its take and its count.                                      *)
LEMMA AllCounted ==
  ASSUME BufferInv, buffermain.at # "join", processed >= BufferedLen
  PROVE  /\ processed = BufferedLen /\ availableItems = 0
         /\ \A c \in Consumers : consumerpc[c] \in {"unlock", "post", "wait"}
  <1>1. producer.at = "wait" /\ producer.i = BufferedLen + 1
    BY DEF BufferInv, MainKnows
  <1>2. Buffer!Puts = BufferedLen /\ processed \in Nat /\ availableItems \in Nat
    BY <1>1, SizesAssumption DEF BufferInv, Buffer!TypeOK, Buffer!Puts
  <1>3. Buffer!Takes \in {processed, processed + 1} /\ Buffer!Takes <= BufferedLen
    BY <1>2, BufferCounts DEF BufferInv, Buffer!Takes
  <1>4. processed = BufferedLen /\ Buffer!Takes = BufferedLen
    BY <1>2, <1>3, SizesAssumption
  <1>5. Cardinality(Claiming) \in Nat
    BY BufferCounts DEF BufferInv
  <1>6. availableItems = 0 /\ Cardinality(Claiming) = 0
    BY <1>1, <1>2, <1>4, <1>5, SizesAssumption DEF BufferInv, ItemsBalance
  <1>7. Claiming = {}
    BY <1>6, FS_EmptySet DEF BufferInv, ItemsBalance
  <1>8. ASSUME NEW c \in Consumers PROVE consumerpc[c] \notin {"add", "count"}
    <2>1. SUFFICES ASSUME consumerpc[c] \in {"add", "count"} PROVE FALSE
      OBVIOUS
    <2>2. totalMutex = c /\ c # "free"
      BY <2>1, SizesAssumption DEF BufferInv, MutexHeld, InMutex
    <2>3. Buffer!Takes = processed + 1
      BY <2>1, <2>2 DEF Buffer!Takes
    <2>4. QED
      BY <2>3, <1>2, <1>4, SizesAssumption
  <1>9. QED
    BY <1>4, <1>6, <1>7, <1>8 DEF BufferInv, Buffer!TypeOK, Buffer!PCs, Claiming

LEMMA BufferMainInv == BufferInv /\ Buffer!Main => BufferInv'
  <1> SUFFICES ASSUME BufferInv, Buffer!Main PROVE BufferInv'
    OBVIOUS
  <1>1. UNCHANGED <<Buffer!queue, Buffer!semaphores, totalMutex, Buffer!sums,
        producer, consumerpc, val>>
    BY DEF Buffer!Main, Buffer!Join, Buffer!AllProcessed, Buffer!Report
  <1>2. Buffer!Takes' = Buffer!Takes /\ Claiming' = Claiming
        /\ Returning' = Returning
    BY <1>1 DEF Buffer!sums, Buffer!Takes, Claiming, Returning
  <1>3. MutexHeld' /\ Buffer!AddsInOrder'
    BY <1>1 DEF BufferInv, Buffer!sums, MutexHeld, InMutex, Buffer!AddsInOrder
  <1>4. buffermain' \in [at : {"join", "spin", "report", "ended"}, sum : Nat]
    BY DEF BufferInv, Buffer!TypeOK, Buffer!Main, Buffer!Join, Buffer!AllProcessed,
           Buffer!Report
  <1>5. Buffer!TypeOK'
    BY <1>1, <1>4 DEF BufferInv, Buffer!TypeOK, Buffer!queue, Buffer!semaphores,
           Buffer!sums
  <1>6. MainKnows'
    <2>1. CASE Buffer!Join
      BY <2>1, SizesAssumption DEF Buffer!Join, BufferInv, Buffer!TypeOK,
             MainKnows, Buffer!ReportsSum
    <2>2. CASE Buffer!AllProcessed
      BY <2>2 DEF Buffer!AllProcessed, Buffer!sums, BufferInv, Buffer!TypeOK,
             MainKnows, Buffer!ReportsSum
    <2>3. CASE Buffer!Report
      <3>1. buffermain.at = "report" /\ processed >= BufferedLen
            /\ buffermain' = [at |-> "ended", sum |-> squares]
        BY <2>3 DEF Buffer!Report, BufferInv, MainKnows
      <3>2. processed = BufferedLen /\ \A c \in Consumers : consumerpc[c] # "count"
        BY <3>1, AllCounted
      <3>3. 6 * squares = Buffer!SixSquares(BufferedLen)
        BY <3>2 DEF BufferInv, Buffer!AddsInOrder
      <3>4. Buffer!ReportsSum'
        BY <3>1, <3>3 DEF Buffer!ReportsSum
      <3>5. QED
        BY <3>1, <3>4, <1>1 DEF Buffer!sums, BufferInv, MainKnows
    <2>4. QED
      BY <2>1, <2>2, <2>3 DEF Buffer!Main
  <1>7. QED
    BY <1>1, <1>2, <1>3, <1>5, <1>6, NothingMoves DEF BufferInv

LEMMA BufferStepInv == BufferInv /\ [Buffer!Next]_Buffer!vars => BufferInv'
  <1> SUFFICES ASSUME BufferInv, [Buffer!Next]_Buffer!vars PROVE BufferInv'
    OBVIOUS
  <1>1. CASE Buffer!Main
    BY <1>1, BufferMainInv
  <1>2. CASE Buffer!Producer
    BY <1>2, BufferWaitForSpaceInv, BufferPutInv, BufferPostItemInv
    DEF Buffer!Producer
  <1>3. ASSUME NEW c \in Consumers, Buffer!Consumer(c) PROVE BufferInv'
    BY <1>3, BufferWaitForItemInv, BufferLockInv, BufferTakeInv, BufferAddInv,
       BufferCountInv, BufferUnlockInv, BufferPostSpaceInv
    DEF Buffer!Consumer
  <1>4. CASE UNCHANGED Buffer!vars
    <2>1. Buffer!Takes' = Buffer!Takes /\ Claiming' = Claiming
          /\ Returning' = Returning
      BY <1>4 DEF Buffer!vars, Buffer!sums, Buffer!Takes, Claiming, Returning
    <2>2. (Buffer!TypeOK /\ MutexHeld /\ Buffer!AddsInOrder /\ MainKnows)'
      BY <1>4 DEF Buffer!vars, Buffer!queue, Buffer!semaphores, Buffer!sums,
             BufferInv, Buffer!TypeOK, MutexHeld, InMutex,
                  Buffer!AddsInOrder, MainKnows, Buffer!ReportsSum
    <2>3. QED
      BY <1>4, <2>1, <2>2, NothingMoves DEF Buffer!vars, BufferInv
  <1>5. QED
    BY <1>1, <1>2, <1>3, <1>4 DEF Buffer!Next

(* The variables of level3.c keep their types; head and tail stay slots.   *)
THEOREM BufferTypeCorrect == Buffer!Spec => []Buffer!TypeOK
  <1>1. BufferInv => Buffer!TypeOK
    BY DEF BufferInv
  <1>2. QED
    BY <1>1, BufferInitInv, BufferStepInv, PTL DEF Buffer!Spec

(* Somebody has not ended and does not wait, or waits for what is there:   *)
(* the producer, a consumer or main.                                       *)
SomebodyGoesOn ==
  \/ buffermain.at = "ended"
  \/ producer.at # "wait" \/ (producer.i <= BufferedLen /\ remainingSpace > 0)
  \/ \E c \in Consumers :
       \/ consumerpc[c] \notin {"wait", "lock"}
       \/ consumerpc[c] = "wait" /\ availableItems > 0
       \/ consumerpc[c] = "lock" /\ totalMutex = "free"
  \/ buffermain.at = "join" /\ producer.i > BufferedLen
  \/ buffermain.at = "spin" /\ processed >= BufferedLen
  \/ buffermain.at = "report"

LEMMA BufferGoesOn == BufferInv => SomebodyGoesOn
  <1> SUFFICES ASSUME BufferInv, ~SomebodyGoesOn PROVE FALSE
    OBVIOUS
  <1>1. /\ producer.at = "wait" /\ buffermain.at \in {"join", "spin"}
        /\ producer.i <= BufferedLen => ~(remainingSpace > 0)
        /\ \A c \in Consumers :
             /\ consumerpc[c] \in {"wait", "lock"}
             /\ consumerpc[c] = "wait" => ~(availableItems > 0)
             /\ consumerpc[c] = "lock" => totalMutex # "free"
        /\ buffermain.at = "join" => ~(producer.i > BufferedLen)
        /\ buffermain.at = "spin" => ~(processed >= BufferedLen)
    BY DEF SomebodyGoesOn, BufferInv, Buffer!TypeOK
  <1>2. totalMutex = "free"
    BY <1>1 DEF BufferInv, Buffer!TypeOK, MutexHeld, InMutex
  <1>3. Claiming = {} /\ Returning = {} /\ Buffer!Takes = processed
    BY <1>1, <1>2 DEF Claiming, Returning, Buffer!Takes
  <1>4. Cardinality(Claiming) = 0 /\ Cardinality(Returning) = 0
    BY <1>3, FS_EmptySet
  <1>5. availableItems = 0
    <2>1. PICK c \in Consumers : TRUE
      BY SizesAssumption
    <2>2. QED
      BY <1>1, <1>2, <2>1 DEF BufferInv, Buffer!TypeOK
  <1>6. processed = producer.i - 1 /\ Buffer!Puts = producer.i - 1 /\ producer.i \in Nat
    BY <1>1, <1>3, <1>4, <1>5 DEF BufferInv, ItemsBalance, Buffer!TypeOK, Buffer!Puts
  <1>7. remainingSpace = BUFFER_SIZE
    BY <1>1, <1>3, <1>4, <1>6 DEF BufferInv, SpaceBalance, Buffer!TypeOK
  <1>8. producer.i > BufferedLen
    BY <1>1, <1>6, <1>7, SizesAssumption
  <1>9. buffermain.at = "spin" /\ processed >= BufferedLen
    BY <1>1, <1>6, <1>8, SizesAssumption
  <1>10. QED
    BY <1>1, <1>9

(* Homework2 level3.c 30-39, 50-64, 117: whatever the number of consumers, *)
(* N and the size of the buffer, the semaphores and the mutex never have   *)
(* everybody wait: until main has ended somebody can go on.                *)
THEOREM NeverStuck == Buffer!Spec => []SomebodyGoesOn
  BY BufferGoesOn, BufferInitInv, BufferStepInv, PTL DEF Buffer!Spec

-----------------------------------------------------------------------------
(* The programs that fork, exec and join: what all of them have in common. *)
(* Only main creates processes or threads, each once and before it waits   *)
(* for it, and one process at most; only children set glob and exec, the   *)
(* latter first; and nothing but a child's glob is printed once it is set. *)
Calls0(P) == DOMAIN P.code[0]
ForkCalls == {"fork", "fork_or_exit"}
CreateCalls == {"create", "created"}
StartCalls == ForkCalls \cup CreateCalls
ParentCalls == StartCalls \cup {"write", "print", "print_glob", "wait"}
ChildCalls == {"print", "print_glob", "set", "exec"}

Starts(P, n, c) == P.code[0][n][1] \in StartCalls /\ P.code[0][n][2] = c
Waits(P, n, c) == P.code[0][n] = <<"wait", c>>

WellMade(P) ==
  /\ P.threads \in BOOLEAN
  /\ P.forked \subseteq Nat \ {0} /\ DOMAIN P.code = {0} \cup P.forked
  /\ \A p \in DOMAIN P.code : \E l \in Nat : DOMAIN P.code[p] = 1..l /\ Len(P.code[p]) = l
  /\ \A n \in Calls0(P) : P.code[0][n][1] \in ParentCalls
  /\ \A n \in Calls0(P) : P.code[0][n][1] \in StartCalls \cup {"wait"}
                            => P.code[0][n][2] \in P.forked
  /\ \A n \in Calls0(P) : P.threads => P.code[0][n][1] \notin ForkCalls \cup {"write"}
  /\ \A n \in Calls0(P) : ~P.threads => P.code[0][n][1] \notin CreateCalls
  /\ ~P.threads => P.forked = {1}
  /\ \A n, m \in Calls0(P), c \in P.forked :
       Starts(P, n, c) => (Starts(P, m, c) => n = m) /\ (Waits(P, m, c) => n < m)
  /\ \A c \in P.forked : \A n \in DOMAIN P.code[c] :
       /\ P.code[c][n][1] \in ChildCalls
       /\ P.code[c][n][1] = "exec" => n = 1 /\ ~P.threads

\* glob is set once, and before it is printed.
SetsFirst(P) ==
  \A c \in P.forked : \A n \in DOMAIN P.code[c] :
    /\ P.code[c][n][1] = "set" =>
         \A m \in DOMAIN P.code[c] : P.code[c][m][1] = "set" => m = n
    /\ P.code[c][n][1] = "print_glob" =>
         \E m \in 1..(n - 1) : P.code[c][m][1] = "set"

\* Main waits for each child, and prints last.
PrintsLast(P) ==
  LET L == Len(P.code[0])
  IN  /\ L \in Nat \ {0} /\ P.code[0][L][1] = "print"
      /\ \A n \in Calls0(P) : P.code[0][n][1] \notin {"fork_or_exit", "write"}
      /\ \A c \in P.forked : \E n \in Calls0(P) : Waits(P, n, c)

-----------------------------------------------------------------------------
(* Each program is so.                                                     *)
LEMMA ProgramParts ==
  ASSUME NEW threads, NEW parent, NEW child, 0 \notin DOMAIN child
  PROVE  LET P == Forks!Program(threads, parent, child) IN
         /\ P.threads = threads /\ P.forked = DOMAIN child
         /\ DOMAIN P.code = {0} \cup DOMAIN child
         /\ P.code[0] = parent /\ \A c \in DOMAIN child : P.code[c] = child[c]
  BY DEF Forks!Program

LEMMA LinesAre ==
  /\ Forks!Lines(1) = << <<"print", 0>> >>
  /\ Forks!Lines(2) = << <<"print", 0>>, <<"print", 0>> >>
  /\ Forks!Lines(3) = << <<"print", 0>>, <<"print", 0>>, <<"print", 0>> >>
  BY DEF Forks!Lines

LEMMA JoinedIs ==
  ASSUME NEW S, NEW s \in Seq(S), NEW t \in Seq(S), NEW u \in Seq(S),
         Len(u) = Len(s) + Len(t),
         \A j \in 1..Len(s) : u[j] = s[j], \A j \in 1..Len(t) : u[Len(s) + j] = t[j]
  PROVE  s \o t = u
  <1>1. /\ s \o t \in Seq(S) /\ Len(s \o t) = Len(s) + Len(t)
        /\ \A j \in 1..(Len(s) + Len(t)) :
             (s \o t)[j] = IF j <= Len(s) THEN s[j] ELSE t[j - Len(s)]
    BY ConcatProperties
  <1>2. ASSUME NEW j \in 1..Len(u) PROVE (s \o t)[j] = u[j]
    <2>1. Len(s) \in Nat /\ Len(t) \in Nat
      OBVIOUS
    <2>2. CASE j <= Len(s)
      BY <1>1, <2>1, <2>2
    <2>3. CASE ~(j <= Len(s))
      BY <1>1, <2>1, <2>3, j - Len(s) \in 1..Len(t)
    <2>4. QED
      BY <2>2, <2>3
  <1>3. QED
    BY <1>1, <1>2, SeqEqual

LEMMA FourCalls ==
  ASSUME NEW a, NEW b, NEW c, NEW d
  PROVE  <<a>> \o <<b>> \o <<c, d>> = <<a, b, c, d>>
  <1> DEFINE S == {a, b, c, d}
  <1>1. <<a>> \o <<b>> = <<a, b>>
    <2> DEFINE s == <<a>>
               t == <<b>>
               u == <<a, b>>
    <2>1. s \in Seq(S) /\ t \in Seq(S) /\ u \in Seq(S)
      OBVIOUS
    <2>2. /\ Len(s) = 1 /\ Len(t) = 1 /\ Len(u) = 2
          /\ s[1] = a /\ t[1] = b
          /\ u[1] = a /\ u[2] = b
      OBVIOUS
    <2> HIDE DEF s, t, u, S
    <2>3. /\ Len(u) = Len(s) + Len(t)
          /\ \A j \in 1..Len(s) : u[j] = s[j]
          /\ \A j \in 1..Len(t) : u[Len(s) + j] = t[j]
      BY <2>2
    <2>4. s \o t = u
      BY <2>1, <2>2, <2>3, JoinedIs
    <2>5. QED
      BY <2>4 DEF s, t, u
  <1>2. <<a, b>> \o <<c, d>> = <<a, b, c, d>>
    <2> DEFINE s == <<a, b>>
               t == <<c, d>>
               u == <<a, b, c, d>>
    <2>1. s \in Seq(S) /\ t \in Seq(S) /\ u \in Seq(S)
      OBVIOUS
    <2>2. /\ Len(s) = 2 /\ Len(t) = 2 /\ Len(u) = 4
          /\ s[1] = a /\ s[2] = b /\ t[1] = c /\ t[2] = d
          /\ u[1] = a /\ u[2] = b /\ u[3] = c /\ u[4] = d
      OBVIOUS
    <2> HIDE DEF s, t, u, S
    <2>3. /\ Len(u) = Len(s) + Len(t)
          /\ \A j \in 1..Len(s) : u[j] = s[j]
          /\ \A j \in 1..Len(t) : u[Len(s) + j] = t[j]
      BY <2>2
    <2>4. s \o t = u
      BY <2>1, <2>2, <2>3, JoinedIs
    <2>5. QED
      BY <2>4 DEF s, t, u
  <1>3. QED
    BY <1>1, <1>2

LEMMA FiveCalls ==
  ASSUME NEW a, NEW b, NEW c, NEW d, NEW e
  PROVE  <<a>> \o <<b, c>> \o <<d, e>> = <<a, b, c, d, e>>
  <1> DEFINE S == {a, b, c, d, e}
  <1>1. <<a>> \o <<b, c>> = <<a, b, c>>
    <2> DEFINE s == <<a>>
               t == <<b, c>>
               u == <<a, b, c>>
    <2>1. s \in Seq(S) /\ t \in Seq(S) /\ u \in Seq(S)
      OBVIOUS
    <2>2. /\ Len(s) = 1 /\ Len(t) = 2 /\ Len(u) = 3
          /\ s[1] = a /\ t[1] = b /\ t[2] = c
          /\ u[1] = a /\ u[2] = b /\ u[3] = c
      OBVIOUS
    <2> HIDE DEF s, t, u, S
    <2>3. /\ Len(u) = Len(s) + Len(t)
          /\ \A j \in 1..Len(s) : u[j] = s[j]
          /\ \A j \in 1..Len(t) : u[Len(s) + j] = t[j]
      BY <2>2
    <2>4. s \o t = u
      BY <2>1, <2>2, <2>3, JoinedIs
    <2>5. QED
      BY <2>4 DEF s, t, u
  <1>2. <<a, b, c>> \o <<d, e>> = <<a, b, c, d, e>>
    <2> DEFINE s == <<a, b, c>>
               t == <<d, e>>
               u == <<a, b, c, d, e>>
    <2>1. s \in Seq(S) /\ t \in Seq(S) /\ u \in Seq(S)
      OBVIOUS
    <2>2. /\ Len(s) = 3 /\ Len(t) = 2 /\ Len(u) = 5
          /\ s[1] = a /\ s[2] = b /\ s[3] = c /\ t[1] = d /\ t[2] = e
          /\ u[1] = a /\ u[2] = b /\ u[3] = c /\ u[4] = d /\ u[5] = e
      OBVIOUS
    <2> HIDE DEF s, t, u, S
    <2>3. /\ Len(u) = Len(s) + Len(t)
          /\ \A j \in 1..Len(s) : u[j] = s[j]
          /\ \A j \in 1..Len(t) : u[Len(s) + j] = t[j]
      BY <2>2
    <2>4. s \o t = u
      BY <2>1, <2>2, <2>3, JoinedIs
    <2>5. QED
      BY <2>4 DEF s, t, u
  <1>3. QED
    BY <1>1, <1>2

\* The calls of each program
CodesAre(P, threads, parent, forked, child) ==
  /\ P.threads = threads /\ P.forked = forked /\ DOMAIN P.code = {0} \cup forked
  /\ P.code[0] = parent /\ \A c \in forked : P.code[c] = child

LEMMA ForkCodes ==
  /\ CodesAre(Forks!PrintOrder, FALSE,
       << <<"write", 0>>, <<"print", 0>>, <<"fork_or_exit", 1>>, <<"print", 0>>,
          <<"print_glob", 0>> >>,
       {1}, << <<"print", 0>>, <<"set", 0>>, <<"print_glob", 0>> >>)
  /\ CodesAre(Forks!ForkExample, FALSE,
       << <<"print", 0>>, <<"fork", 1>>, <<"print", 0>>, <<"print", 0>> >>,
       {1}, << <<"print", 0>>, <<"print", 0>>, <<"print", 0>> >>)
  /\ CodesAre(Forks!ZombieProcess, FALSE, << <<"fork_or_exit", 1>> >>, {1}, <<>>)
  /\ CodesAre(Forks!ForkAndExec, FALSE, << <<"fork", 1>>, <<"print", 0>> >>,
       {1}, << <<"exec", 0>>, <<"print", 0>> >>)
  /\ CodesAre(Forks!WaitExample, FALSE,
       << <<"print", 0>>, <<"fork", 1>>, <<"wait", 1>>, <<"print", 0>>, <<"print", 0>> >>,
       {1}, << <<"exec", 0>>, <<"print", 0>> >>)
  /\ CodesAre(Forks!PthreadHello, TRUE,
       << <<"create", 1>>, <<"print", 0>>, <<"wait", 1>> >>,
       {1}, << <<"print", 0>>, <<"print", 0>> >>)
  /\ CodesAre(Forks!PthreadReturnValues, TRUE,
       << <<"create", 1>>, <<"print", 0>>, <<"create", 2>>, <<"print", 0>>,
          <<"wait", 1>>, <<"print", 0>>, <<"wait", 2>>, <<"print", 0>> >>,
       {1, 2}, << <<"print", 0>>, <<"print", 0>> >>)
  /\ CodesAre(Forks!PthreadExitReturn, TRUE,
       << <<"created", 1>>, <<"print", 0>>, <<"created", 2>>, <<"print", 0>>, <<"print", 0>>,
          <<"wait", 1>>, <<"print", 0>>, <<"print", 0>>, <<"wait", 2>>, <<"print", 0>> >>,
       {1, 2}, << <<"print", 0>>, <<"print", 0>> >>)
  /\ CodesAre(Forks!NoFirstThread, TRUE,
       << <<"print", 0>>, <<"create", 1>>, <<"print", 0>>, <<"print", 0>> >>,
       {1}, << <<"print", 0>>, <<"print", 0>> >>)
  /\ CodesAre(Forks!NoSecondThread, TRUE,
       << <<"created", 1>>, <<"print", 0>>, <<"print", 0>>, <<"print", 0>>, <<"wait", 1>>,
          <<"print", 0>>, <<"print", 0>> >>,
       {1}, << <<"print", 0>>, <<"print", 0>> >>)
  <1>1. ASSUME NEW threads, NEW parent, NEW code
        PROVE  /\ CodesAre(Forks!Program(threads, parent, <<code>>), threads, parent, {1}, code)
               /\ CodesAre(Forks!Program(threads, parent, <<code, code>>), threads, parent,
                           {1, 2}, code)
    <2>1. /\ DOMAIN <<code>> = {1} /\ <<code>>[1] = code
          /\ DOMAIN <<code, code>> = {1, 2}
          /\ <<code, code>>[1] = code /\ <<code, code>>[2] = code
      OBVIOUS
    <2>2. CodesAre(Forks!Program(threads, parent, <<code>>), threads, parent, {1}, code)
      BY <2>1, ProgramParts DEF CodesAre
    <2>3. CodesAre(Forks!Program(threads, parent, <<code, code>>), threads, parent, {1, 2}, code)
      BY <2>1, ProgramParts DEF CodesAre
    <2>4. QED
      BY <2>2, <2>3
  <1>2. Forks!Lines(1) \o << <<"fork", 1>> >> \o Forks!Lines(2)
          = << <<"print", 0>>, <<"fork", 1>>, <<"print", 0>>, <<"print", 0>> >>
    <2> DEFINE pr == <<"print", 0>>
               fk == <<"fork", 1>>
    <2>1. Forks!Lines(1) = <<pr>> /\ Forks!Lines(2) = <<pr, pr>>
      BY LinesAre
    <2> HIDE DEF pr, fk
    <2>2. <<pr>> \o <<fk>> \o <<pr, pr>> = <<pr, fk, pr, pr>>
      BY FourCalls
    <2>3. Forks!Lines(1) \o <<fk>> \o Forks!Lines(2) = <<pr, fk, pr, pr>>
      BY <2>1, <2>2
    <2>4. QED
      BY <2>3 DEF pr, fk
  <1>3. Forks!WaitParent
          = << <<"print", 0>>, <<"fork", 1>>, <<"wait", 1>>, <<"print", 0>>, <<"print", 0>> >>
    <2> DEFINE pr == <<"print", 0>>
               fk == <<"fork", 1>>
               wt == <<"wait", 1>>
    <2>1. Forks!Lines(1) = <<pr>> /\ Forks!Lines(2) = <<pr, pr>>
      BY LinesAre
    <2> HIDE DEF pr, fk, wt
    <2>2. <<pr>> \o <<fk, wt>> \o <<pr, pr>> = <<pr, fk, wt, pr, pr>>
      BY FiveCalls
    <2>3. Forks!Lines(1) \o <<fk, wt>> \o Forks!Lines(2) = <<pr, fk, wt, pr, pr>>
      BY <2>1, <2>2
    <2>4. QED
      BY <2>3 DEF pr, fk, wt, Forks!WaitParent
  <1> HIDE DEF CodesAre
  <1>4. QED
    BY <1>1, <1>2, <1>3, LinesAre
    DEF Forks!PrintOrder, Forks!ForkExample, Forks!ZombieProcess, Forks!SpawnChild,
        Forks!ForkAndExec, Forks!WaitExample, Forks!PthreadHello, Forks!PthreadReturnValues,
        Forks!PthreadExitReturn, Forks!NoFirstThread, Forks!NoSecondThread

LEMMA PrintOrderMade ==
  ASSUME NEW P, P = Forks!PrintOrder
  PROVE  WellMade(P) /\ SetsFirst(P)
  <1>0. CodesAre(P, FALSE, << <<"write", 0>>, <<"print", 0>>, <<"fork_or_exit", 1>>,
                 <<"print", 0>>, <<"print_glob", 0>> >>, {1}, << <<"print", 0>>, <<"set", 0>>,
                 <<"print_glob", 0>> >>)
    BY ForkCodes
  <1>1. /\ P.threads = FALSE /\ P.forked = {1} /\ DOMAIN P.code = {0, 1}
        /\ DOMAIN P.code[0] = 1..5 /\ Len(P.code[0]) = 5
        /\ \A c \in {1} : DOMAIN P.code[c] = 1..3 /\ Len(P.code[c]) = 3
    BY <1>0 DEF CodesAre
  <1>2. /\ P.code[0][1] = <<"write", 0>>
        /\ P.code[0][2] = <<"print", 0>>
        /\ P.code[0][3] = <<"fork_or_exit", 1>>
        /\ P.code[0][4] = <<"print", 0>>
        /\ P.code[0][5] = <<"print_glob", 0>>
    BY <1>0 DEF CodesAre
  <1>3. ASSUME NEW c \in {1}
        PROVE  /\ P.code[c][1] = <<"print", 0>>
               /\ P.code[c][2] = <<"set", 0>>
               /\ P.code[c][3] = <<"print_glob", 0>>
    BY <1>0 DEF CodesAre
  <1>4. \A n \in Calls0(P), c \in P.forked :
          (Starts(P, n, c) => (n = 3 /\ c = 1)) /\ (Waits(P, n, c) => FALSE)
    BY <1>1, <1>2 DEF Calls0, Starts, Waits, StartCalls, ForkCalls, CreateCalls
  <1>5. \A n, m \in Calls0(P), c \in P.forked :
          Starts(P, n, c) => (Starts(P, m, c) => n = m) /\ (Waits(P, m, c) => n < m)
    BY <1>4
  <1>6. \A n \in Calls0(P) :
          /\ P.code[0][n][1] \in ParentCalls
          /\ P.code[0][n][1] \in StartCalls \cup {"wait"} => P.code[0][n][2] \in P.forked
          /\ P.threads => P.code[0][n][1] \notin ForkCalls \cup {"write"}
          /\ ~P.threads => P.code[0][n][1] \notin CreateCalls
    BY <1>1, <1>2 DEF Calls0, ParentCalls, StartCalls, ForkCalls, CreateCalls
  <1>7. \A c \in P.forked : \A n \in DOMAIN P.code[c] :
          P.code[c][n][1] \in ChildCalls /\ (P.code[c][n][1] = "exec" => n = 1 /\ ~P.threads)
    BY <1>1, <1>3 DEF ChildCalls
  <1>8. SetsFirst(P)
    BY <1>1, <1>3 DEF SetsFirst
  <1>9. \A p \in DOMAIN P.code : \E l \in Nat : DOMAIN P.code[p] = 1..l /\ Len(P.code[p]) = l
    BY <1>1
  <1>10. WellMade(P)
    <2>1. /\ P.threads \in BOOLEAN /\ P.forked \subseteq Nat \ {0}
          /\ DOMAIN P.code = {0} \cup P.forked
          /\ ~P.threads => P.forked = {1}
      <3>1. P.threads = FALSE /\ P.forked = {1} /\ DOMAIN P.code = {0, 1}
        BY <1>1
      <3>2. P.forked \subseteq Nat \ {0} /\ DOMAIN P.code = {0} \cup P.forked
        BY ONLY <3>1
      <3>3. P.threads \in BOOLEAN /\ (~P.threads => P.forked = {1})
        BY ONLY <3>1, Zenon
      <3>4. QED
        BY ONLY <3>2, <3>3
    <2>2. \A p \in DOMAIN P.code : \E l \in Nat : DOMAIN P.code[p] = 1..l /\ Len(P.code[p]) = l
      BY <1>9
    <2>3. /\ \A n \in Calls0(P) : P.code[0][n][1] \in ParentCalls
          /\ \A n \in Calls0(P) : P.code[0][n][1] \in StartCalls \cup {"wait"}
                                     => P.code[0][n][2] \in P.forked
          /\ \A n \in Calls0(P) :
               P.threads => P.code[0][n][1] \notin ForkCalls \cup {"write"}
          /\ \A n \in Calls0(P) : ~P.threads => P.code[0][n][1] \notin CreateCalls
      BY <1>6
    <2>4. \A n, m \in Calls0(P), c \in P.forked :
            Starts(P, n, c) => (Starts(P, m, c) => n = m) /\ (Waits(P, m, c) => n < m)
      BY <1>5
    <2> HIDE DEF Calls0, Starts, Waits, ParentCalls, StartCalls, ForkCalls, CreateCalls, ChildCalls
    <2>5. QED
      BY ONLY <2>1, <2>2, <2>3, <2>4, <1>7, Zenon DEF WellMade
  <1>11. QED
    BY <1>8, <1>10

LEMMA ForkExampleMade ==
  ASSUME NEW P, P = Forks!ForkExample
  PROVE  WellMade(P) /\ SetsFirst(P)
  <1>0. CodesAre(P, FALSE, << <<"print", 0>>, <<"fork", 1>>, <<"print", 0>>, <<"print", 0>> >>,
                 {1}, << <<"print", 0>>, <<"print", 0>>, <<"print", 0>> >>)
    BY ForkCodes
  <1>1. /\ P.threads = FALSE /\ P.forked = {1} /\ DOMAIN P.code = {0, 1}
        /\ DOMAIN P.code[0] = 1..4 /\ Len(P.code[0]) = 4
        /\ \A c \in {1} : DOMAIN P.code[c] = 1..3 /\ Len(P.code[c]) = 3
    BY <1>0 DEF CodesAre
  <1>2. /\ P.code[0][1] = <<"print", 0>>
        /\ P.code[0][2] = <<"fork", 1>>
        /\ P.code[0][3] = <<"print", 0>>
        /\ P.code[0][4] = <<"print", 0>>
    BY <1>0 DEF CodesAre
  <1>3. ASSUME NEW c \in {1}
        PROVE  /\ P.code[c][1] = <<"print", 0>>
               /\ P.code[c][2] = <<"print", 0>>
               /\ P.code[c][3] = <<"print", 0>>
    BY <1>0 DEF CodesAre
  <1>4. \A n \in Calls0(P), c \in P.forked :
          (Starts(P, n, c) => (n = 2 /\ c = 1)) /\ (Waits(P, n, c) => FALSE)
    BY <1>1, <1>2 DEF Calls0, Starts, Waits, StartCalls, ForkCalls, CreateCalls
  <1>5. \A n, m \in Calls0(P), c \in P.forked :
          Starts(P, n, c) => (Starts(P, m, c) => n = m) /\ (Waits(P, m, c) => n < m)
    BY <1>4
  <1>6. \A n \in Calls0(P) :
          /\ P.code[0][n][1] \in ParentCalls
          /\ P.code[0][n][1] \in StartCalls \cup {"wait"} => P.code[0][n][2] \in P.forked
          /\ P.threads => P.code[0][n][1] \notin ForkCalls \cup {"write"}
          /\ ~P.threads => P.code[0][n][1] \notin CreateCalls
    BY <1>1, <1>2 DEF Calls0, ParentCalls, StartCalls, ForkCalls, CreateCalls
  <1>7. \A c \in P.forked : \A n \in DOMAIN P.code[c] :
          P.code[c][n][1] \in ChildCalls /\ (P.code[c][n][1] = "exec" => n = 1 /\ ~P.threads)
    BY <1>1, <1>3 DEF ChildCalls
  <1>8. SetsFirst(P)
    BY <1>1, <1>3 DEF SetsFirst
  <1>9. \A p \in DOMAIN P.code : \E l \in Nat : DOMAIN P.code[p] = 1..l /\ Len(P.code[p]) = l
    BY <1>1
  <1>10. WellMade(P)
    <2>1. /\ P.threads \in BOOLEAN /\ P.forked \subseteq Nat \ {0}
          /\ DOMAIN P.code = {0} \cup P.forked
          /\ ~P.threads => P.forked = {1}
      <3>1. P.threads = FALSE /\ P.forked = {1} /\ DOMAIN P.code = {0, 1}
        BY <1>1
      <3>2. P.forked \subseteq Nat \ {0} /\ DOMAIN P.code = {0} \cup P.forked
        BY ONLY <3>1
      <3>3. P.threads \in BOOLEAN /\ (~P.threads => P.forked = {1})
        BY ONLY <3>1, Zenon
      <3>4. QED
        BY ONLY <3>2, <3>3
    <2>2. \A p \in DOMAIN P.code : \E l \in Nat : DOMAIN P.code[p] = 1..l /\ Len(P.code[p]) = l
      BY <1>9
    <2>3. /\ \A n \in Calls0(P) : P.code[0][n][1] \in ParentCalls
          /\ \A n \in Calls0(P) : P.code[0][n][1] \in StartCalls \cup {"wait"}
                                     => P.code[0][n][2] \in P.forked
          /\ \A n \in Calls0(P) :
               P.threads => P.code[0][n][1] \notin ForkCalls \cup {"write"}
          /\ \A n \in Calls0(P) : ~P.threads => P.code[0][n][1] \notin CreateCalls
      BY <1>6
    <2>4. \A n, m \in Calls0(P), c \in P.forked :
            Starts(P, n, c) => (Starts(P, m, c) => n = m) /\ (Waits(P, m, c) => n < m)
      BY <1>5
    <2> HIDE DEF Calls0, Starts, Waits, ParentCalls, StartCalls, ForkCalls, CreateCalls, ChildCalls
    <2>5. QED
      BY ONLY <2>1, <2>2, <2>3, <2>4, <1>7, Zenon DEF WellMade
  <1>11. QED
    BY <1>8, <1>10

LEMMA ZombieProcessMade ==
  ASSUME NEW P, P = Forks!ZombieProcess
  PROVE  WellMade(P) /\ SetsFirst(P)
  <1>0. CodesAre(P, FALSE, << <<"fork_or_exit", 1>> >>, {1}, <<>>)
    BY ForkCodes
  <1>1. /\ P.threads = FALSE /\ P.forked = {1} /\ DOMAIN P.code = {0, 1}
        /\ DOMAIN P.code[0] = 1..1 /\ Len(P.code[0]) = 1
        /\ \A c \in {1} : DOMAIN P.code[c] = 1..0 /\ Len(P.code[c]) = 0
    BY <1>0 DEF CodesAre
  <1>2. /\ P.code[0][1] = <<"fork_or_exit", 1>>
    BY <1>0 DEF CodesAre
  <1>4. \A n \in Calls0(P), c \in P.forked :
          (Starts(P, n, c) => (n = 1 /\ c = 1)) /\ (Waits(P, n, c) => FALSE)
    BY <1>1, <1>2 DEF Calls0, Starts, Waits, StartCalls, ForkCalls, CreateCalls
  <1>5. \A n, m \in Calls0(P), c \in P.forked :
          Starts(P, n, c) => (Starts(P, m, c) => n = m) /\ (Waits(P, m, c) => n < m)
    BY <1>4
  <1>6. \A n \in Calls0(P) :
          /\ P.code[0][n][1] \in ParentCalls
          /\ P.code[0][n][1] \in StartCalls \cup {"wait"} => P.code[0][n][2] \in P.forked
          /\ P.threads => P.code[0][n][1] \notin ForkCalls \cup {"write"}
          /\ ~P.threads => P.code[0][n][1] \notin CreateCalls
    BY <1>1, <1>2 DEF Calls0, ParentCalls, StartCalls, ForkCalls, CreateCalls
  <1>7. \A c \in P.forked : \A n \in DOMAIN P.code[c] :
          P.code[c][n][1] \in ChildCalls /\ (P.code[c][n][1] = "exec" => n = 1 /\ ~P.threads)
    BY <1>1 DEF ChildCalls
  <1>8. SetsFirst(P)
    BY <1>1 DEF SetsFirst
  <1>9. \A p \in DOMAIN P.code : \E l \in Nat : DOMAIN P.code[p] = 1..l /\ Len(P.code[p]) = l
    BY <1>1
  <1>10. WellMade(P)
    <2>1. /\ P.threads \in BOOLEAN /\ P.forked \subseteq Nat \ {0}
          /\ DOMAIN P.code = {0} \cup P.forked
          /\ ~P.threads => P.forked = {1}
      <3>1. P.threads = FALSE /\ P.forked = {1} /\ DOMAIN P.code = {0, 1}
        BY <1>1
      <3>2. P.forked \subseteq Nat \ {0} /\ DOMAIN P.code = {0} \cup P.forked
        BY ONLY <3>1
      <3>3. P.threads \in BOOLEAN /\ (~P.threads => P.forked = {1})
        BY ONLY <3>1, Zenon
      <3>4. QED
        BY ONLY <3>2, <3>3
    <2>2. \A p \in DOMAIN P.code : \E l \in Nat : DOMAIN P.code[p] = 1..l /\ Len(P.code[p]) = l
      BY <1>9
    <2>3. /\ \A n \in Calls0(P) : P.code[0][n][1] \in ParentCalls
          /\ \A n \in Calls0(P) : P.code[0][n][1] \in StartCalls \cup {"wait"}
                                     => P.code[0][n][2] \in P.forked
          /\ \A n \in Calls0(P) :
               P.threads => P.code[0][n][1] \notin ForkCalls \cup {"write"}
          /\ \A n \in Calls0(P) : ~P.threads => P.code[0][n][1] \notin CreateCalls
      BY <1>6
    <2>4. \A n, m \in Calls0(P), c \in P.forked :
            Starts(P, n, c) => (Starts(P, m, c) => n = m) /\ (Waits(P, m, c) => n < m)
      BY <1>5
    <2> HIDE DEF Calls0, Starts, Waits, ParentCalls, StartCalls, ForkCalls, CreateCalls, ChildCalls
    <2>5. QED
      BY ONLY <2>1, <2>2, <2>3, <2>4, <1>7, Zenon DEF WellMade
  <1>11. QED
    BY <1>8, <1>10

LEMMA ForkAndExecMade ==
  ASSUME NEW P, P = Forks!ForkAndExec
  PROVE  WellMade(P) /\ SetsFirst(P)
  <1>0. CodesAre(P, FALSE, << <<"fork", 1>>, <<"print", 0>> >>, {1}, << <<"exec", 0>>,
                 <<"print", 0>> >>)
    BY ForkCodes
  <1>1. /\ P.threads = FALSE /\ P.forked = {1} /\ DOMAIN P.code = {0, 1}
        /\ DOMAIN P.code[0] = 1..2 /\ Len(P.code[0]) = 2
        /\ \A c \in {1} : DOMAIN P.code[c] = 1..2 /\ Len(P.code[c]) = 2
    BY <1>0 DEF CodesAre
  <1>2. /\ P.code[0][1] = <<"fork", 1>>
        /\ P.code[0][2] = <<"print", 0>>
    BY <1>0 DEF CodesAre
  <1>3. ASSUME NEW c \in {1}
        PROVE  /\ P.code[c][1] = <<"exec", 0>>
               /\ P.code[c][2] = <<"print", 0>>
    BY <1>0 DEF CodesAre
  <1>4. \A n \in Calls0(P), c \in P.forked :
          (Starts(P, n, c) => (n = 1 /\ c = 1)) /\ (Waits(P, n, c) => FALSE)
    BY <1>1, <1>2 DEF Calls0, Starts, Waits, StartCalls, ForkCalls, CreateCalls
  <1>5. \A n, m \in Calls0(P), c \in P.forked :
          Starts(P, n, c) => (Starts(P, m, c) => n = m) /\ (Waits(P, m, c) => n < m)
    BY <1>4
  <1>6. \A n \in Calls0(P) :
          /\ P.code[0][n][1] \in ParentCalls
          /\ P.code[0][n][1] \in StartCalls \cup {"wait"} => P.code[0][n][2] \in P.forked
          /\ P.threads => P.code[0][n][1] \notin ForkCalls \cup {"write"}
          /\ ~P.threads => P.code[0][n][1] \notin CreateCalls
    BY <1>1, <1>2 DEF Calls0, ParentCalls, StartCalls, ForkCalls, CreateCalls
  <1>7. \A c \in P.forked : \A n \in DOMAIN P.code[c] :
          P.code[c][n][1] \in ChildCalls /\ (P.code[c][n][1] = "exec" => n = 1 /\ ~P.threads)
    BY <1>1, <1>3 DEF ChildCalls
  <1>8. SetsFirst(P)
    BY <1>1, <1>3 DEF SetsFirst
  <1>9. \A p \in DOMAIN P.code : \E l \in Nat : DOMAIN P.code[p] = 1..l /\ Len(P.code[p]) = l
    BY <1>1
  <1>10. WellMade(P)
    <2>1. /\ P.threads \in BOOLEAN /\ P.forked \subseteq Nat \ {0}
          /\ DOMAIN P.code = {0} \cup P.forked
          /\ ~P.threads => P.forked = {1}
      <3>1. P.threads = FALSE /\ P.forked = {1} /\ DOMAIN P.code = {0, 1}
        BY <1>1
      <3>2. P.forked \subseteq Nat \ {0} /\ DOMAIN P.code = {0} \cup P.forked
        BY ONLY <3>1
      <3>3. P.threads \in BOOLEAN /\ (~P.threads => P.forked = {1})
        BY ONLY <3>1, Zenon
      <3>4. QED
        BY ONLY <3>2, <3>3
    <2>2. \A p \in DOMAIN P.code : \E l \in Nat : DOMAIN P.code[p] = 1..l /\ Len(P.code[p]) = l
      BY <1>9
    <2>3. /\ \A n \in Calls0(P) : P.code[0][n][1] \in ParentCalls
          /\ \A n \in Calls0(P) : P.code[0][n][1] \in StartCalls \cup {"wait"}
                                     => P.code[0][n][2] \in P.forked
          /\ \A n \in Calls0(P) :
               P.threads => P.code[0][n][1] \notin ForkCalls \cup {"write"}
          /\ \A n \in Calls0(P) : ~P.threads => P.code[0][n][1] \notin CreateCalls
      BY <1>6
    <2>4. \A n, m \in Calls0(P), c \in P.forked :
            Starts(P, n, c) => (Starts(P, m, c) => n = m) /\ (Waits(P, m, c) => n < m)
      BY <1>5
    <2> HIDE DEF Calls0, Starts, Waits, ParentCalls, StartCalls, ForkCalls, CreateCalls, ChildCalls
    <2>5. QED
      BY ONLY <2>1, <2>2, <2>3, <2>4, <1>7, Zenon DEF WellMade
  <1>11. QED
    BY <1>8, <1>10

LEMMA WaitExampleMade ==
  ASSUME NEW P, P = Forks!WaitExample
  PROVE  WellMade(P) /\ SetsFirst(P) /\ PrintsLast(P)
  <1>0. CodesAre(P, FALSE, << <<"print", 0>>, <<"fork", 1>>, <<"wait", 1>>, <<"print", 0>>,
                 <<"print", 0>> >>, {1}, << <<"exec", 0>>, <<"print", 0>> >>)
    BY ForkCodes
  <1>1. /\ P.threads = FALSE /\ P.forked = {1} /\ DOMAIN P.code = {0, 1}
        /\ DOMAIN P.code[0] = 1..5 /\ Len(P.code[0]) = 5
        /\ \A c \in {1} : DOMAIN P.code[c] = 1..2 /\ Len(P.code[c]) = 2
    BY <1>0 DEF CodesAre
  <1>2. /\ P.code[0][1] = <<"print", 0>>
        /\ P.code[0][2] = <<"fork", 1>>
        /\ P.code[0][3] = <<"wait", 1>>
        /\ P.code[0][4] = <<"print", 0>>
        /\ P.code[0][5] = <<"print", 0>>
    BY <1>0 DEF CodesAre
  <1>3. ASSUME NEW c \in {1}
        PROVE  /\ P.code[c][1] = <<"exec", 0>>
               /\ P.code[c][2] = <<"print", 0>>
    BY <1>0 DEF CodesAre
  <1>4. \A n \in Calls0(P), c \in P.forked :
          (Starts(P, n, c) => (n = 2 /\ c = 1)) /\ (Waits(P, n, c) => (n = 3 /\ c = 1))
    BY <1>1, <1>2 DEF Calls0, Starts, Waits, StartCalls, ForkCalls, CreateCalls
  <1>5. \A n, m \in Calls0(P), c \in P.forked :
          Starts(P, n, c) => (Starts(P, m, c) => n = m) /\ (Waits(P, m, c) => n < m)
    BY <1>4
  <1>6. \A n \in Calls0(P) :
          /\ P.code[0][n][1] \in ParentCalls
          /\ P.code[0][n][1] \in StartCalls \cup {"wait"} => P.code[0][n][2] \in P.forked
          /\ P.threads => P.code[0][n][1] \notin ForkCalls \cup {"write"}
          /\ ~P.threads => P.code[0][n][1] \notin CreateCalls
    BY <1>1, <1>2 DEF Calls0, ParentCalls, StartCalls, ForkCalls, CreateCalls
  <1>7. \A c \in P.forked : \A n \in DOMAIN P.code[c] :
          P.code[c][n][1] \in ChildCalls /\ (P.code[c][n][1] = "exec" => n = 1 /\ ~P.threads)
    BY <1>1, <1>3 DEF ChildCalls
  <1>8. SetsFirst(P)
    BY <1>1, <1>3 DEF SetsFirst
  <1>9. \A p \in DOMAIN P.code : \E l \in Nat : DOMAIN P.code[p] = 1..l /\ Len(P.code[p]) = l
    BY <1>1
  <1>10. WellMade(P)
    <2>1. /\ P.threads \in BOOLEAN /\ P.forked \subseteq Nat \ {0}
          /\ DOMAIN P.code = {0} \cup P.forked
          /\ ~P.threads => P.forked = {1}
      <3>1. P.threads = FALSE /\ P.forked = {1} /\ DOMAIN P.code = {0, 1}
        BY <1>1
      <3>2. P.forked \subseteq Nat \ {0} /\ DOMAIN P.code = {0} \cup P.forked
        BY ONLY <3>1
      <3>3. P.threads \in BOOLEAN /\ (~P.threads => P.forked = {1})
        BY ONLY <3>1, Zenon
      <3>4. QED
        BY ONLY <3>2, <3>3
    <2>2. \A p \in DOMAIN P.code : \E l \in Nat : DOMAIN P.code[p] = 1..l /\ Len(P.code[p]) = l
      BY <1>9
    <2>3. /\ \A n \in Calls0(P) : P.code[0][n][1] \in ParentCalls
          /\ \A n \in Calls0(P) : P.code[0][n][1] \in StartCalls \cup {"wait"}
                                     => P.code[0][n][2] \in P.forked
          /\ \A n \in Calls0(P) :
               P.threads => P.code[0][n][1] \notin ForkCalls \cup {"write"}
          /\ \A n \in Calls0(P) : ~P.threads => P.code[0][n][1] \notin CreateCalls
      BY <1>6
    <2>4. \A n, m \in Calls0(P), c \in P.forked :
            Starts(P, n, c) => (Starts(P, m, c) => n = m) /\ (Waits(P, m, c) => n < m)
      BY <1>5
    <2> HIDE DEF Calls0, Starts, Waits, ParentCalls, StartCalls, ForkCalls, CreateCalls, ChildCalls
    <2>5. QED
      BY ONLY <2>1, <2>2, <2>3, <2>4, <1>7, Zenon DEF WellMade
  <1>11. PrintsLast(P)
    BY <1>1, <1>2 DEF PrintsLast, Calls0, Waits
  <1>12. QED
    BY <1>8, <1>10, <1>11

LEMMA PthreadHelloMade ==
  ASSUME NEW P, P = Forks!PthreadHello
  PROVE  WellMade(P) /\ SetsFirst(P)
  <1>0. CodesAre(P, TRUE, << <<"create", 1>>, <<"print", 0>>, <<"wait", 1>> >>, {1},
                 << <<"print", 0>>, <<"print", 0>> >>)
    BY ForkCodes
  <1>1. /\ P.threads = TRUE /\ P.forked = {1} /\ DOMAIN P.code = {0, 1}
        /\ DOMAIN P.code[0] = 1..3 /\ Len(P.code[0]) = 3
        /\ \A c \in {1} : DOMAIN P.code[c] = 1..2 /\ Len(P.code[c]) = 2
    BY <1>0 DEF CodesAre
  <1>2. /\ P.code[0][1] = <<"create", 1>>
        /\ P.code[0][2] = <<"print", 0>>
        /\ P.code[0][3] = <<"wait", 1>>
    BY <1>0 DEF CodesAre
  <1>3. ASSUME NEW c \in {1}
        PROVE  /\ P.code[c][1] = <<"print", 0>>
               /\ P.code[c][2] = <<"print", 0>>
    BY <1>0 DEF CodesAre
  <1>4. \A n \in Calls0(P), c \in P.forked :
          (Starts(P, n, c) => (n = 1 /\ c = 1)) /\ (Waits(P, n, c) => (n = 3 /\ c = 1))
    BY <1>1, <1>2 DEF Calls0, Starts, Waits, StartCalls, ForkCalls, CreateCalls
  <1>5. \A n, m \in Calls0(P), c \in P.forked :
          Starts(P, n, c) => (Starts(P, m, c) => n = m) /\ (Waits(P, m, c) => n < m)
    BY <1>4
  <1>6. \A n \in Calls0(P) :
          /\ P.code[0][n][1] \in ParentCalls
          /\ P.code[0][n][1] \in StartCalls \cup {"wait"} => P.code[0][n][2] \in P.forked
          /\ P.threads => P.code[0][n][1] \notin ForkCalls \cup {"write"}
          /\ ~P.threads => P.code[0][n][1] \notin CreateCalls
    BY <1>1, <1>2 DEF Calls0, ParentCalls, StartCalls, ForkCalls, CreateCalls
  <1>7. \A c \in P.forked : \A n \in DOMAIN P.code[c] :
          P.code[c][n][1] \in ChildCalls /\ (P.code[c][n][1] = "exec" => n = 1 /\ ~P.threads)
    BY <1>1, <1>3 DEF ChildCalls
  <1>8. SetsFirst(P)
    BY <1>1, <1>3 DEF SetsFirst
  <1>9. \A p \in DOMAIN P.code : \E l \in Nat : DOMAIN P.code[p] = 1..l /\ Len(P.code[p]) = l
    BY <1>1
  <1>10. WellMade(P)
    <2>1. /\ P.threads \in BOOLEAN /\ P.forked \subseteq Nat \ {0}
          /\ DOMAIN P.code = {0} \cup P.forked
          /\ ~P.threads => P.forked = {1}
      <3>1. P.threads = TRUE /\ P.forked = {1} /\ DOMAIN P.code = {0, 1}
        BY <1>1
      <3>2. P.forked \subseteq Nat \ {0} /\ DOMAIN P.code = {0} \cup P.forked
        BY ONLY <3>1
      <3>3. P.threads \in BOOLEAN /\ (~P.threads => P.forked = {1})
        BY ONLY <3>1, Zenon
      <3>4. QED
        BY ONLY <3>2, <3>3
    <2>2. \A p \in DOMAIN P.code : \E l \in Nat : DOMAIN P.code[p] = 1..l /\ Len(P.code[p]) = l
      BY <1>9
    <2>3. /\ \A n \in Calls0(P) : P.code[0][n][1] \in ParentCalls
          /\ \A n \in Calls0(P) : P.code[0][n][1] \in StartCalls \cup {"wait"}
                                     => P.code[0][n][2] \in P.forked
          /\ \A n \in Calls0(P) :
               P.threads => P.code[0][n][1] \notin ForkCalls \cup {"write"}
          /\ \A n \in Calls0(P) : ~P.threads => P.code[0][n][1] \notin CreateCalls
      BY <1>6
    <2>4. \A n, m \in Calls0(P), c \in P.forked :
            Starts(P, n, c) => (Starts(P, m, c) => n = m) /\ (Waits(P, m, c) => n < m)
      BY <1>5
    <2> HIDE DEF Calls0, Starts, Waits, ParentCalls, StartCalls, ForkCalls, CreateCalls, ChildCalls
    <2>5. QED
      BY ONLY <2>1, <2>2, <2>3, <2>4, <1>7, Zenon DEF WellMade
  <1>11. QED
    BY <1>8, <1>10

LEMMA PthreadReturnValuesMade ==
  ASSUME NEW P, P = Forks!PthreadReturnValues
  PROVE  WellMade(P) /\ SetsFirst(P) /\ PrintsLast(P)
  <1>0. CodesAre(P, TRUE, << <<"create", 1>>, <<"print", 0>>, <<"create", 2>>, <<"print", 0>>,
                 <<"wait", 1>>, <<"print", 0>>, <<"wait", 2>>, <<"print", 0>> >>, {1, 2},
                 << <<"print", 0>>, <<"print", 0>> >>)
    BY ForkCodes
  <1>1. /\ P.threads = TRUE /\ P.forked = {1, 2} /\ DOMAIN P.code = {0, 1, 2}
        /\ DOMAIN P.code[0] = 1..8 /\ Len(P.code[0]) = 8
        /\ \A c \in {1, 2} : DOMAIN P.code[c] = 1..2 /\ Len(P.code[c]) = 2
    BY <1>0 DEF CodesAre
  <1>2. /\ P.code[0][1] = <<"create", 1>>
        /\ P.code[0][2] = <<"print", 0>>
        /\ P.code[0][3] = <<"create", 2>>
        /\ P.code[0][4] = <<"print", 0>>
        /\ P.code[0][5] = <<"wait", 1>>
        /\ P.code[0][6] = <<"print", 0>>
        /\ P.code[0][7] = <<"wait", 2>>
        /\ P.code[0][8] = <<"print", 0>>
    BY <1>0 DEF CodesAre
  <1>3. ASSUME NEW c \in {1, 2}
        PROVE  /\ P.code[c][1] = <<"print", 0>>
               /\ P.code[c][2] = <<"print", 0>>
    BY <1>0 DEF CodesAre
  <1>4. \A n \in Calls0(P), c \in P.forked :
          /\ (Starts(P, n, c) => (n = 1 /\ c = 1) \/ (n = 3 /\ c = 2))
          /\ (Waits(P, n, c) => (n = 5 /\ c = 1) \/ (n = 7 /\ c = 2))
    BY <1>1, <1>2 DEF Calls0, Starts, Waits, StartCalls, ForkCalls, CreateCalls
  <1>5. \A n, m \in Calls0(P), c \in P.forked :
          Starts(P, n, c) => (Starts(P, m, c) => n = m) /\ (Waits(P, m, c) => n < m)
    BY <1>4
  <1>6. \A n \in Calls0(P) :
          /\ P.code[0][n][1] \in ParentCalls
          /\ P.code[0][n][1] \in StartCalls \cup {"wait"} => P.code[0][n][2] \in P.forked
          /\ P.threads => P.code[0][n][1] \notin ForkCalls \cup {"write"}
          /\ ~P.threads => P.code[0][n][1] \notin CreateCalls
    BY <1>1, <1>2 DEF Calls0, ParentCalls, StartCalls, ForkCalls, CreateCalls
  <1>7. \A c \in P.forked : \A n \in DOMAIN P.code[c] :
          P.code[c][n][1] \in ChildCalls /\ (P.code[c][n][1] = "exec" => n = 1 /\ ~P.threads)
    BY <1>1, <1>3 DEF ChildCalls
  <1>8. SetsFirst(P)
    BY <1>1, <1>3 DEF SetsFirst
  <1>9. \A p \in DOMAIN P.code : \E l \in Nat : DOMAIN P.code[p] = 1..l /\ Len(P.code[p]) = l
    BY <1>1
  <1>10. WellMade(P)
    <2>1. /\ P.threads \in BOOLEAN /\ P.forked \subseteq Nat \ {0}
          /\ DOMAIN P.code = {0} \cup P.forked
          /\ ~P.threads => P.forked = {1}
      <3>1. P.threads = TRUE /\ P.forked = {1, 2} /\ DOMAIN P.code = {0, 1, 2}
        BY <1>1
      <3>2. P.forked \subseteq Nat \ {0} /\ DOMAIN P.code = {0} \cup P.forked
        BY ONLY <3>1
      <3>3. P.threads \in BOOLEAN /\ (~P.threads => P.forked = {1})
        BY ONLY <3>1, Zenon
      <3>4. QED
        BY ONLY <3>2, <3>3
    <2>2. \A p \in DOMAIN P.code : \E l \in Nat : DOMAIN P.code[p] = 1..l /\ Len(P.code[p]) = l
      BY <1>9
    <2>3. /\ \A n \in Calls0(P) : P.code[0][n][1] \in ParentCalls
          /\ \A n \in Calls0(P) : P.code[0][n][1] \in StartCalls \cup {"wait"}
                                     => P.code[0][n][2] \in P.forked
          /\ \A n \in Calls0(P) :
               P.threads => P.code[0][n][1] \notin ForkCalls \cup {"write"}
          /\ \A n \in Calls0(P) : ~P.threads => P.code[0][n][1] \notin CreateCalls
      BY <1>6
    <2>4. \A n, m \in Calls0(P), c \in P.forked :
            Starts(P, n, c) => (Starts(P, m, c) => n = m) /\ (Waits(P, m, c) => n < m)
      BY <1>5
    <2> HIDE DEF Calls0, Starts, Waits, ParentCalls, StartCalls, ForkCalls, CreateCalls, ChildCalls
    <2>5. QED
      BY ONLY <2>1, <2>2, <2>3, <2>4, <1>7, Zenon DEF WellMade
  <1>11. PrintsLast(P)
    BY <1>1, <1>2 DEF PrintsLast, Calls0, Waits
  <1>12. QED
    BY <1>8, <1>10, <1>11

LEMMA PthreadExitReturnMade ==
  ASSUME NEW P, P = Forks!PthreadExitReturn
  PROVE  WellMade(P) /\ SetsFirst(P) /\ PrintsLast(P)
  <1>0. CodesAre(P, TRUE, << <<"created", 1>>, <<"print", 0>>, <<"created", 2>>, <<"print", 0>>,
                 <<"print", 0>>, <<"wait", 1>>, <<"print", 0>>, <<"print", 0>>, <<"wait", 2>>,
                 <<"print", 0>> >>, {1, 2}, << <<"print", 0>>, <<"print", 0>> >>)
    BY ForkCodes
  <1>1. /\ P.threads = TRUE /\ P.forked = {1, 2} /\ DOMAIN P.code = {0, 1, 2}
        /\ DOMAIN P.code[0] = 1..10 /\ Len(P.code[0]) = 10
        /\ \A c \in {1, 2} : DOMAIN P.code[c] = 1..2 /\ Len(P.code[c]) = 2
    BY <1>0 DEF CodesAre
  <1>2. /\ P.code[0][1] = <<"created", 1>>
        /\ P.code[0][2] = <<"print", 0>>
        /\ P.code[0][3] = <<"created", 2>>
        /\ P.code[0][4] = <<"print", 0>>
        /\ P.code[0][5] = <<"print", 0>>
        /\ P.code[0][6] = <<"wait", 1>>
        /\ P.code[0][7] = <<"print", 0>>
        /\ P.code[0][8] = <<"print", 0>>
        /\ P.code[0][9] = <<"wait", 2>>
        /\ P.code[0][10] = <<"print", 0>>
    BY <1>0 DEF CodesAre
  <1>3. ASSUME NEW c \in {1, 2}
        PROVE  /\ P.code[c][1] = <<"print", 0>>
               /\ P.code[c][2] = <<"print", 0>>
    BY <1>0 DEF CodesAre
  <1>4. \A n \in Calls0(P), c \in P.forked :
          /\ (Starts(P, n, c) => (n = 1 /\ c = 1) \/ (n = 3 /\ c = 2))
          /\ (Waits(P, n, c) => (n = 6 /\ c = 1) \/ (n = 9 /\ c = 2))
    BY <1>1, <1>2 DEF Calls0, Starts, Waits, StartCalls, ForkCalls, CreateCalls
  <1>5. \A n, m \in Calls0(P), c \in P.forked :
          Starts(P, n, c) => (Starts(P, m, c) => n = m) /\ (Waits(P, m, c) => n < m)
    BY <1>4
  <1>6. \A n \in Calls0(P) :
          /\ P.code[0][n][1] \in ParentCalls
          /\ P.code[0][n][1] \in StartCalls \cup {"wait"} => P.code[0][n][2] \in P.forked
          /\ P.threads => P.code[0][n][1] \notin ForkCalls \cup {"write"}
          /\ ~P.threads => P.code[0][n][1] \notin CreateCalls
    BY <1>1, <1>2 DEF Calls0, ParentCalls, StartCalls, ForkCalls, CreateCalls
  <1>7. \A c \in P.forked : \A n \in DOMAIN P.code[c] :
          P.code[c][n][1] \in ChildCalls /\ (P.code[c][n][1] = "exec" => n = 1 /\ ~P.threads)
    BY <1>1, <1>3 DEF ChildCalls
  <1>8. SetsFirst(P)
    BY <1>1, <1>3 DEF SetsFirst
  <1>9. \A p \in DOMAIN P.code : \E l \in Nat : DOMAIN P.code[p] = 1..l /\ Len(P.code[p]) = l
    BY <1>1
  <1>10. WellMade(P)
    <2>1. /\ P.threads \in BOOLEAN /\ P.forked \subseteq Nat \ {0}
          /\ DOMAIN P.code = {0} \cup P.forked
          /\ ~P.threads => P.forked = {1}
      <3>1. P.threads = TRUE /\ P.forked = {1, 2} /\ DOMAIN P.code = {0, 1, 2}
        BY <1>1
      <3>2. P.forked \subseteq Nat \ {0} /\ DOMAIN P.code = {0} \cup P.forked
        BY ONLY <3>1
      <3>3. P.threads \in BOOLEAN /\ (~P.threads => P.forked = {1})
        BY ONLY <3>1, Zenon
      <3>4. QED
        BY ONLY <3>2, <3>3
    <2>2. \A p \in DOMAIN P.code : \E l \in Nat : DOMAIN P.code[p] = 1..l /\ Len(P.code[p]) = l
      BY <1>9
    <2>3. /\ \A n \in Calls0(P) : P.code[0][n][1] \in ParentCalls
          /\ \A n \in Calls0(P) : P.code[0][n][1] \in StartCalls \cup {"wait"}
                                     => P.code[0][n][2] \in P.forked
          /\ \A n \in Calls0(P) :
               P.threads => P.code[0][n][1] \notin ForkCalls \cup {"write"}
          /\ \A n \in Calls0(P) : ~P.threads => P.code[0][n][1] \notin CreateCalls
      BY <1>6
    <2>4. \A n, m \in Calls0(P), c \in P.forked :
            Starts(P, n, c) => (Starts(P, m, c) => n = m) /\ (Waits(P, m, c) => n < m)
      BY <1>5
    <2> HIDE DEF Calls0, Starts, Waits, ParentCalls, StartCalls, ForkCalls, CreateCalls, ChildCalls
    <2>5. QED
      BY ONLY <2>1, <2>2, <2>3, <2>4, <1>7, Zenon DEF WellMade
  <1>11. PrintsLast(P)
    BY <1>1, <1>2 DEF PrintsLast, Calls0, Waits
  <1>12. QED
    BY <1>8, <1>10, <1>11

LEMMA NoFirstThreadMade ==
  ASSUME NEW P, P = Forks!NoFirstThread
  PROVE  WellMade(P) /\ SetsFirst(P)
  <1>0. CodesAre(P, TRUE, << <<"print", 0>>, <<"create", 1>>, <<"print", 0>>, <<"print", 0>> >>,
                 {1}, << <<"print", 0>>, <<"print", 0>> >>)
    BY ForkCodes
  <1>1. /\ P.threads = TRUE /\ P.forked = {1} /\ DOMAIN P.code = {0, 1}
        /\ DOMAIN P.code[0] = 1..4 /\ Len(P.code[0]) = 4
        /\ \A c \in {1} : DOMAIN P.code[c] = 1..2 /\ Len(P.code[c]) = 2
    BY <1>0 DEF CodesAre
  <1>2. /\ P.code[0][1] = <<"print", 0>>
        /\ P.code[0][2] = <<"create", 1>>
        /\ P.code[0][3] = <<"print", 0>>
        /\ P.code[0][4] = <<"print", 0>>
    BY <1>0 DEF CodesAre
  <1>3. ASSUME NEW c \in {1}
        PROVE  /\ P.code[c][1] = <<"print", 0>>
               /\ P.code[c][2] = <<"print", 0>>
    BY <1>0 DEF CodesAre
  <1>4. \A n \in Calls0(P), c \in P.forked :
          (Starts(P, n, c) => (n = 2 /\ c = 1)) /\ ~Waits(P, n, c)
    BY <1>1, <1>2 DEF Calls0, Starts, Waits, StartCalls, ForkCalls, CreateCalls
  <1>5. \A n, m \in Calls0(P), c \in P.forked :
          Starts(P, n, c) => (Starts(P, m, c) => n = m) /\ (Waits(P, m, c) => n < m)
    BY <1>4
  <1>6. \A n \in Calls0(P) :
          /\ P.code[0][n][1] \in ParentCalls
          /\ P.code[0][n][1] \in StartCalls \cup {"wait"} => P.code[0][n][2] \in P.forked
          /\ P.threads => P.code[0][n][1] \notin ForkCalls \cup {"write"}
          /\ ~P.threads => P.code[0][n][1] \notin CreateCalls
    BY <1>1, <1>2 DEF Calls0, ParentCalls, StartCalls, ForkCalls, CreateCalls
  <1>7. \A c \in P.forked : \A n \in DOMAIN P.code[c] :
          P.code[c][n][1] \in ChildCalls /\ (P.code[c][n][1] = "exec" => n = 1 /\ ~P.threads)
    BY <1>1, <1>3 DEF ChildCalls
  <1>8. SetsFirst(P)
    BY <1>1, <1>3 DEF SetsFirst
  <1>9. \A p \in DOMAIN P.code : \E l \in Nat : DOMAIN P.code[p] = 1..l /\ Len(P.code[p]) = l
    BY <1>1
  <1>10. WellMade(P)
    <2>1. /\ P.threads \in BOOLEAN /\ P.forked \subseteq Nat \ {0}
          /\ DOMAIN P.code = {0} \cup P.forked
          /\ ~P.threads => P.forked = {1}
      <3>1. P.threads = TRUE /\ P.forked = {1} /\ DOMAIN P.code = {0, 1}
        BY <1>1
      <3>2. P.forked \subseteq Nat \ {0} /\ DOMAIN P.code = {0} \cup P.forked
        BY ONLY <3>1
      <3>3. P.threads \in BOOLEAN /\ (~P.threads => P.forked = {1})
        BY ONLY <3>1, Zenon
      <3>4. QED
        BY ONLY <3>2, <3>3
    <2>2. \A p \in DOMAIN P.code : \E l \in Nat : DOMAIN P.code[p] = 1..l /\ Len(P.code[p]) = l
      BY <1>9
    <2>3. /\ \A n \in Calls0(P) : P.code[0][n][1] \in ParentCalls
          /\ \A n \in Calls0(P) : P.code[0][n][1] \in StartCalls \cup {"wait"}
                                     => P.code[0][n][2] \in P.forked
          /\ \A n \in Calls0(P) :
               P.threads => P.code[0][n][1] \notin ForkCalls \cup {"write"}
          /\ \A n \in Calls0(P) : ~P.threads => P.code[0][n][1] \notin CreateCalls
      BY <1>6
    <2>4. \A n, m \in Calls0(P), c \in P.forked :
            Starts(P, n, c) => (Starts(P, m, c) => n = m) /\ (Waits(P, m, c) => n < m)
      BY <1>5
    <2> HIDE DEF Calls0, Starts, Waits, ParentCalls, StartCalls, ForkCalls, CreateCalls, ChildCalls
    <2>5. QED
      BY ONLY <2>1, <2>2, <2>3, <2>4, <1>7, Zenon DEF WellMade
  <1>11. QED
    BY <1>8, <1>10

LEMMA NoSecondThreadMade ==
  ASSUME NEW P, P = Forks!NoSecondThread
  PROVE  WellMade(P) /\ SetsFirst(P) /\ PrintsLast(P)
  <1>0. CodesAre(P, TRUE, << <<"created", 1>>, <<"print", 0>>, <<"print", 0>>, <<"print", 0>>,
                 <<"wait", 1>>, <<"print", 0>>, <<"print", 0>> >>, {1},
                 << <<"print", 0>>, <<"print", 0>> >>)
    BY ForkCodes
  <1>1. /\ P.threads = TRUE /\ P.forked = {1} /\ DOMAIN P.code = {0, 1}
        /\ DOMAIN P.code[0] = 1..7 /\ Len(P.code[0]) = 7
        /\ \A c \in {1} : DOMAIN P.code[c] = 1..2 /\ Len(P.code[c]) = 2
    BY <1>0 DEF CodesAre
  <1>2. /\ P.code[0][1] = <<"created", 1>>
        /\ P.code[0][2] = <<"print", 0>>
        /\ P.code[0][3] = <<"print", 0>>
        /\ P.code[0][4] = <<"print", 0>>
        /\ P.code[0][5] = <<"wait", 1>>
        /\ P.code[0][6] = <<"print", 0>>
        /\ P.code[0][7] = <<"print", 0>>
    BY <1>0 DEF CodesAre
  <1>3. ASSUME NEW c \in {1}
        PROVE  /\ P.code[c][1] = <<"print", 0>>
               /\ P.code[c][2] = <<"print", 0>>
    BY <1>0 DEF CodesAre
  <1>4. \A n \in Calls0(P), c \in P.forked :
          (Starts(P, n, c) => (n = 1 /\ c = 1)) /\ (Waits(P, n, c) => (n = 5 /\ c = 1))
    BY <1>1, <1>2 DEF Calls0, Starts, Waits, StartCalls, ForkCalls, CreateCalls
  <1>5. \A n, m \in Calls0(P), c \in P.forked :
          Starts(P, n, c) => (Starts(P, m, c) => n = m) /\ (Waits(P, m, c) => n < m)
    BY <1>4
  <1>6. \A n \in Calls0(P) :
          /\ P.code[0][n][1] \in ParentCalls
          /\ P.code[0][n][1] \in StartCalls \cup {"wait"} => P.code[0][n][2] \in P.forked
          /\ P.threads => P.code[0][n][1] \notin ForkCalls \cup {"write"}
          /\ ~P.threads => P.code[0][n][1] \notin CreateCalls
    BY <1>1, <1>2 DEF Calls0, ParentCalls, StartCalls, ForkCalls, CreateCalls
  <1>7. \A c \in P.forked : \A n \in DOMAIN P.code[c] :
          P.code[c][n][1] \in ChildCalls /\ (P.code[c][n][1] = "exec" => n = 1 /\ ~P.threads)
    BY <1>1, <1>3 DEF ChildCalls
  <1>8. SetsFirst(P)
    BY <1>1, <1>3 DEF SetsFirst
  <1>9. \A p \in DOMAIN P.code : \E l \in Nat : DOMAIN P.code[p] = 1..l /\ Len(P.code[p]) = l
    BY <1>1
  <1>10. WellMade(P)
    <2>1. /\ P.threads \in BOOLEAN /\ P.forked \subseteq Nat \ {0}
          /\ DOMAIN P.code = {0} \cup P.forked
          /\ ~P.threads => P.forked = {1}
      <3>1. P.threads = TRUE /\ P.forked = {1} /\ DOMAIN P.code = {0, 1}
        BY <1>1
      <3>2. P.forked \subseteq Nat \ {0} /\ DOMAIN P.code = {0} \cup P.forked
        BY ONLY <3>1
      <3>3. P.threads \in BOOLEAN /\ (~P.threads => P.forked = {1})
        BY ONLY <3>1, Zenon
      <3>4. QED
        BY ONLY <3>2, <3>3
    <2>2. \A p \in DOMAIN P.code : \E l \in Nat : DOMAIN P.code[p] = 1..l /\ Len(P.code[p]) = l
      BY <1>9
    <2>3. /\ \A n \in Calls0(P) : P.code[0][n][1] \in ParentCalls
          /\ \A n \in Calls0(P) : P.code[0][n][1] \in StartCalls \cup {"wait"}
                                     => P.code[0][n][2] \in P.forked
          /\ \A n \in Calls0(P) :
               P.threads => P.code[0][n][1] \notin ForkCalls \cup {"write"}
          /\ \A n \in Calls0(P) : ~P.threads => P.code[0][n][1] \notin CreateCalls
      BY <1>6
    <2>4. \A n, m \in Calls0(P), c \in P.forked :
            Starts(P, n, c) => (Starts(P, m, c) => n = m) /\ (Waits(P, m, c) => n < m)
      BY <1>5
    <2> HIDE DEF Calls0, Starts, Waits, ParentCalls, StartCalls, ForkCalls, CreateCalls, ChildCalls
    <2>5. QED
      BY ONLY <2>1, <2>2, <2>3, <2>4, <1>7, Zenon DEF WellMade
  <1>11. PrintsLast(P)
    BY <1>1, <1>2 DEF PrintsLast, Calls0, Waits
  <1>12. QED
    BY <1>8, <1>10, <1>11

LEMMA ProgramsMade ==
  ASSUME NEW P \in Forks!Programs
  PROVE  /\ WellMade(P) /\ SetsFirst(P)
         /\ P \in Forks!PrintAfterWaiting => PrintsLast(P)
  <1>1. WellMade(P) /\ SetsFirst(P)
    BY PrintOrderMade, ForkExampleMade, ZombieProcessMade, ForkAndExecMade,
       WaitExampleMade, PthreadHelloMade, PthreadReturnValuesMade,
       PthreadExitReturnMade, NoFirstThreadMade, NoSecondThreadMade
    DEF Forks!Programs
  <1>2. P \in Forks!PrintAfterWaiting => PrintsLast(P)
    BY WaitExampleMade, PthreadReturnValuesMade, PthreadExitReturnMade, NoSecondThreadMade
    DEF Forks!PrintAfterWaiting
  <1>3. QED
    BY <1>1, <1>2

-----------------------------------------------------------------------------
(* Lines in a sequence.  A value of glob that is printed is main's, or the *)
(* one that a child has set (printorder.c 31-38).                          *)
Line == {l \in Nat \X Nat \X {0, 6, 7} : l[3] \in {0, IF l[1] = 0 THEN 6 ELSE 7}}

\* How many lines of s are those of p's k-th call
PlacesOf(s, p, k) == {j \in DOMAIN s : s[j][1] = p /\ s[j][2] = k}
LinesOf(s, p, k) == Cardinality(PlacesOf(s, p, k))

LastByMain(s) == s # <<>> /\ s[Len(s)][1] = 0

LEMMA CountNone == \A p, k : LinesOf(<<>>, p, k) = 0
  <1>1. ASSUME NEW p, NEW k PROVE PlacesOf(<<>>, p, k) = {}
    BY DEF PlacesOf
  <1>2. QED
    BY <1>1, FS_EmptySet DEF LinesOf

LEMMA CountFinite ==
  ASSUME NEW s \in Seq(Line), NEW p, NEW k
  PROVE  IsFiniteSet(PlacesOf(s, p, k)) /\ LinesOf(s, p, k) \in Nat
  <1>1. DOMAIN s = 1..Len(s) /\ Len(s) \in Nat
    OBVIOUS
  <1>2. IsFiniteSet(DOMAIN s)
    BY <1>1, FS_Interval
  <1>3. PlacesOf(s, p, k) \in SUBSET DOMAIN s
    BY DEF PlacesOf
  <1>4. QED
    BY <1>2, <1>3, FS_Subset, FS_CardinalityType DEF LinesOf

LEMMA CountAppend ==
  ASSUME NEW s \in Seq(Line), NEW l \in Line
  PROVE  /\ Append(s, l) \in Seq(Line)
         /\ \A p, k : LinesOf(Append(s, l), p, k)
                        = LinesOf(s, p, k) + (IF l[1] = p /\ l[2] = k THEN 1 ELSE 0)
         /\ LastByMain(Append(s, l)) <=> l[1] = 0
  <1> DEFINE t == Append(s, l)
             n == Len(s)
  <1>1. /\ t \in Seq(Line) /\ Len(t) = n + 1 /\ t # <<>> /\ n \in Nat
        /\ DOMAIN s = 1..n /\ DOMAIN t = 1..(n + 1)
        /\ \A j \in 1..n : t[j] = s[j]
        /\ t[n + 1] = l
    BY AppendProperties
  <1> HIDE DEF t, n
  <1>2. ASSUME NEW p, NEW k
        PROVE  LinesOf(t, p, k) = LinesOf(s, p, k) + (IF l[1] = p /\ l[2] = k THEN 1 ELSE 0)
    <2>1. n + 1 \notin PlacesOf(s, p, k)
      BY <1>1 DEF PlacesOf
    <2>2. CASE l[1] = p /\ l[2] = k
      <3>1. PlacesOf(t, p, k) = PlacesOf(s, p, k) \cup {n + 1}
        BY <1>1, <2>2 DEF PlacesOf
      <3>2. LinesOf(t, p, k) = LinesOf(s, p, k) + 1
        BY <2>1, <3>1, CountFinite, FS_AddElement DEF LinesOf
      <3>3. QED
        BY <2>2, <3>2
    <2>3. CASE ~(l[1] = p /\ l[2] = k)
      <3>1. PlacesOf(t, p, k) = PlacesOf(s, p, k)
        BY <1>1, <2>3 DEF PlacesOf
      <3>2. QED
        BY <2>3, <3>1, CountFinite DEF LinesOf
    <2>4. QED
      BY <2>2, <2>3
  <1>3. LastByMain(t) <=> l[1] = 0
    BY <1>1 DEF LastByMain
  <1>4. QED
    BY <1>1, <1>2, <1>3 DEF t

LEMMA CountJoin ==
  ASSUME NEW s \in Seq(Line), NEW t \in Seq(Line)
  PROVE  /\ s \o t \in Seq(Line)
         /\ \A p, k : LinesOf(s \o t, p, k) = LinesOf(s, p, k) + LinesOf(t, p, k)
         /\ LastByMain(t) => LastByMain(s \o t)
         /\ LastByMain(s) /\ t = <<>> => LastByMain(s \o t)
  <1> DEFINE u == s \o t
             n == Len(s)
             m == Len(t)
  <1>1. /\ u \in Seq(Line) /\ Len(u) = n + m /\ n \in Nat /\ m \in Nat
        /\ DOMAIN s = 1..n /\ DOMAIN t = 1..m /\ DOMAIN u = 1..(n + m)
        /\ \A j \in 1..(n + m) : u[j] = IF j <= n THEN s[j] ELSE t[j - n]
        /\ m = 0 <=> t = <<>>
    BY ConcatProperties
  <1> HIDE DEF u, n, m
  <1>2. /\ \A j \in 1..n : u[j] = s[j]
        /\ \A j \in 1..m : u[n + j] = t[j]
        /\ \A j \in 1..(n + m) : j \in 1..n \/ j - n \in 1..m
    BY <1>1
  <1>3. ASSUME NEW p, NEW k
        PROVE  LinesOf(u, p, k) = LinesOf(s, p, k) + LinesOf(t, p, k)
    <2> DEFINE A == PlacesOf(s, p, k)
               B == PlacesOf(t, p, k)
               C == {n + j : j \in B}
               f == [j \in B |-> n + j]
    <2>1. A \subseteq 1..n /\ B \subseteq 1..m
      BY <1>1 DEF PlacesOf
    <2>2. PlacesOf(u, p, k) = A \cup C
      <3>1. ASSUME NEW j \in PlacesOf(u, p, k) PROVE j \in A \cup C
        <4>1. j \in 1..(n + m) /\ u[j][1] = p /\ u[j][2] = k
          BY <1>1 DEF PlacesOf
        <4>2. CASE j \in 1..n
          BY <1>1, <1>2, <4>1, <4>2 DEF PlacesOf
        <4>3. CASE j - n \in 1..m
          <5>1. u[j] = t[j - n] /\ j = n + (j - n)
            BY <1>1, <1>2, <4>1, <4>3
          <5>2. j - n \in B
            BY <1>1, <4>1, <4>3, <5>1 DEF PlacesOf
          <5>3. QED
            BY <5>1, <5>2
        <4>4. QED
          BY <1>2, <4>1, <4>2, <4>3
      <3>2. ASSUME NEW j \in A PROVE j \in PlacesOf(u, p, k)
        BY <1>1, <1>2 DEF PlacesOf
      <3>3. ASSUME NEW j \in B PROVE n + j \in PlacesOf(u, p, k)
        BY <1>1, <1>2 DEF PlacesOf
      <3>4. QED
        BY <3>1, <3>2, <3>3
    <2>3. A \cap C = {}
      BY <1>1, <2>1
    <2> HIDE DEF A, B
    <2>4. f \in Bijection(B, C)
      <3>1. \A j \in B : j \in Int /\ n + j \in C
        BY <1>1, <2>1
      <3>2. f \in [B -> C] /\ \A c \in C : \E j \in B : f[j] = c
        BY <3>1
      <3>3. \A i1, i2 \in B : f[i1] = f[i2] => i1 = i2
        BY <1>1, <3>1
      <3>4. QED
        BY <3>2, <3>3 DEF Bijection, Injection, Surjection, IsInjective
    <2>5. IsFiniteSet(A) /\ IsFiniteSet(B) /\ Cardinality(A) \in Nat /\ Cardinality(B) \in Nat
      BY CountFinite DEF LinesOf, A, B
    <2>6. IsFiniteSet(C) /\ Cardinality(C) = Cardinality(B)
      BY <2>4, <2>5, FS_Bijection DEF ExistsBijection
    <2> HIDE DEF C, f
    <2>7. Cardinality(A \cup C) = Cardinality(A) + Cardinality(C)
      <3>1. Cardinality(A \cap C) = 0
        BY <2>3, FS_EmptySet
      <3>2. Cardinality(A \cup C) = Cardinality(A) + Cardinality(C) - Cardinality(A \cap C)
        BY <2>5, <2>6, FS_Union
      <3>3. QED
        BY <2>5, <2>6, <3>1, <3>2
    <2>8. QED
      BY <2>2, <2>6, <2>7 DEF LinesOf, A, B
  <1>4. LastByMain(t) => LastByMain(u)
    <2> SUFFICES ASSUME LastByMain(t) PROVE LastByMain(u)
      OBVIOUS
    <2>1. m \in 1..m /\ t[m][1] = 0
      BY <1>1 DEF LastByMain, m
    <2>2. u[n + m] = t[m] /\ n + m # 0 /\ u # <<>>
      BY <1>1, <1>2, <2>1
    <2>3. QED
      BY <1>1, <2>1, <2>2 DEF LastByMain
  <1>5. LastByMain(s) /\ t = <<>> => LastByMain(u)
    BY ConcatEmptySeq DEF u
  <1>6. QED
    BY <1>1, <1>3, <1>4, <1>5 DEF u

-----------------------------------------------------------------------------
(* Their invariant.                                                        *)
Code(p) == forkprogram.code[p]
Forked == forkprogram.forked
Threaded == forkprogram.threads
ToTerminal == terminal

ForkTypes ==
  /\ forkpc \in [Forks!Processes -> Nat \ {0}]
  /\ \A p \in Forks!Processes : forkpc[p] <= Len(Code(p)) + 1
  /\ forkstate \in [Forks!Processes -> {"absent", "running", "exited", "killed"}]
  /\ glob \in [Forks!Processes -> Int]
  /\ buffer \in [Forks!Processes -> Seq(Line)]
  /\ stdout \in Seq(Line)

HasSet(c) == \E n \in 1..(forkpc[c] - 1) : Code(c)[n][1] = "set"

(* Who is created later is absent, and who was waited for does not run;    *)
(* threads end with main.  glob is 7 for a child that has set it.          *)
ForkControl ==
  /\ forkstate[0] # "absent"
  /\ \A c \in Forked : forkstate[c] = "absent" => forkpc[c] = 1
  /\ \A c \in Forked : \A n \in DOMAIN Code(0) :
       Starts(forkprogram, n, c) /\ n >= forkpc[0] /\ forkstate[0] = "running"
         => forkstate[c] = "absent"
  /\ \A c \in Forked : \A n \in 1..(forkpc[0] - 1) :
       Waits(forkprogram, n, c) => forkstate[c] # "running"
  /\ \A c \in Forked : Threaded /\ forkstate[c] = "running" => forkstate[0] = "running"
  /\ glob[0] = 6
  /\ \A c \in Forked : glob[c] = IF HasSet(c) THEN 7 ELSE 6

(* A child that has exited has made all its calls.                         *)
ChildRunsOut ==
  ~Threaded /\ forkstate[1] = "exited" => forkpc[1] > Len(Code(1))

SomebodyKilled == \E p \in Forks!Processes : forkstate[p] = "killed"

(* Threads print into the one buffer of their process, which main writes   *)
(* out when it ends them.                                                  *)
SharedLines(p, k) == LinesOf(stdout, p, k) + LinesOf(buffer[0], p, k)

ThreadLines ==
  /\ ToTerminal \/ forkstate[0] # "running" => buffer[0] = <<>>
  /\ \A p \in Forks!Processes :
       /\ \A k \in Forks!Printed(p) : SharedLines(p, k) = 1
       /\ \A k \in Nat : k >= forkpc[p] => SharedLines(p, k) = 0

(* What was in main's buffer at the fork is in the child's as well, and    *)
(* stays there until the child writes it out, or loses it by an exec.      *)
Twice(k) ==
  /\ ~ToTerminal
  /\ forkstate[1] \in {"running", "exited"}
  /\ \E n \in 1..(forkpc[0] - 1) : n > k /\ Code(0)[n][1] \in ForkCalls
  /\ \A n \in 1..(forkpc[1] - 1) : Code(1)[n][1] # "exec"

MainsLines(k) == LinesOf(stdout, 0, k) + LinesOf(buffer[0], 0, k) + LinesOf(buffer[1], 0, k)
ChildsLines(k) == LinesOf(stdout, 1, k) + LinesOf(buffer[1], 1, k)

BuffersEmpty ==
  \A p \in {0, 1} : ToTerminal \/ forkstate[p] # "running" => buffer[p] = <<>>

ChildsOnce ==
  /\ \A k \in Nat : LinesOf(buffer[0], 1, k) = 0
  /\ \A k \in Forks!Printed(1) : ChildsLines(k) = 1
  /\ \A k \in Nat : k >= forkpc[1] => ChildsLines(k) = 0

MainsCopied ==
  /\ \A k \in Forks!Printed(0) :
       /\ MainsLines(k) = IF Twice(k) THEN 2 ELSE 1
       /\ ~ToTerminal /\ forkstate[0] = "running" => LinesOf(buffer[0], 0, k) = 1
       /\ ~ToTerminal /\ forkstate[1] = "running"
            => LinesOf(buffer[1], 0, k) = IF Twice(k) THEN 1 ELSE 0
  /\ \A k \in Nat : k >= forkpc[0] => MainsLines(k) = 0

ForkLines == BuffersEmpty /\ ChildsOnce /\ MainsCopied

(* Main prints when it has waited for all others.                          *)
MainLast ==
  forkprogram \in Forks!PrintAfterWaiting =>
    /\ forkstate[0] = "exited" => forkpc[0] = Len(Code(0)) + 1
    /\ forkpc[0] = Len(Code(0)) + 1 =>
         IF ~ToTerminal /\ forkstate[0] = "running"
         THEN LastByMain(buffer[0]) ELSE LastByMain(stdout)

LinesKept == (Threaded => ThreadLines) /\ (~Threaded => ForkLines) /\ MainLast

ForkInv ==
  /\ forkprogram \in Forks!Programs
  /\ ForkTypes /\ ForkControl /\ ChildRunsOut
  /\ SomebodyKilled \/ LinesKept

-----------------------------------------------------------------------------
(* What the proof uses of a program.                                       *)
LEMMA ForkShape ==
  ASSUME forkprogram \in Forks!Programs
  PROVE  /\ Forks!Processes = {0} \cup Forked /\ Forked \subseteq Nat \ {0}
         /\ ~Threaded => Forked = {1}
         /\ \A p \in Forks!Processes :
              Len(Code(p)) \in Nat /\ DOMAIN Code(p) = 1..Len(Code(p))
         /\ \A n \in DOMAIN Code(0) :
              /\ Code(0)[n][1] \in {"fork", "fork_or_exit", "create", "created", "wait", "write",
                                    "print", "print_glob"}
              /\ Code(0)[n][1] \in {"fork", "fork_or_exit", "create", "created", "wait"}
                   => Code(0)[n][2] \in Forked
              /\ Threaded => Code(0)[n][1] \notin {"fork", "fork_or_exit", "write"}
              /\ ~Threaded => Code(0)[n][1] \notin {"create", "created"}
         /\ \A n, m \in DOMAIN Code(0), c \in Forked :
              Starts(forkprogram, n, c) =>
                /\ Starts(forkprogram, m, c) => n = m
                /\ Waits(forkprogram, m, c) => n < m
         /\ \A c \in Forked : \A n \in DOMAIN Code(c) :
              /\ Code(c)[n][1] \in {"print", "print_glob", "set", "exec"}
              /\ Code(c)[n][1] = "exec" => n = 1 /\ ~Threaded
  <1> DEFINE P == forkprogram
  <1>1. WellMade(P)
    BY ProgramsMade
  <1>2. /\ P.forked \subseteq Nat \ {0} /\ DOMAIN P.code = {0} \cup P.forked
        /\ \A p \in DOMAIN P.code :
             \E l \in Nat : DOMAIN P.code[p] = 1..l /\ Len(P.code[p]) = l
        /\ \A n \in DOMAIN P.code[0] : P.code[0][n][1] \in ParentCalls
        /\ \A n \in DOMAIN P.code[0] : P.code[0][n][1] \in StartCalls \cup {"wait"}
                                          => P.code[0][n][2] \in P.forked
        /\ \A n, m \in DOMAIN P.code[0], c \in P.forked :
             Starts(P, n, c) => (Starts(P, m, c) => n = m) /\ (Waits(P, m, c) => n < m)
    BY <1>1 DEF WellMade, Calls0
  <1>3. /\ \A n \in DOMAIN P.code[0] : Threaded => P.code[0][n][1] \notin ForkCalls \cup {"write"}
        /\ \A n \in DOMAIN P.code[0] : ~Threaded => P.code[0][n][1] \notin CreateCalls
        /\ ~Threaded => P.forked = {1}
        /\ \A c \in P.forked : \A n \in DOMAIN P.code[c] :
             /\ P.code[c][n][1] \in ChildCalls
             /\ P.code[c][n][1] = "exec" => n = 1 /\ ~Threaded
    BY <1>1, Zenon DEF WellMade, Calls0, Threaded
  <1>4. \A p \in DOMAIN P.code : Len(P.code[p]) \in Nat /\ DOMAIN P.code[p] = 1..Len(P.code[p])
    BY <1>2
  <1>5. QED
    BY <1>2, <1>3, <1>4
    DEF Forks!Processes, Code, Forked, ParentCalls, StartCalls, ForkCalls, CreateCalls, ChildCalls

LEMMA StaysProgram ==
  ASSUME Forks!Next
  PROVE  /\ forkprogram' = forkprogram
         /\ ToTerminal' <=> ToTerminal
         /\ Threaded' <=> Threaded
  BY DEF Forks!Next, Forks!Step, Forks!StartFails, Forks!WriteFails, Forks!ExecFails, Forks!Kill,
         Forks!Printf, Forks!Write, Forks!Set, Forks!Fork, Forks!Create, Forks!Wait, Forks!Exec,
         Forks!Exit, ToTerminal, Threaded

LEMMA ForkCall ==
  ASSUME forkprogram \in Forks!Programs, ForkTypes, NEW p \in Forks!Processes, NEW call,
         Forks!Calls(p, call)
  PROVE  /\ forkstate[p] = "running" /\ Code(p)[forkpc[p]][1] = call
         /\ forkpc[p] \in DOMAIN Code(p) /\ forkpc[p] \in 1..Len(Code(p))
         /\ p = 0 => call \in {"fork", "fork_or_exit", "create", "created", "wait", "write",
                               "print", "print_glob"}
         /\ p # 0 => p \in Forked /\ call \in {"print", "print_glob", "set", "exec"}
         /\ call \in {"fork", "fork_or_exit", "create", "created", "wait"} =>
              p = 0 /\ Forks!Argument(p) = Code(0)[forkpc[0]][2] /\ Forks!Argument(p) \in Forked
  BY ForkShape DEF Forks!Calls, Forks!Argument, Code

LEMMA OwnerIs ==
  ASSUME NEW p
  PROVE  (Threaded => Forks!Owner(p) = 0) /\ (~Threaded => Forks!Owner(p) = p)
  BY DEF Threaded, Forks!Owner

LEMMA PrintfEffect ==
  ASSUME NEW p, Forks!Printf(p)
  PROVE  \E l \in {<<p, forkpc[p], 0>>, <<p, forkpc[p], glob[p]>>} :
           /\ \/ l = <<p, forkpc[p], 0>> /\ Forks!Calls(p, "print")
              \/ l = <<p, forkpc[p], glob[p]>> /\ Forks!Calls(p, "print_glob")
           /\ ToTerminal => stdout' = Append(stdout, l) /\ buffer' = buffer
           /\ ~ToTerminal =>
                /\ stdout' = stdout
                /\ buffer' = [buffer EXCEPT ![Forks!Owner(p)] = Append(@, l)]
           /\ forkpc' = [forkpc EXCEPT ![p] = @ + 1]
           /\ forkstate' = forkstate /\ glob' = glob
  <1>1. ASSUME NEW l, Forks!Prints(p, l)
        PROVE  /\ ToTerminal => stdout' = Append(stdout, l) /\ buffer' = buffer
               /\ ~ToTerminal =>
                    /\ stdout' = stdout
                    /\ buffer' = [buffer EXCEPT ![Forks!Owner(p)] = Append(@, l)]
    BY <1>1, Zenon DEF Forks!Prints, ToTerminal
  <1>2. QED
    BY <1>1, Zenon DEF Forks!Printf, Forks!Advance

LEMMA LeavesEffect ==
  ASSUME NEW p \in Forks!Processes, NEW how \in {"exited", "killed"}, Forks!Leaves(p, how),
         ForkTypes, forkstate[p] = "running"
  PROVE  /\ forkstate' \in [Forks!Processes -> {"absent", "running", "exited", "killed"}]
         /\ forkstate'[p] = how
         /\ \A q \in Forks!Processes :
              /\ forkstate[q] \in {"exited", "killed"} => forkstate'[q] = forkstate[q]
              /\ forkstate'[q] \in {how, forkstate[q]}
              /\ q # p /\ (~Threaded \/ p # 0) => forkstate'[q] = forkstate[q]
              /\ Threaded /\ p = 0 => forkstate'[q] \notin {"absent", "running"}
  <1>1. /\ DOMAIN forkstate' = Forks!Processes
        /\ \A q \in Forks!Processes :
             forkstate'[q] = IF q = p \/ (Threaded /\ p = 0 /\ ~Forks!Ended(q))
                             THEN how ELSE forkstate[q]
        /\ forkstate' = [q \in Forks!Processes |-> forkstate'[q]]
    BY Zenon DEF Forks!Leaves, Threaded
  <1>2. \A q \in Forks!Processes :
          /\ forkstate[q] \in {"absent", "running", "exited", "killed"}
          /\ Forks!Ended(q) <=> forkstate[q] \in {"exited", "killed"}
    BY DEF ForkTypes, Forks!Ended
  <1>3. \A q \in Forks!Processes :
          /\ forkstate[q] \in {"exited", "killed"} => forkstate'[q] = forkstate[q]
          /\ forkstate'[q] \in {how, forkstate[q]}
          /\ q # p /\ (~Threaded \/ p # 0) => forkstate'[q] = forkstate[q]
          /\ Threaded /\ p = 0 => forkstate'[q] \notin {"absent", "running"}
    BY <1>1, <1>2
  <1>4. QED
    BY <1>1, <1>2, <1>3

LEMMA FlushEffect ==
  ASSUME NEW p, Forks!Flush(p)
  PROVE  /\ Threaded /\ p # 0 => buffer' = buffer /\ stdout' = stdout
         /\ ~Threaded \/ p = 0 =>
              stdout' = stdout \o buffer[p] /\ buffer' = [buffer EXCEPT ![p] = <<>>]
  BY Zenon DEF Forks!Flush, Threaded

-----------------------------------------------------------------------------
(* Types and control.                                                      *)
LEMMA GoesOnTypes ==
  ASSUME forkprogram \in Forks!Programs, ForkTypes, NEW p \in Forks!Processes,
         forkpc[p] \in 1..Len(Code(p)), forkpc' = [forkpc EXCEPT ![p] = @ + 1]
  PROVE  /\ forkpc' \in [Forks!Processes -> Nat \ {0}]
         /\ forkpc'[p] = forkpc[p] + 1
         /\ \A q \in Forks!Processes : q # p => forkpc'[q] = forkpc[q]
         /\ \A q \in Forks!Processes : forkpc'[q] <= Len(Code(q)) + 1
  BY ForkShape DEF ForkTypes

LEMMA LineTypes ==
  ASSUME forkprogram \in Forks!Programs, ForkTypes, ForkControl, NEW p \in Forks!Processes,
         forkpc[p] \in DOMAIN Code(p)
  PROVE  /\ <<p, forkpc[p], 0>> \in Line
         /\ Code(p)[forkpc[p]][1] = "print_glob" => <<p, forkpc[p], glob[p]>> \in Line
  <1>1. p \in Nat /\ forkpc[p] \in Nat
    BY ForkShape DEF ForkTypes
  <1>2. <<p, forkpc[p], 0>> \in Line
    BY <1>1 DEF Line
  <1>3. ASSUME Code(p)[forkpc[p]][1] = "print_glob"
        PROVE  glob[p] = IF p = 0 THEN 6 ELSE 7
    <2>1. CASE p = 0
      BY <2>1 DEF ForkControl
    <2>2. CASE p # 0
      <3>1. p \in Forked
        BY <2>2, ForkShape
      <3>2. HasSet(p)
        BY <1>3, <3>1, ProgramsMade DEF SetsFirst, HasSet, Code, Forked
      <3>3. QED
        BY <2>2, <3>1, <3>2 DEF ForkControl
    <2>3. QED
      BY <2>1, <2>2
  <1>4. QED
    BY <1>1, <1>2, <1>3 DEF Line

LEMMA TypesStep ==
  ASSUME forkprogram \in Forks!Programs, ForkTypes, ForkControl, Forks!Next
  PROVE  ForkTypes'
  <1> DEFINE T(n, st, g, b, o) ==
               /\ n \in [Forks!Processes -> Nat \ {0}]
               /\ \A q \in Forks!Processes : n[q] <= Len(Code(q)) + 1
               /\ st \in [Forks!Processes -> {"absent", "running", "exited", "killed"}]
               /\ g \in [Forks!Processes -> Int]
               /\ b \in [Forks!Processes -> Seq(Line)]
               /\ o \in Seq(Line)
  <1>1. T(forkpc, forkstate, glob, buffer, stdout)
    BY DEF ForkTypes
  <1>2. T(forkpc', forkstate', glob', buffer', stdout') => ForkTypes'
    BY StaysProgram DEF ForkTypes, Forks!Processes, Code
  <1> SUFFICES ASSUME NEW p \in Forks!Processes,
                      Forks!Step(p) \/ Forks!StartFails(p) \/ Forks!WriteFails(p)
                        \/ Forks!ExecFails(p) \/ Forks!Kill(p)
               PROVE  T(forkpc', forkstate', glob', buffer', stdout')
    BY <1>2 DEF Forks!Next
  <1>3. ASSUME forkpc[p] \in 1..Len(Code(p)), Forks!Advance(p)
        PROVE  /\ forkpc' \in [Forks!Processes -> Nat \ {0}]
               /\ \A q \in Forks!Processes : forkpc'[q] <= Len(Code(q)) + 1
    BY <1>3, GoesOnTypes DEF Forks!Advance
  <1>4. ASSUME NEW how \in {"exited", "killed"}, Forks!Leaves(p, how), forkstate[p] = "running"
        PROVE  forkstate' \in [Forks!Processes -> {"absent", "running", "exited", "killed"}]
    BY <1>4, LeavesEffect
  <1>5. ASSUME Forks!Flush(p)
        PROVE  buffer' \in [Forks!Processes -> Seq(Line)] /\ stdout' \in Seq(Line)
    <2>1. \/ buffer' = buffer /\ stdout' = stdout
          \/ stdout' = stdout \o buffer[p] /\ buffer' = [buffer EXCEPT ![p] = <<>>]
      BY <1>5, FlushEffect
    <2>2. buffer[p] \in Seq(Line) /\ stdout \in Seq(Line) /\ <<>> \in Seq(Line)
      BY <1>1
    <2>3. stdout \o buffer[p] \in Seq(Line)
      BY <2>2, CountJoin
    <2>4. QED
      BY <1>1, <2>1, <2>2, <2>3
  <1>6. ASSUME Forks!Printf(p) PROVE T(forkpc', forkstate', glob', buffer', stdout')
    <2>1. PICK l \in {<<p, forkpc[p], 0>>, <<p, forkpc[p], glob[p]>>} :
             /\ \/ l = <<p, forkpc[p], 0>> /\ Forks!Calls(p, "print")
                \/ l = <<p, forkpc[p], glob[p]>> /\ Forks!Calls(p, "print_glob")
             /\ ToTerminal => stdout' = Append(stdout, l) /\ buffer' = buffer
             /\ ~ToTerminal =>
                  /\ stdout' = stdout
                  /\ buffer' = [buffer EXCEPT ![Forks!Owner(p)] = Append(@, l)]
             /\ forkpc' = [forkpc EXCEPT ![p] = @ + 1]
             /\ forkstate' = forkstate /\ glob' = glob
      BY <1>6, PrintfEffect
    <2>2. l \in Line /\ forkpc[p] \in 1..Len(Code(p))
      <3>1. \/ l = <<p, forkpc[p], 0>> /\ Forks!Calls(p, "print")
            \/ l = <<p, forkpc[p], glob[p]>> /\ Forks!Calls(p, "print_glob")
        BY <2>1
      <3>2. CASE l = <<p, forkpc[p], 0>> /\ Forks!Calls(p, "print")
        BY <3>2, ForkCall, LineTypes
      <3>3. CASE l = <<p, forkpc[p], glob[p]>> /\ Forks!Calls(p, "print_glob")
        BY <3>3, ForkCall, LineTypes
      <3>4. QED
        BY <3>1, <3>2, <3>3
    <2>3. Forks!Owner(p) \in Forks!Processes
      <3>1. 0 \in Forks!Processes
        BY ForkShape
      <3>2. QED
        BY <3>1, OwnerIs
    <2>4. buffer' \in [Forks!Processes -> Seq(Line)] /\ stdout' \in Seq(Line)
      <3>1. stdout \in Seq(Line) /\ buffer[Forks!Owner(p)] \in Seq(Line)
        BY <1>1, <2>3
      <3>2. Append(stdout, l) \in Seq(Line) /\ Append(buffer[Forks!Owner(p)], l) \in Seq(Line)
        BY <2>2, <3>1, CountAppend
      <3>3. CASE ToTerminal
        BY <1>1, <2>1, <3>2, <3>3
      <3>4. CASE ~ToTerminal
        BY <1>1, <2>1, <3>2, <3>4
      <3>5. QED
        BY <3>3, <3>4
    <2>5. QED
      BY <1>1, <1>3, <2>1, <2>2, <2>4 DEF Forks!Advance
  <1>7. ASSUME Forks!Write(p) PROVE T(forkpc', forkstate', glob', buffer', stdout')
    BY <1>1, <1>3, <1>7, ForkCall, LineTypes, CountAppend DEF Forks!Write
  <1>8. ASSUME Forks!Set(p) PROVE T(forkpc', forkstate', glob', buffer', stdout')
    BY <1>1, <1>3, <1>8, ForkCall DEF Forks!Set
  <1>9. ASSUME Forks!Fork(p) PROVE T(forkpc', forkstate', glob', buffer', stdout')
    <2>1. Forks!Argument(p) \in Forks!Processes /\ forkpc[p] \in 1..Len(Code(p))
      BY <1>9, ForkCall, ForkShape DEF Forks!Fork
    <2>2. QED
      BY <1>1, <1>3, <1>9, <2>1 DEF Forks!Fork
  <1>10. ASSUME Forks!Create(p) PROVE T(forkpc', forkstate', glob', buffer', stdout')
    BY <1>1, <1>3, <1>10, ForkCall DEF Forks!Create
  <1>11. ASSUME Forks!Wait(p) PROVE T(forkpc', forkstate', glob', buffer', stdout')
    BY <1>1, <1>3, <1>11, ForkCall DEF Forks!Wait
  <1>12. ASSUME Forks!Exec(p) PROVE T(forkpc', forkstate', glob', buffer', stdout')
    BY <1>1, <1>3, <1>12, ForkCall DEF Forks!Exec
  <1>13. ASSUME Forks!Exit(p) \/ Forks!WriteFails(p) \/ Forks!ExecFails(p) \/ Forks!Kill(p)
         PROVE  T(forkpc', forkstate', glob', buffer', stdout')
    BY <1>1, <1>4, <1>5, <1>13
    DEF Forks!Exit, Forks!WriteFails, Forks!ExecFails, Forks!Kill, Forks!Calls
  <1>14. ASSUME Forks!StartFails(p) PROVE T(forkpc', forkstate', glob', buffer', stdout')
    BY <1>1, <1>3, <1>4, <1>5, <1>14, ForkCall DEF Forks!StartFails, Forks!Calls
  <1> HIDE DEF T
  <1>15. QED
    BY <1>6, <1>7, <1>8, <1>9, <1>10, <1>11, <1>12, <1>13, <1>14 DEF Forks!Step

(* What ForkControl says of given places, states and values of glob.       *)
SetBefore(n, c) == \E m \in 1..(n[c] - 1) : Code(c)[m][1] = "set"

Creation(n, st) ==
  /\ st[0] # "absent"
  /\ \A c \in Forked : st[c] = "absent" => n[c] = 1
  /\ \A c \in Forked : \A m \in DOMAIN Code(0) :
       Starts(forkprogram, m, c) /\ m >= n[0] /\ st[0] = "running" => st[c] = "absent"

Waited(n, st) ==
  \A c \in Forked : \A m \in 1..(n[0] - 1) : Waits(forkprogram, m, c) => st[c] # "running"

WithMain(st) == \A c \in Forked : Threaded /\ st[c] = "running" => st[0] = "running"

Globs(n, g) == g[0] = 6 /\ \A c \in Forked : g[c] = IF SetBefore(n, c) THEN 7 ELSE 6

LEMMA ControlIs ==
  /\ ForkControl <=> /\ Creation(forkpc, forkstate) /\ Waited(forkpc, forkstate)
                     /\ WithMain(forkstate) /\ Globs(forkpc, glob)
  /\ forkprogram' = forkprogram /\ (Threaded' <=> Threaded) =>
       (ForkControl' <=> /\ Creation(forkpc', forkstate') /\ Waited(forkpc', forkstate')
                         /\ WithMain(forkstate') /\ Globs(forkpc', glob'))
  <1>1. ForkControl <=> /\ Creation(forkpc, forkstate) /\ Waited(forkpc, forkstate)
                        /\ WithMain(forkstate) /\ Globs(forkpc, glob)
    BY DEF ForkControl, Creation, Waited, WithMain, Globs, SetBefore, HasSet
  <1>2. ASSUME forkprogram' = forkprogram, Threaded' <=> Threaded
        PROVE  ForkControl' <=> /\ Creation(forkpc', forkstate') /\ Waited(forkpc', forkstate')
                                /\ WithMain(forkstate') /\ Globs(forkpc', glob')
    BY <1>2 DEF ForkControl, Creation, Waited, WithMain, Globs, SetBefore, HasSet, Code, Forked
  <1>3. QED
    BY <1>1, <1>2

LEMMA ControlGoesOn ==
  ASSUME forkprogram \in Forks!Programs, ForkTypes, ForkControl, NEW p \in Forks!Processes,
         NEW call, Forks!Calls(p, call), call # "set",
         call = "wait" => forkstate[Forks!Argument(p)] # "running",
         forkpc' = [forkpc EXCEPT ![p] = @ + 1]
  PROVE  /\ Creation(forkpc', forkstate) /\ Waited(forkpc', forkstate)
         /\ WithMain(forkstate) /\ Globs(forkpc', glob)
  <1>1. /\ forkstate[p] = "running" /\ Code(p)[forkpc[p]][1] = call
        /\ forkpc[p] \in 1..Len(Code(p))
        /\ p # 0 => p \in Forked
        /\ call = "wait" => p = 0 /\ Forks!Argument(p) = Code(0)[forkpc[0]][2]
    BY ForkCall
  <1>2. /\ \A q \in Forks!Processes : forkpc[q] \in Nat
        /\ \A q \in Forks!Processes : forkpc'[q] = IF q = p THEN forkpc[q] + 1 ELSE forkpc[q]
    BY DEF ForkTypes
  <1>3. Creation(forkpc, forkstate) /\ Waited(forkpc, forkstate) /\ WithMain(forkstate)
        /\ Globs(forkpc, glob)
    BY ControlIs
  <1>4. 0 \in Forks!Processes /\ \A c \in Forked : c \in Forks!Processes /\ c # 0
    BY ForkShape
  <1>5. Creation(forkpc', forkstate)
    BY <1>1, <1>2, <1>3, <1>4 DEF Creation
  <1>6. Waited(forkpc', forkstate)
    <2>1. CASE p = 0
      <3>1. ASSUME NEW c \in Forked, NEW m \in 1..forkpc[0], Waits(forkprogram, m, c)
            PROVE  forkstate[c] # "running"
        <4>1. CASE m = forkpc[0]
          <5>1. Code(0)[m] = <<"wait", c>>
            BY <3>1 DEF Waits, Code
          <5>2. call = "wait" /\ Forks!Argument(p) = c
            BY <1>1, <2>1, <4>1, <5>1
          <5>3. QED
            BY <5>2
        <4>2. CASE m # forkpc[0]
          BY <1>2, <1>3, <1>4, <3>1, <4>2 DEF Waited
        <4>3. QED
          BY <4>1, <4>2
      <3>2. forkpc'[0] - 1 = forkpc[0]
        BY <1>2, <1>4, <2>1
      <3>3. QED
        BY <3>1, <3>2 DEF Waited
    <2>2. CASE p # 0
      BY <1>2, <1>3, <1>4, <2>2 DEF Waited
    <2>3. QED
      BY <2>1, <2>2
  <1>7. Globs(forkpc', glob)
    <2>1. ASSUME NEW c \in Forked PROVE SetBefore(forkpc', c) <=> SetBefore(forkpc, c)
      BY <1>1, <1>2, <1>4 DEF SetBefore
    <2>2. QED
      BY <1>3, <2>1 DEF Globs
  <1>8. QED
    BY <1>3, <1>5, <1>6, <1>7

LEMMA ControlSet ==
  ASSUME forkprogram \in Forks!Programs, ForkTypes, ForkControl, NEW p \in Forks!Processes,
         Forks!Set(p)
  PROVE  /\ Creation(forkpc', forkstate) /\ Waited(forkpc', forkstate)
         /\ WithMain(forkstate) /\ Globs(forkpc', glob')
  <1>1. /\ forkstate[p] = "running" /\ Code(p)[forkpc[p]][1] = "set"
        /\ forkpc[p] \in 1..Len(Code(p)) /\ forkpc[p] \in DOMAIN Code(p)
        /\ p # 0 /\ p \in Forked
    BY ForkCall DEF Forks!Set
  <1>2. /\ \A q \in Forks!Processes : forkpc[q] \in Nat
        /\ \A q \in Forks!Processes : forkpc'[q] = IF q = p THEN forkpc[q] + 1 ELSE forkpc[q]
        /\ \A q \in Forks!Processes : glob'[q] = IF q = p THEN glob[q] + 1 ELSE glob[q]
    BY DEF ForkTypes, Forks!Set, Forks!Advance
  <1>3. Creation(forkpc, forkstate) /\ Waited(forkpc, forkstate) /\ WithMain(forkstate)
        /\ Globs(forkpc, glob)
    BY ControlIs
  <1>4. /\ 0 \in Forks!Processes /\ \A c \in Forked : c \in Forks!Processes /\ c # 0
        /\ DOMAIN Code(p) = 1..Len(Code(p)) /\ Len(Code(p)) \in Nat
    BY ForkShape
  <1>5. Creation(forkpc', forkstate) /\ Waited(forkpc', forkstate)
    BY <1>1, <1>2, <1>3, <1>4 DEF Creation, Waited
  <1>6. Globs(forkpc', glob')
    <2>1. ASSUME NEW c \in Forked, c # p PROVE SetBefore(forkpc', c) <=> SetBefore(forkpc, c)
      BY <1>2, <1>4, <2>1 DEF SetBefore
    <2>2. ~SetBefore(forkpc, p)
      <3>1. SUFFICES ASSUME NEW m \in 1..(forkpc[p] - 1), Code(p)[m][1] = "set" PROVE FALSE
        BY DEF SetBefore
      <3>2. m \in DOMAIN Code(p) /\ m # forkpc[p]
        BY <1>1, <1>4
      <3>3. SetsFirst(forkprogram)
        BY ProgramsMade
      <3>4. QED
        BY <1>1, <3>1, <3>2, <3>3 DEF SetsFirst, Code, Forked
    <2>3. SetBefore(forkpc', p)
      <3>1. forkpc[p] \in 1..(forkpc'[p] - 1)
        BY <1>1, <1>2
      <3>2. QED
        BY <1>1, <3>1 DEF SetBefore
    <2>4. QED
      BY <1>1, <1>2, <1>3, <1>4, <2>1, <2>2, <2>3 DEF Globs
  <1>7. QED
    BY <1>3, <1>5, <1>6

LEMMA ControlStarts ==
  ASSUME forkprogram \in Forks!Programs, ForkTypes, ForkControl, NEW p \in Forks!Processes,
         Forks!Fork(p) \/ Forks!Create(p)
  PROVE  /\ Creation(forkpc', forkstate') /\ Waited(forkpc', forkstate')
         /\ WithMain(forkstate') /\ Globs(forkpc', glob')
         /\ p = 0 /\ forkstate[0] = "running" /\ Forks!Argument(p) \in Forked
         /\ forkstate[Forks!Argument(p)] = "absent"
  <1> DEFINE d == Forks!Argument(p)
  <1>1. PICK call \in StartCalls : Forks!Calls(p, call)
    BY DEF Forks!Fork, Forks!Create, StartCalls, ForkCalls, CreateCalls
  <1>2. /\ forkstate[p] = "running" /\ Code(p)[forkpc[p]][1] = call
        /\ forkpc[p] \in 1..Len(Code(p)) /\ forkpc[p] \in DOMAIN Code(p)
        /\ p = 0 /\ d \in Forked /\ Code(0)[forkpc[0]][2] = d
    BY <1>1, ForkCall DEF StartCalls, ForkCalls, CreateCalls
  <1>3. /\ 0 \in Forks!Processes /\ \A c \in Forked : c \in Forks!Processes /\ c # 0
        /\ DOMAIN Code(0) = 1..Len(Code(0)) /\ Len(Code(0)) \in Nat
    BY ForkShape
  <1>4. /\ \A q \in Forks!Processes : forkpc[q] \in Nat
        /\ \A q \in Forks!Processes : forkpc'[q] = IF q = p THEN forkpc[q] + 1 ELSE forkpc[q]
        /\ \A q \in Forks!Processes : forkstate'[q] = IF q = d THEN "running" ELSE forkstate[q]
        /\ \A q \in Forks!Processes : q # d => glob'[q] = glob[q]
        /\ glob'[d] \in {glob[0], glob[d]}
    BY <1>2, <1>3 DEF ForkTypes, Forks!Fork, Forks!Create, Forks!Advance
  <1>5. Creation(forkpc, forkstate) /\ Waited(forkpc, forkstate) /\ WithMain(forkstate)
        /\ Globs(forkpc, glob)
    BY ControlIs
  <1>6. Starts(forkprogram, forkpc[0], d)
    BY <1>1, <1>2 DEF Starts, Code
  <1>7. forkstate[d] = "absent" /\ forkpc[d] = 1
    BY <1>2, <1>3, <1>4, <1>5, <1>6 DEF Creation
  <1>8. /\ \A m \in DOMAIN Code(0) : Starts(forkprogram, m, d) => m = forkpc[0]
        /\ \A m \in DOMAIN Code(0) : Waits(forkprogram, m, d) => forkpc[0] < m
    BY <1>2, <1>6, ForkShape
  <1> HIDE DEF d
  <1>9. Creation(forkpc', forkstate')
    <2>1. forkpc[0] \in Nat /\ forkpc'[0] = forkpc[0] + 1 /\ forkstate'[0] = "running"
      BY <1>2, <1>3, <1>4
    <2>2. ASSUME NEW c \in Forked, forkstate'[c] = "absent" PROVE forkpc'[c] = 1
      BY <1>2, <1>3, <1>4, <1>5, <2>2 DEF Creation
    <2>3. ASSUME NEW c \in Forked, NEW m \in DOMAIN Code(0), Starts(forkprogram, m, c),
                 m >= forkpc'[0]
          PROVE  forkstate'[c] = "absent"
      <3>1. m \in Nat /\ m > forkpc[0]
        BY <1>3, <2>1, <2>3
      <3>2. c # d
        BY <1>8, <2>1, <2>3, <3>1
      <3>3. forkstate[c] = "absent"
        BY <1>2, <1>5, <2>1, <2>3, <3>1 DEF Creation
      <3>4. QED
        BY <1>3, <1>4, <3>2, <3>3
    <2>4. QED
      BY <2>1, <2>2, <2>3 DEF Creation
  <1>10. Waited(forkpc', forkstate')
    <2>1. SUFFICES ASSUME NEW c \in Forked, NEW m \in 1..(forkpc'[0] - 1),
                          Waits(forkprogram, m, c)
                   PROVE  forkstate'[c] # "running"
      BY DEF Waited
    <2>2. m \in 1..forkpc[0] /\ m \in DOMAIN Code(0)
      BY <1>2, <1>3, <1>4
    <2>3. c # d
      <3>1. forkpc[0] \in Nat
        BY <1>2
      <3>2. QED
        BY <1>8, <2>1, <2>2, <3>1
    <2>4. m # forkpc[0]
      BY <1>1, <1>2, <2>1 DEF Waits, StartCalls, ForkCalls, CreateCalls, Code
    <2>5. QED
      BY <1>3, <1>4, <1>5, <2>1, <2>2, <2>3, <2>4 DEF Waited
  <1>11. WithMain(forkstate')
    BY <1>2, <1>3, <1>4, <1>5 DEF WithMain
  <1>12. Globs(forkpc', glob')
    <2>1. ASSUME NEW c \in Forked PROVE SetBefore(forkpc', c) <=> SetBefore(forkpc, c)
      BY <1>2, <1>3, <1>4 DEF SetBefore
    <2>2. ~SetBefore(forkpc, d)
      BY <1>7 DEF SetBefore
    <2>3. glob'[0] = 6 /\ glob'[d] = 6
      BY <1>2, <1>3, <1>4, <1>5, <2>2 DEF Globs
    <2>4. QED
      BY <1>2, <1>3, <1>4, <1>5, <2>1, <2>2, <2>3 DEF Globs
  <1>13. QED
    BY <1>2, <1>7, <1>9, <1>10, <1>11, <1>12 DEF d

LEMMA ControlLeaves ==
  ASSUME forkprogram \in Forks!Programs, ForkTypes, ForkControl, NEW p \in Forks!Processes,
         NEW how \in {"exited", "killed"}, Forks!Leaves(p, how), forkstate[p] = "running"
  PROVE  /\ Creation(forkpc, forkstate') /\ Waited(forkpc, forkstate')
         /\ WithMain(forkstate') /\ Globs(forkpc, glob)
  <1>1. /\ 0 \in Forks!Processes /\ \A c \in Forked : c \in Forks!Processes /\ c # 0
        /\ p # 0 => p \in Forked
    BY ForkShape
  <1>2. /\ forkstate'[p] = how
        /\ \A q \in Forks!Processes :
              /\ forkstate'[q] \in {how, forkstate[q]}
              /\ q # p /\ (~Threaded \/ p # 0) => forkstate'[q] = forkstate[q]
              /\ Threaded /\ p = 0 => forkstate'[q] \notin {"absent", "running"}
    BY LeavesEffect
  <1>3. Creation(forkpc, forkstate) /\ Waited(forkpc, forkstate) /\ WithMain(forkstate)
        /\ Globs(forkpc, glob)
    BY ControlIs
  <1>4. Creation(forkpc, forkstate')
    BY <1>1, <1>2, <1>3 DEF Creation
  <1>5. Waited(forkpc, forkstate')
    BY <1>1, <1>2, <1>3 DEF Waited
  <1>6. WithMain(forkstate')
    BY <1>1, <1>2, <1>3 DEF WithMain
  <1>7. QED
    BY <1>3, <1>4, <1>5, <1>6

LEMMA ControlStep ==
  ASSUME forkprogram \in Forks!Programs, ForkTypes, ForkControl, Forks!Next
  PROVE  ForkControl'
  <1> DEFINE C == /\ Creation(forkpc', forkstate') /\ Waited(forkpc', forkstate')
                  /\ WithMain(forkstate') /\ Globs(forkpc', glob')
  <1>1. C => ForkControl'
    BY ControlIs, StaysProgram
  <1> SUFFICES ASSUME NEW p \in Forks!Processes,
                      Forks!Step(p) \/ Forks!StartFails(p) \/ Forks!WriteFails(p)
                        \/ Forks!ExecFails(p) \/ Forks!Kill(p)
               PROVE  C
    BY <1>1 DEF Forks!Next
  <1>2. ASSUME NEW call \in {"print", "print_glob", "write", "exec", "fork", "create", "wait"},
               Forks!Calls(p, call), call = "wait" => forkstate[Forks!Argument(p)] # "running",
               Forks!Advance(p), forkstate' = forkstate, glob' = glob
        PROVE  C
    BY <1>2, ControlGoesOn DEF Forks!Advance
  <1>3. ASSUME NEW how \in {"exited", "killed"}, Forks!Leaves(p, how), forkstate[p] = "running",
               forkpc' = forkpc, glob' = glob
        PROVE  C
    BY <1>3, ControlLeaves
  <1>4. ASSUME Forks!Set(p) PROVE C
    <2>1. forkstate' = forkstate
      BY <1>4 DEF Forks!Set
    <2>2. QED
      BY <1>4, <2>1, ControlSet
  <1>5. ASSUME Forks!Fork(p) \/ Forks!Create(p) PROVE C
    BY <1>5, ControlStarts
  <1> HIDE DEF C
  <1>6. ASSUME Forks!Printf(p) PROVE C
    <2>1. \E call \in {"print", "print_glob"} : Forks!Calls(p, call)
      BY <1>6 DEF Forks!Printf
    <2>2. Forks!Advance(p) /\ forkstate' = forkstate /\ glob' = glob
      BY <1>6 DEF Forks!Printf
    <2>3. QED
      BY <1>2, <2>1, <2>2
  <1>7. ASSUME Forks!Write(p) PROVE C
    BY <1>2, <1>7 DEF Forks!Write
  <1>8. ASSUME Forks!Wait(p) PROVE C
    <2>1. forkstate[Forks!Argument(p)] # "running"
      BY <1>8 DEF Forks!Wait, Forks!Ended
    <2>2. QED
      BY <1>2, <1>8, <2>1 DEF Forks!Wait
  <1>9. ASSUME Forks!Exec(p) PROVE C
    BY <1>2, <1>9 DEF Forks!Exec
  <1>10. ASSUME Forks!StartFails(p) PROVE C
    BY <1>2, <1>3, <1>10 DEF Forks!StartFails, Forks!Calls
  <1>11. ASSUME Forks!Exit(p) \/ Forks!WriteFails(p) \/ Forks!ExecFails(p) \/ Forks!Kill(p)
         PROVE  C
    BY <1>3, <1>11
    DEF Forks!Exit, Forks!WriteFails, Forks!ExecFails, Forks!Kill, Forks!Calls
  <1>12. QED
    BY <1>4, <1>5, <1>6, <1>7, <1>8, <1>9, <1>10, <1>11 DEF Forks!Step

(* How a step changes who runs: all stay, main starts one that was absent, *)
(* or one leaves.                                                          *)
LEMMA StateSteps ==
  ASSUME forkprogram \in Forks!Programs, ForkTypes, ForkControl, NEW p \in Forks!Processes,
         Forks!Step(p) \/ Forks!StartFails(p) \/ Forks!WriteFails(p)
           \/ Forks!ExecFails(p) \/ Forks!Kill(p)
  PROVE  /\ forkstate[p] = "running"
         /\ \/ forkstate' = forkstate
            \/ /\ Forks!Fork(p) \/ Forks!Create(p)
               /\ p = 0 /\ forkstate[Forks!Argument(p)] = "absent"
               /\ forkstate' = [forkstate EXCEPT ![Forks!Argument(p)] = "running"]
            \/ Forks!Leaves(p, "exited") \/ Forks!Leaves(p, "killed")
  <1>1. forkstate[p] = "running"
    BY DEF Forks!Step, Forks!StartFails, Forks!WriteFails, Forks!ExecFails, Forks!Kill,
           Forks!Printf, Forks!Write, Forks!Set, Forks!Fork, Forks!Create, Forks!Wait, Forks!Exec,
           Forks!Exit, Forks!Calls
  <1>2. CASE Forks!Fork(p) \/ Forks!Create(p)
    <2>1. p = 0 /\ forkstate[Forks!Argument(p)] = "absent"
      BY <1>2, ControlStarts
    <2>2. forkstate' = [forkstate EXCEPT ![Forks!Argument(p)] = "running"]
      BY <1>2 DEF Forks!Fork, Forks!Create
    <2>3. QED
      BY <1>1, <1>2, <2>1, <2>2
  <1>3. CASE ~(Forks!Fork(p) \/ Forks!Create(p))
    BY <1>1, <1>3
    DEF Forks!Step, Forks!StartFails, Forks!WriteFails, Forks!ExecFails, Forks!Kill,
        Forks!Printf, Forks!Write, Forks!Set, Forks!Wait, Forks!Exec, Forks!Exit
  <1>4. QED
    BY <1>2, <1>3

LEMMA KilledStays ==
  ASSUME forkprogram \in Forks!Programs, ForkTypes, ForkControl, Forks!Next, SomebodyKilled
  PROVE  SomebodyKilled'
  <1>1. PICK p \in Forks!Processes :
          Forks!Step(p) \/ Forks!StartFails(p) \/ Forks!WriteFails(p)
            \/ Forks!ExecFails(p) \/ Forks!Kill(p)
    BY DEF Forks!Next
  <1>2. PICK q \in Forks!Processes : forkstate[q] = "killed"
    BY DEF SomebodyKilled
  <1>3. forkstate'[q] = "killed"
    BY <1>1, <1>2, StateSteps, LeavesEffect DEF ForkTypes
  <1>4. QED
    BY <1>2, <1>3, StaysProgram DEF SomebodyKilled, Forks!Processes

LEMMA ForkInit ==
  ASSUME Forks!Init
  PROVE  ForkInv
  <1>1. forkprogram \in Forks!Programs
    BY DEF Forks!Init
  <1>2. /\ 0 \in Forks!Processes /\ \A c \in Forked : c \in Forks!Processes /\ c # 0
        /\ ~Threaded => 1 \in Forks!Processes
        /\ \A p \in Forks!Processes :
             Len(Code(p)) \in Nat /\ DOMAIN Code(p) = 1..Len(Code(p))
    BY <1>1, ForkShape
  <1>3. /\ forkpc = [p \in Forks!Processes |-> 1]
        /\ forkstate = [p \in Forks!Processes |-> IF p = 0 THEN "running" ELSE "absent"]
        /\ glob = [p \in Forks!Processes |-> 6]
        /\ buffer = [p \in Forks!Processes |-> <<>>]
        /\ stdout = <<>>
    BY DEF Forks!Init
  <1>4. ForkTypes
    BY <1>2, <1>3 DEF ForkTypes
  <1>5. ForkControl
    BY <1>2, <1>3 DEF ForkControl, HasSet
  <1>6. ThreadLines
    <2>1. \A p \in Forks!Processes : Forks!Printed(p) = {}
      BY <1>3 DEF Forks!Printed
    <2>2. \A p \in Forks!Processes : \A k : SharedLines(p, k) = 0
      BY <1>2, <1>3, CountNone DEF SharedLines
    <2>3. buffer[0] = <<>>
      BY <1>2, <1>3
    <2>4. QED
      BY <2>1, <2>2, <2>3 DEF ThreadLines
  <1>7. ~Threaded => ForkLines
    <2>1. SUFFICES ASSUME ~Threaded PROVE ForkLines
      OBVIOUS
    <2>2. Forks!Printed(0) = {} /\ Forks!Printed(1) = {}
      BY <1>2, <1>3, <2>1 DEF Forks!Printed
    <2>3. buffer[0] = <<>> /\ buffer[1] = <<>>
      BY <1>2, <1>3, <2>1
    <2>4. /\ \A k : ChildsLines(k) = 0 /\ MainsLines(k) = 0
          /\ \A k : LinesOf(buffer[0], 1, k) = 0
      BY <1>3, <2>3, CountNone DEF ChildsLines, MainsLines
    <2>5. BuffersEmpty
      BY <2>3 DEF BuffersEmpty
    <2>6. ChildsOnce /\ MainsCopied
      BY <2>2, <2>4 DEF ChildsOnce, MainsCopied
    <2>7. QED
      BY <2>5, <2>6 DEF ForkLines
  <1>8. MainLast
    <2>1. SUFFICES ASSUME forkprogram \in Forks!PrintAfterWaiting
                   PROVE  forkpc[0] # Len(Code(0)) + 1 /\ forkstate[0] # "exited"
      BY DEF MainLast
    <2>2. Len(Code(0)) \in Nat \ {0}
      BY <1>1, <2>1, ProgramsMade DEF PrintsLast, Code
    <2>3. QED
      BY <1>2, <1>3, <2>2
  <1>9. ChildRunsOut
    BY <1>2, <1>3 DEF ChildRunsOut
  <1>10. QED
    BY <1>1, <1>4, <1>5, <1>6, <1>7, <1>8, <1>9 DEF ForkInv, LinesKept


LEMMA PrintfLine ==
  ASSUME forkprogram \in Forks!Programs, ForkTypes, ForkControl, NEW p \in Forks!Processes,
         Forks!Printf(p)
  PROVE  \E l \in Line, call \in Forks!PrintCalls :
           /\ l[1] = p /\ l[2] = forkpc[p] /\ Forks!Calls(p, call)
           /\ ToTerminal => stdout' = Append(stdout, l) /\ buffer' = buffer
           /\ ~ToTerminal =>
                /\ stdout' = stdout
                /\ buffer' = [buffer EXCEPT ![Forks!Owner(p)] = Append(@, l)]
           /\ forkpc' = [forkpc EXCEPT ![p] = @ + 1]
           /\ forkstate' = forkstate
  <1>1. PICK l \in {<<p, forkpc[p], 0>>, <<p, forkpc[p], glob[p]>>} :
           /\ \/ l = <<p, forkpc[p], 0>> /\ Forks!Calls(p, "print")
              \/ l = <<p, forkpc[p], glob[p]>> /\ Forks!Calls(p, "print_glob")
           /\ ToTerminal => stdout' = Append(stdout, l) /\ buffer' = buffer
           /\ ~ToTerminal =>
                /\ stdout' = stdout
                /\ buffer' = [buffer EXCEPT ![Forks!Owner(p)] = Append(@, l)]
           /\ forkpc' = [forkpc EXCEPT ![p] = @ + 1]
           /\ forkstate' = forkstate /\ glob' = glob
    BY PrintfEffect
  <1>2. l[1] = p /\ l[2] = forkpc[p]
    BY <1>1
  <1>3. \E call \in Forks!PrintCalls : Forks!Calls(p, call) /\ l \in Line
    <2>1. CASE l = <<p, forkpc[p], 0>> /\ Forks!Calls(p, "print")
      BY <2>1, ForkCall, LineTypes DEF Forks!PrintCalls
    <2>2. CASE l = <<p, forkpc[p], glob[p]>> /\ Forks!Calls(p, "print_glob")
      BY <2>2, ForkCall, LineTypes DEF Forks!PrintCalls
    <2>3. QED
      BY <1>1, <2>1, <2>2
  <1>4. QED
    BY <1>1, <1>2, <1>3

-----------------------------------------------------------------------------
(* Lines.  Which calls have printed changes with the call of one process.  *)
LEMMA PrintedStays ==
  ASSUME forkprogram' = forkprogram, forkpc' = forkpc
  PROVE  Forks!Processes' = Forks!Processes /\ \A q : Forks!Printed(q)' = Forks!Printed(q)
  BY DEF Forks!Printed, Forks!Processes

LEMMA PrintedGoesOn ==
  ASSUME forkprogram \in Forks!Programs, ForkTypes, forkprogram' = forkprogram,
         NEW p \in Forks!Processes, NEW call, Forks!Calls(p, call),
         forkpc' = [forkpc EXCEPT ![p] = @ + 1]
  PROVE  /\ Forks!Processes' = Forks!Processes
         /\ \A q \in Forks!Processes : q # p => Forks!Printed(q)' = Forks!Printed(q)
         /\ call \notin Forks!PrintCalls => Forks!Printed(p)' = Forks!Printed(p)
         /\ call \in Forks!PrintCalls => Forks!Printed(p)' = Forks!Printed(p) \cup {forkpc[p]}
         /\ \A q \in Forks!Processes : \A k \in Forks!Printed(q) : k \in Nat /\ k < forkpc[q]
         /\ \A q \in Forks!Processes : \A k \in Nat :
              k >= forkpc'[q] => k >= forkpc[q] /\ (q = p => k # forkpc[p])
         /\ forkpc[p] \in Nat
  <1>1. /\ forkpc[p] \in 1..Len(Code(p)) /\ Code(p)[forkpc[p]][1] = call
        /\ Len(Code(p)) \in Nat
    BY ForkCall, ForkShape
  <1>2. /\ \A q \in Forks!Processes : forkpc[q] \in Nat
        /\ \A q \in Forks!Processes : forkpc'[q] = IF q = p THEN forkpc[q] + 1 ELSE forkpc[q]
    BY DEF ForkTypes
  <1>3. \A q : /\ Forks!Printed(q) = {k \in 1..(forkpc[q] - 1) : Code(q)[k][1] \in Forks!PrintCalls}
               /\ Forks!Printed(q)'
                    = {k \in 1..(forkpc'[q] - 1) : Code(q)[k][1] \in Forks!PrintCalls}
    BY DEF Forks!Printed, Code, Forks!PrintCalls
  <1>4. Forks!Processes' = Forks!Processes
    BY DEF Forks!Processes
  <1>5. \A q \in Forks!Processes : q # p => Forks!Printed(q)' = Forks!Printed(q)
    BY <1>2, <1>3
  <1>6. 1..(forkpc'[p] - 1) = 1..(forkpc[p] - 1) \cup {forkpc[p]}
    BY <1>1, <1>2
  <1>7. call \notin Forks!PrintCalls => Forks!Printed(p)' = Forks!Printed(p)
    BY <1>1, <1>3, <1>6
  <1>8. call \in Forks!PrintCalls => Forks!Printed(p)' = Forks!Printed(p) \cup {forkpc[p]}
    BY <1>1, <1>3, <1>6
  <1>9. \A q \in Forks!Processes : \A k \in Forks!Printed(q) : k \in Nat /\ k < forkpc[q]
    BY <1>2, <1>3
  <1>10. \A q \in Forks!Processes : \A k \in Nat :
           k >= forkpc'[q] => k >= forkpc[q] /\ (q = p => k # forkpc[p])
    BY <1>2
  <1>11. QED
    BY <1>1, <1>4, <1>5, <1>7, <1>8, <1>9, <1>10

(* Threads, and main: each line is in their one buffer or written.         *)
LEMMA ThreadPrints ==
  ASSUME forkprogram \in Forks!Programs, ForkTypes, ForkControl, forkprogram' = forkprogram,
         Threaded, ThreadLines, NEW p \in Forks!Processes, Forks!Printf(p),
         ToTerminal' <=> ToTerminal
  PROVE  ThreadLines'
  <1>1. PICK l \in Line, call \in Forks!PrintCalls :
           /\ l[1] = p /\ l[2] = forkpc[p] /\ Forks!Calls(p, call)
           /\ ToTerminal => stdout' = Append(stdout, l) /\ buffer' = buffer
           /\ ~ToTerminal =>
                /\ stdout' = stdout
                /\ buffer' = [buffer EXCEPT ![Forks!Owner(p)] = Append(@, l)]
           /\ forkpc' = [forkpc EXCEPT ![p] = @ + 1]
           /\ forkstate' = forkstate
    BY PrintfLine
  <1>2. Forks!Calls(p, call)
    BY <1>1
  <1>3. l \in Line /\ l[1] = p /\ l[2] = forkpc[p]
    BY <1>1
  <1>4. 0 \in Forks!Processes /\ stdout \in Seq(Line) /\ buffer[0] \in Seq(Line)
        /\ DOMAIN buffer = Forks!Processes
    BY ForkShape DEF ForkTypes
  <1>5. forkstate[0] = "running"
    BY <1>2, ForkCall, ControlIs DEF WithMain
  <1>6. /\ \A q, k : SharedLines(q, k)'
                       = SharedLines(q, k) + (IF p = q /\ forkpc[p] = k THEN 1 ELSE 0)
        /\ \A q, k : SharedLines(q, k) \in Nat
        /\ ToTerminal => buffer'[0] = buffer[0]
    <2>1. \A q, k : LinesOf(stdout, q, k) \in Nat /\ LinesOf(buffer[0], q, k) \in Nat
      BY <1>4, CountFinite
    <2>2. /\ \A q, k : LinesOf(Append(stdout, l), q, k)
                         = LinesOf(stdout, q, k) + (IF p = q /\ forkpc[p] = k THEN 1 ELSE 0)
          /\ \A q, k : LinesOf(Append(buffer[0], l), q, k)
                         = LinesOf(buffer[0], q, k) + (IF p = q /\ forkpc[p] = k THEN 1 ELSE 0)
      BY <1>3, <1>4, CountAppend
    <2>3. CASE ToTerminal
      <3>1. stdout' = Append(stdout, l) /\ buffer'[0] = buffer[0]
        BY <1>1, <2>3
      <3>2. QED
        BY <2>1, <2>2, <2>3, <3>1 DEF SharedLines
    <2>4. CASE ~ToTerminal
      <3>1. stdout' = stdout /\ buffer'[0] = Append(buffer[0], l)
        BY <1>1, <1>4, <2>4, OwnerIs
      <3>2. QED
        BY <2>1, <2>2, <2>4, <3>1 DEF SharedLines
    <2>5. QED
      BY <2>3, <2>4
  <1>7. /\ Forks!Processes' = Forks!Processes
        /\ \A q \in Forks!Processes : q # p => Forks!Printed(q)' = Forks!Printed(q)
        /\ Forks!Printed(p)' = Forks!Printed(p) \cup {forkpc[p]}
        /\ \A q \in Forks!Processes : \A k \in Forks!Printed(q) : k \in Nat /\ k < forkpc[q]
        /\ \A q \in Forks!Processes : \A k \in Nat :
             k >= forkpc'[q] => k >= forkpc[q] /\ (q = p => k # forkpc[p])
        /\ forkpc[p] \in Nat
    BY <1>1, <1>2, PrintedGoesOn
  <1>8. ASSUME NEW q \in Forks!Processes, NEW k \in Forks!Printed(q)'
        PROVE  SharedLines(q, k)' = 1
    <2>1. CASE q = p /\ k = forkpc[p]
      <3>1. SharedLines(p, k) = 0
        BY <1>7, <2>1 DEF ThreadLines
      <3>2. QED
        BY <1>6, <2>1, <3>1
    <2>2. CASE ~(q = p /\ k = forkpc[p])
      <3>1. k \in Forks!Printed(q)
        BY <1>7, <2>2
      <3>2. SharedLines(q, k) = 1
        BY <3>1 DEF ThreadLines
      <3>3. QED
        BY <1>6, <2>2, <3>2
    <2>3. QED
      BY <2>1, <2>2
  <1>9. ASSUME NEW q \in Forks!Processes, NEW k \in Nat, k >= forkpc'[q]
        PROVE  SharedLines(q, k)' = 0
    <2>1. SharedLines(q, k) = 0 /\ ~(p = q /\ forkpc[p] = k)
      BY <1>7, <1>9 DEF ThreadLines
    <2>2. QED
      BY <1>6, <2>1
  <1>10. ToTerminal' \/ forkstate'[0] # "running" => buffer'[0] = <<>>
    <2>1. forkstate'[0] = "running"
      BY <1>1, <1>5
    <2>2. ToTerminal => buffer'[0] = <<>>
      BY <1>6 DEF ThreadLines
    <2>3. QED
      BY <2>1, <2>2
  <1>11. QED
    BY <1>7, <1>8, <1>9, <1>10 DEF ThreadLines

LEMMA ThreadStep ==
  ASSUME forkprogram \in Forks!Programs, ForkTypes, ForkControl, Forks!Next, Threaded,
         ThreadLines, ~SomebodyKilled'
  PROVE  ThreadLines'
  <1>1. PICK p \in Forks!Processes :
          Forks!Step(p) \/ Forks!StartFails(p) \/ Forks!WriteFails(p)
            \/ Forks!ExecFails(p) \/ Forks!Kill(p)
    BY DEF Forks!Next
  <1>2. forkprogram' = forkprogram /\ (ToTerminal' <=> ToTerminal)
    BY StaysProgram
  <1>3. \A call \in {"write", "fork", "fork_or_exit", "exec"} : ~Forks!Calls(p, call)
    <2>1. ASSUME NEW call, Forks!Calls(p, call)
          PROVE  call \notin {"write", "fork", "fork_or_exit", "exec"}
      <3>1. /\ forkpc[p] \in DOMAIN Code(p) /\ Code(p)[forkpc[p]][1] = call
            /\ p # 0 => p \in Forked
        BY <2>1, ForkCall
      <3>2. /\ \A n \in DOMAIN Code(0) : Code(0)[n][1] \notin {"fork", "fork_or_exit", "write"}
            /\ \A n \in DOMAIN Code(0) : Code(0)[n][1] # "exec"
            /\ \A c \in Forked : \A n \in DOMAIN Code(c) :
                 Code(c)[n][1] \in {"print", "print_glob", "set"}
        BY ForkShape
      <3>3. QED
        BY <3>1, <3>2
    <2>2. QED
      BY <2>1
  <1>4. 0 \in Forks!Processes /\ stdout \in Seq(Line) /\ buffer[0] \in Seq(Line)
        /\ DOMAIN buffer = Forks!Processes
    BY ForkShape DEF ForkTypes
  <1>5. ASSUME NEW call \in {"set", "wait", "create", "created"},
               Forks!Calls(p, call), Forks!Advance(p),
               buffer' = buffer, stdout' = stdout, forkstate'[0] = forkstate[0]
        PROVE  ThreadLines'
    <2>1. call \notin Forks!PrintCalls
      BY DEF Forks!PrintCalls
    <2>2. /\ Forks!Processes' = Forks!Processes
          /\ \A q \in Forks!Processes : Forks!Printed(q)' = Forks!Printed(q)
          /\ \A q \in Forks!Processes : \A k \in Nat : k >= forkpc'[q] => k >= forkpc[q]
      BY <1>2, <1>5, <2>1, PrintedGoesOn DEF Forks!Advance
    <2>3. \A q, k : SharedLines(q, k)' = SharedLines(q, k)
      BY <1>5 DEF SharedLines
    <2>4. QED
      BY <1>2, <1>5, <2>2, <2>3 DEF ThreadLines
  <1>6. ASSUME Forks!Exit(p) PROVE ThreadLines'
    <2>1. /\ Forks!Processes' = Forks!Processes
          /\ \A q : Forks!Printed(q)' = Forks!Printed(q)
          /\ forkpc' = forkpc /\ forkstate[p] = "running"
          /\ Forks!Leaves(p, "exited") /\ Forks!Flush(p)
      BY <1>2, <1>6, PrintedStays DEF Forks!Exit
    <2>2. \A q, k : SharedLines(q, k)' = SharedLines(q, k)
      <3>1. CASE p # 0
        BY <2>1, <3>1, FlushEffect DEF SharedLines
      <3>2. CASE p = 0
        <4>1. stdout' = stdout \o buffer[0] /\ buffer'[0] = <<>>
          BY <1>4, <2>1, <3>2, FlushEffect
        <4>2. /\ \A q, k : LinesOf(stdout \o buffer[0], q, k)
                             = LinesOf(stdout, q, k) + LinesOf(buffer[0], q, k)
              /\ \A q, k : LinesOf(<<>>, q, k) = 0
              /\ \A q, k : LinesOf(stdout, q, k) \in Nat /\ LinesOf(buffer[0], q, k) \in Nat
          BY <1>4, CountJoin, CountNone, CountFinite
        <4>3. QED
          BY <4>1, <4>2 DEF SharedLines
      <3>3. QED
        BY <3>1, <3>2
    <2>3. ToTerminal' \/ forkstate'[0] # "running" => buffer'[0] = <<>>
      <3>1. CASE p # 0
        <4>1. forkstate'[0] = forkstate[0] /\ buffer' = buffer
          BY <1>4, <2>1, <3>1, LeavesEffect, FlushEffect
        <4>2. QED
          BY <1>2, <4>1 DEF ThreadLines
      <3>2. CASE p = 0
        BY <1>4, <2>1, <3>2, FlushEffect
      <3>3. QED
        BY <3>1, <3>2
    <2>4. QED
      BY <2>1, <2>2, <2>3 DEF ThreadLines
  <1>7. ASSUME Forks!ExecFails(p) \/ Forks!Kill(p) PROVE FALSE
    <2>1. Forks!Leaves(p, "killed") /\ forkstate[p] = "running"
      BY <1>7 DEF Forks!ExecFails, Forks!Kill, Forks!Calls
    <2>2. forkstate'[p] = "killed"
      BY <2>1, LeavesEffect
    <2>3. QED
      BY <1>2, <2>2 DEF SomebodyKilled, Forks!Processes
  <1>8. ASSUME Forks!Create(p) PROVE ThreadLines'
    <2>1. /\ Forks!Argument(p) # 0
          /\ Forks!Calls(p, "create") \/ Forks!Calls(p, "created")
      BY <1>8, ForkCall, ForkShape DEF Forks!Create
    <2>2. forkstate'[0] = forkstate[0]
      BY <1>4, <1>8, <2>1 DEF Forks!Create, ForkTypes
    <2>3. QED
      BY <1>5, <1>8, <2>2 DEF Forks!Create
  <1>9. ASSUME Forks!Set(p) \/ Forks!Wait(p) PROVE ThreadLines'
    BY <1>5, <1>9 DEF Forks!Set, Forks!Wait
  <1>10. ASSUME Forks!Printf(p) PROVE ThreadLines'
    BY <1>2, <1>10, ThreadPrints
  <1>11. ~(\/ Forks!Write(p) \/ Forks!Fork(p) \/ Forks!Exec(p)
           \/ Forks!WriteFails(p))
    BY <1>3 DEF Forks!Write, Forks!Fork, Forks!Exec, Forks!WriteFails
  <1>12. ASSUME Forks!StartFails(p) PROVE ThreadLines'
    <2>1. /\ Forks!Calls(p, "create") /\ Forks!Advance(p)
          /\ buffer' = buffer /\ stdout' = stdout /\ forkstate' = forkstate
      BY <1>3, <1>12 DEF Forks!StartFails
    <2>2. QED
      BY <1>5, <2>1
  <1>13. QED
    BY <1>1, <1>6, <1>7, <1>8, <1>9, <1>10, <1>11, <1>12 DEF Forks!Step


(* A parent and its child: two buffers.                                    *)
LEMMA ForkPair ==
  ASSUME forkprogram \in Forks!Programs, ForkTypes, ~Threaded
  PROVE  /\ Forks!Processes = {0, 1} /\ Forked = {1}
         /\ stdout \in Seq(Line) /\ buffer[0] \in Seq(Line) /\ buffer[1] \in Seq(Line)
         /\ DOMAIN buffer = {0, 1} /\ forkpc[0] \in Nat \ {0} /\ forkpc[1] \in Nat \ {0}
         /\ \A q, k : /\ LinesOf(stdout, q, k) \in Nat
                      /\ LinesOf(buffer[0], q, k) \in Nat /\ LinesOf(buffer[1], q, k) \in Nat
  <1>1. Forks!Processes = {0, 1} /\ Forked = {1}
    BY ForkShape
  <1>2. /\ stdout \in Seq(Line) /\ buffer[0] \in Seq(Line) /\ buffer[1] \in Seq(Line)
        /\ DOMAIN buffer = {0, 1} /\ forkpc[0] \in Nat \ {0} /\ forkpc[1] \in Nat \ {0}
    BY <1>1 DEF ForkTypes
  <1>3. QED
    BY <1>1, <1>2, CountFinite

LEMMA TwiceStays ==
  ASSUME forkprogram \in Forks!Programs, ForkTypes, ~Threaded, forkprogram' = forkprogram,
         ToTerminal' <=> ToTerminal, NEW p \in {0, 1}, NEW call,
         \/ forkpc' = forkpc
         \/ /\ Forks!Calls(p, call) /\ call \notin ForkCalls \cup {"exec"}
            /\ forkpc' = [forkpc EXCEPT ![p] = @ + 1],
         forkstate'[1] \in {"running", "exited"} <=> forkstate[1] \in {"running", "exited"}
  PROVE  \A k : Twice(k)' <=> Twice(k)
  <1>0. \/ forkpc' = forkpc
        \/ /\ Code(p)[forkpc[p]][1] \notin ForkCalls \cup {"exec"}
           /\ forkpc' = [forkpc EXCEPT ![p] = @ + 1]
    <2>1. p \in Forks!Processes
      BY ForkPair
    <2>2. Forks!Calls(p, call) => Code(p)[forkpc[p]][1] = call
      BY <2>1, ForkCall
    <2>3. QED
      BY <2>2
  <1>1. \/ forkpc'[0] = forkpc[0]
        \/ forkpc'[0] = forkpc[0] + 1 /\ Code(0)[forkpc[0]][1] \notin ForkCalls
    BY <1>0, ForkPair DEF ForkTypes
  <1>2. \/ forkpc'[1] = forkpc[1]
        \/ forkpc'[1] = forkpc[1] + 1 /\ Code(1)[forkpc[1]][1] # "exec"
    BY <1>0, ForkPair DEF ForkTypes
  <1>3. forkpc[0] \in Nat \ {0} /\ forkpc[1] \in Nat \ {0}
    BY ForkPair
  <1>4. ASSUME NEW k
        PROVE  (\E n \in 1..(forkpc'[0] - 1) : n > k /\ Code(0)[n][1] \in ForkCalls)
                 <=> \E n \in 1..(forkpc[0] - 1) : n > k /\ Code(0)[n][1] \in ForkCalls
    <2>1. CASE forkpc'[0] = forkpc[0]
      BY <2>1
    <2>2. CASE forkpc'[0] = forkpc[0] + 1 /\ Code(0)[forkpc[0]][1] \notin ForkCalls
      <3>1. \A n : n \in 1..(forkpc'[0] - 1) <=> n \in 1..(forkpc[0] - 1) \/ n = forkpc[0]
        BY <1>3, <2>2
      <3>2. QED
        BY <2>2, <3>1
    <2>3. QED
      BY <1>1, <2>1, <2>2
  <1>5. (\A n \in 1..(forkpc'[1] - 1) : Code(1)[n][1] # "exec")
          <=> \A n \in 1..(forkpc[1] - 1) : Code(1)[n][1] # "exec"
    <2>1. CASE forkpc'[1] = forkpc[1]
      BY <2>1
    <2>2. CASE forkpc'[1] = forkpc[1] + 1 /\ Code(1)[forkpc[1]][1] # "exec"
      <3>1. \A n : n \in 1..(forkpc'[1] - 1) <=> n \in 1..(forkpc[1] - 1) \/ n = forkpc[1]
        BY <1>3, <2>2
      <3>2. QED
        BY <2>2, <3>1
    <2>3. QED
      BY <1>2, <2>1, <2>2
  <1>6. \A n : Code(n)' = Code(n)
    BY DEF Code
  <1>7. QED
    BY <1>4, <1>5, <1>6 DEF Twice

(* A line is added to stdout or to the buffer of its process.              *)
LEMMA ForkAdds ==
  ASSUME forkprogram \in Forks!Programs, ForkTypes, ~Threaded, NEW p \in {0, 1},
         NEW l \in Line, l[1] = p, l[2] = forkpc[p],
         \/ stdout' = Append(stdout, l) /\ buffer' = buffer
         \/ stdout' = stdout /\ buffer' = [buffer EXCEPT ![p] = Append(@, l)]
  PROVE  \A k :
           /\ MainsLines(k) \in Nat /\ ChildsLines(k) \in Nat
           /\ MainsLines(k)' = MainsLines(k) + (IF p = 0 /\ k = forkpc[p] THEN 1 ELSE 0)
           /\ ChildsLines(k)' = ChildsLines(k) + (IF p = 1 /\ k = forkpc[p] THEN 1 ELSE 0)
           /\ LinesOf(buffer'[0], 1, k) = LinesOf(buffer[0], 1, k)
           /\ LinesOf(buffer'[1], 0, k) = LinesOf(buffer[1], 0, k)
           /\ k # forkpc[p] => LinesOf(buffer'[0], 0, k) = LinesOf(buffer[0], 0, k)
           /\ p = 0 /\ k = forkpc[p] /\ stdout' = stdout =>
                LinesOf(buffer'[0], 0, k) = LinesOf(buffer[0], 0, k) + 1
  <1>1. /\ stdout \in Seq(Line) /\ buffer[0] \in Seq(Line) /\ buffer[1] \in Seq(Line)
        /\ DOMAIN buffer = {0, 1}
        /\ \A q, k : /\ LinesOf(stdout, q, k) \in Nat
                     /\ LinesOf(buffer[0], q, k) \in Nat /\ LinesOf(buffer[1], q, k) \in Nat
    BY ForkPair
  <1>2. buffer[p] \in Seq(Line)
    BY <1>1
  <1>3. /\ \A q, k : LinesOf(Append(stdout, l), q, k)
                       = LinesOf(stdout, q, k) + (IF p = q /\ forkpc[p] = k THEN 1 ELSE 0)
        /\ \A q, k : LinesOf(Append(buffer[p], l), q, k)
                       = LinesOf(buffer[p], q, k) + (IF p = q /\ forkpc[p] = k THEN 1 ELSE 0)
    BY <1>1, <1>2, CountAppend
  <1>4. SUFFICES ASSUME NEW k
        PROVE  /\ MainsLines(k) \in Nat /\ ChildsLines(k) \in Nat
               /\ MainsLines(k)' = MainsLines(k) + (IF p = 0 /\ k = forkpc[p] THEN 1 ELSE 0)
               /\ ChildsLines(k)' = ChildsLines(k) + (IF p = 1 /\ k = forkpc[p] THEN 1 ELSE 0)
               /\ LinesOf(buffer'[0], 1, k) = LinesOf(buffer[0], 1, k)
               /\ LinesOf(buffer'[1], 0, k) = LinesOf(buffer[1], 0, k)
               /\ k # forkpc[p] => LinesOf(buffer'[0], 0, k) = LinesOf(buffer[0], 0, k)
               /\ p = 0 /\ k = forkpc[p] /\ stdout' = stdout =>
                    LinesOf(buffer'[0], 0, k) = LinesOf(buffer[0], 0, k) + 1
    OBVIOUS
  <1> DEFINE m(b, o) == LinesOf(o, 0, k) + LinesOf(b[0], 0, k) + LinesOf(b[1], 0, k)
             c(b, o) == LinesOf(o, 1, k) + LinesOf(b[1], 1, k)
  <1>0. /\ MainsLines(k) = m(buffer, stdout) /\ MainsLines(k)' = m(buffer', stdout')
        /\ ChildsLines(k) = c(buffer, stdout) /\ ChildsLines(k)' = c(buffer', stdout')
        /\ MainsLines(k) \in Nat /\ ChildsLines(k) \in Nat
    BY <1>1 DEF MainsLines, ChildsLines
  <1>5. CASE stdout' = Append(stdout, l) /\ buffer' = buffer
    <2>1. Append(stdout, l) # stdout
      BY <1>1
    <2>2. stdout' # stdout /\ buffer'[0] = buffer[0] /\ buffer'[1] = buffer[1]
      BY <1>5, <2>1
    <2>3. /\ LinesOf(stdout', 0, k)
               = LinesOf(stdout, 0, k) + (IF p = 0 /\ k = forkpc[p] THEN 1 ELSE 0)
          /\ LinesOf(stdout', 1, k)
               = LinesOf(stdout, 1, k) + (IF p = 1 /\ k = forkpc[p] THEN 1 ELSE 0)
      BY <1>3, <1>5
    <2>4. MainsLines(k)' = MainsLines(k) + (IF p = 0 /\ k = forkpc[p] THEN 1 ELSE 0)
      <3> DEFINE x == IF p = 0 /\ k = forkpc[p] THEN 1 ELSE 0
      <3>1. x \in Nat /\ LinesOf(stdout', 0, k) = LinesOf(stdout, 0, k) + x
        BY <2>3
      <3>2. /\ LinesOf(buffer'[0], 0, k) = LinesOf(buffer[0], 0, k)
            /\ LinesOf(buffer'[1], 0, k) = LinesOf(buffer[1], 0, k)
        BY <2>2
      <3>3. /\ LinesOf(stdout, 0, k) \in Nat
            /\ LinesOf(buffer[0], 0, k) \in Nat /\ LinesOf(buffer[1], 0, k) \in Nat
        BY <1>1
      <3> HIDE DEF x
      <3>4. m(buffer', stdout') = m(buffer, stdout) + x
        BY <3>1, <3>2, <3>3
      <3>5. QED
        BY <1>0, <3>4 DEF x
    <2>5. ChildsLines(k)' = ChildsLines(k) + (IF p = 1 /\ k = forkpc[p] THEN 1 ELSE 0)
      BY <1>0, <1>1, <2>2, <2>3
    <2> HIDE DEF m, c
    <2>6. QED
      BY <1>0, <2>2, <2>4, <2>5
  <1>6. CASE stdout' = stdout /\ buffer' = [buffer EXCEPT ![p] = Append(@, l)]
    <2>1. CASE p = 0
      <3>1. buffer'[0] = Append(buffer[0], l) /\ buffer'[1] = buffer[1]
        BY <1>1, <1>6, <2>1
      <3>2. /\ LinesOf(buffer'[0], 0, k)
                 = LinesOf(buffer[0], 0, k) + (IF k = forkpc[p] THEN 1 ELSE 0)
            /\ LinesOf(buffer'[0], 1, k) = LinesOf(buffer[0], 1, k)
        BY <1>1, <1>3, <2>1, <3>1
      <3>3. LinesOf(stdout', 0, k) = LinesOf(stdout, 0, k)
            /\ LinesOf(stdout', 1, k) = LinesOf(stdout, 1, k)
            /\ LinesOf(buffer'[1], 0, k) = LinesOf(buffer[1], 0, k)
            /\ LinesOf(buffer'[1], 1, k) = LinesOf(buffer[1], 1, k)
        BY <1>6, <3>1
      <3>4. MainsLines(k)' = MainsLines(k) + (IF k = forkpc[p] THEN 1 ELSE 0)
        BY <1>0, <1>1, <3>2, <3>3
      <3>5. ChildsLines(k)' = ChildsLines(k)
        BY <1>0, <3>3
      <3>6. MainsLines(k) \in Nat /\ ChildsLines(k) \in Nat /\ LinesOf(buffer[0], 0, k) \in Nat
        BY <1>0, <1>1
      <3>7. p # 1 /\ (p = 0 /\ k = forkpc[p] <=> k = forkpc[p])
        BY <2>1
      <3>8. QED
        BY <3>2, <3>3, <3>4, <3>5, <3>6, <3>7
    <2>2. CASE p = 1
      <3>1. buffer'[1] = Append(buffer[1], l) /\ buffer'[0] = buffer[0]
        BY <1>1, <1>6, <2>2
      <3>2. /\ LinesOf(buffer'[1], 1, k)
                 = LinesOf(buffer[1], 1, k) + (IF k = forkpc[p] THEN 1 ELSE 0)
            /\ LinesOf(buffer'[1], 0, k) = LinesOf(buffer[1], 0, k)
        BY <1>1, <1>3, <2>2, <3>1
      <3>3. /\ LinesOf(stdout', 0, k) = LinesOf(stdout, 0, k)
            /\ LinesOf(stdout', 1, k) = LinesOf(stdout, 1, k)
            /\ LinesOf(buffer'[0], 0, k) = LinesOf(buffer[0], 0, k)
            /\ LinesOf(buffer'[0], 1, k) = LinesOf(buffer[0], 1, k)
        BY <1>6, <3>1
      <3>4. ChildsLines(k)' = ChildsLines(k) + (IF k = forkpc[p] THEN 1 ELSE 0)
        BY <1>0, <1>1, <3>2, <3>3
      <3>5. MainsLines(k)' = MainsLines(k)
        BY <1>0, <3>2, <3>3
      <3>6. MainsLines(k) \in Nat /\ ChildsLines(k) \in Nat
        BY <1>0
      <3>7. p # 0 /\ (p = 1 /\ k = forkpc[p] <=> k = forkpc[p])
        BY <2>2
      <3> HIDE DEF m, c
      <3>8. QED
        BY <3>2, <3>3, <3>4, <3>5, <3>6, <3>7
    <2>3. QED
      BY <2>1, <2>2
  <1>7. QED
    BY <1>5, <1>6

(* printf and write, by the parent or the child.                           *)
LEMMA ForkPrints ==
  ASSUME forkprogram \in Forks!Programs, ForkTypes, ForkControl, forkprogram' = forkprogram,
         ToTerminal' <=> ToTerminal, ~Threaded, ForkLines, NEW p \in {0, 1},
         NEW l \in Line, l[1] = p, l[2] = forkpc[p],
         NEW call \in Forks!PrintCalls \cup {"write"}, Forks!Calls(p, call),
         \/ stdout' = Append(stdout, l) /\ buffer' = buffer
            /\ (ToTerminal \/ call = "write")
         \/ /\ stdout' = stdout /\ buffer' = [buffer EXCEPT ![p] = Append(@, l)]
            /\ ~ToTerminal /\ call # "write",
         forkpc' = [forkpc EXCEPT ![p] = @ + 1], forkstate' = forkstate
  PROVE  ForkLines'
  <1>1. \A k : Twice(k)' <=> Twice(k)
    BY TwiceStays DEF Forks!PrintCalls, ForkCalls
  <1>2. \A k :
           /\ MainsLines(k) \in Nat /\ ChildsLines(k) \in Nat
           /\ MainsLines(k)' = MainsLines(k) + (IF p = 0 /\ k = forkpc[p] THEN 1 ELSE 0)
           /\ ChildsLines(k)' = ChildsLines(k) + (IF p = 1 /\ k = forkpc[p] THEN 1 ELSE 0)
           /\ LinesOf(buffer'[0], 1, k) = LinesOf(buffer[0], 1, k)
           /\ LinesOf(buffer'[1], 0, k) = LinesOf(buffer[1], 0, k)
           /\ k # forkpc[p] => LinesOf(buffer'[0], 0, k) = LinesOf(buffer[0], 0, k)
           /\ p = 0 /\ k = forkpc[p] /\ stdout' = stdout =>
                LinesOf(buffer'[0], 0, k) = LinesOf(buffer[0], 0, k) + 1
    BY ForkAdds
  <1>3. /\ Forks!Processes = {0, 1} /\ DOMAIN buffer = {0, 1}
        /\ forkpc[0] \in Nat \ {0} /\ forkpc[1] \in Nat \ {0}
        /\ \A q, k : LinesOf(buffer[0], q, k) \in Nat /\ LinesOf(buffer[1], q, k) \in Nat
                     /\ LinesOf(stdout, q, k) \in Nat
    BY ForkPair
  <1>4. /\ \A q \in {0, 1} : q # p => Forks!Printed(q)' = Forks!Printed(q)
        /\ call = "write" => Forks!Printed(p)' = Forks!Printed(p)
        /\ call # "write" => Forks!Printed(p)' = Forks!Printed(p) \cup {forkpc[p]}
        /\ \A q \in {0, 1} : \A k \in Forks!Printed(q) : k \in Nat /\ k < forkpc[q]
        /\ \A q \in {0, 1} : \A k \in Nat :
             k >= forkpc'[q] => k >= forkpc[q] /\ (q = p => k # forkpc[p])
    BY <1>3, PrintedGoesOn DEF Forks!PrintCalls
  <1>5. forkstate[p] = "running" /\ (call = "write" => p = 0)
    BY <1>3, ForkCall
  <1>6. BuffersEmpty'
    <2>1. CASE buffer' = buffer
      BY <2>1 DEF ForkLines, BuffersEmpty
    <2>2. CASE ~ToTerminal /\ buffer' = [buffer EXCEPT ![p] = Append(@, l)]
      <3>1. \A q \in {0, 1} : q # p => buffer'[q] = buffer[q]
        BY <1>3, <2>2
      <3>2. QED
        BY <1>5, <2>2, <3>1 DEF ForkLines, BuffersEmpty
    <2>3. QED
      BY <2>1, <2>2
  <1>7. ChildsOnce'
    <2>1. ASSUME NEW k \in Forks!Printed(1)' PROVE ChildsLines(k)' = 1
      <3>1. CASE p = 1 /\ k = forkpc[p]
        <4>1. k = forkpc[1] /\ k \in Nat /\ k >= forkpc[1]
          BY <1>3, <3>1
        <4>2. ChildsLines(k) = 0
          BY <4>1 DEF ForkLines, ChildsOnce
        <4>3. QED
          BY <1>2, <3>1, <4>2
      <3>2. CASE ~(p = 1 /\ k = forkpc[p])
        <4>1. k \in Forks!Printed(1)
          BY <1>4, <2>1, <3>2
        <4>2. QED
          BY <1>2, <3>2, <4>1 DEF ForkLines, ChildsOnce
      <3>3. QED
        BY <3>1, <3>2
    <2>2. ASSUME NEW k \in Nat, k >= forkpc'[1] PROVE ChildsLines(k)' = 0
      <3>1. k >= forkpc[1] /\ ~(p = 1 /\ k = forkpc[p])
        BY <1>4, <2>2
      <3>2. QED
        BY <1>2, <3>1 DEF ForkLines, ChildsOnce
    <2>3. ASSUME NEW k \in Nat PROVE LinesOf(buffer'[0], 1, k) = 0
      BY <1>2 DEF ForkLines, ChildsOnce
    <2>4. QED
      BY <2>1, <2>2, <2>3 DEF ChildsOnce
  <1>8. MainsCopied'
    <2>1. ASSUME NEW k \in Forks!Printed(0)'
          PROVE  /\ MainsLines(k)' = IF Twice(k) THEN 2 ELSE 1
                 /\ ~ToTerminal /\ forkstate[0] = "running" => LinesOf(buffer'[0], 0, k) = 1
                 /\ ~ToTerminal /\ forkstate[1] = "running"
                      => LinesOf(buffer'[1], 0, k) = IF Twice(k) THEN 1 ELSE 0
      <3>1. CASE p = 0 /\ k = forkpc[p]
        <4>1. MainsLines(k) = 0 /\ k \in Nat
          BY <1>3, <3>1 DEF ForkLines, MainsCopied
        <4>2. LinesOf(buffer[0], 0, k) = 0 /\ LinesOf(buffer[1], 0, k) = 0
          BY <1>3, <4>1 DEF MainsLines
        <4>3. ~Twice(k)
          BY <1>3, <3>1 DEF Twice
        <4>4. call # "write"
          <5>1. CASE call = "write"
            <6>1. k \in Forks!Printed(0)
              BY <1>4, <2>1, <3>1, <5>1
            <6>2. QED
              BY <1>3, <1>4, <3>1, <6>1
          <5>2. QED
            BY <5>1
        <4>5. ~ToTerminal => stdout' = stdout
          BY <4>4
        <4>6. QED
          BY <1>2, <3>1, <4>1, <4>2, <4>3, <4>5
      <3>2. CASE ~(p = 0 /\ k = forkpc[p])
        <4>1. k \in Forks!Printed(0)
          BY <1>4, <2>1, <3>2
        <4>2. LinesOf(buffer'[0], 0, k) = LinesOf(buffer[0], 0, k)
          <5>1. CASE p = 0
            BY <1>2, <3>2, <5>1
          <5>2. CASE p = 1
            <6>1. buffer'[0] = buffer[0]
              BY <1>3, <5>2
            <6>2. QED
              BY <6>1
          <5>3. QED
            BY <5>1, <5>2
        <4>3. MainsLines(k)' = MainsLines(k)
          BY <1>2, <3>2
        <4>4. QED
          BY <1>2, <4>1, <4>2, <4>3 DEF ForkLines, MainsCopied
      <3>3. QED
        BY <3>1, <3>2
    <2>2. ASSUME NEW k \in Nat, k >= forkpc'[0] PROVE MainsLines(k)' = 0
      <3>1. k >= forkpc[0] /\ ~(p = 0 /\ k = forkpc[p])
        BY <1>4, <2>2
      <3>2. QED
        BY <1>2, <3>1 DEF ForkLines, MainsCopied
    <2>3. QED
      BY <1>1, <2>1, <2>2 DEF MainsCopied
  <1>9. QED
    BY <1>6, <1>7, <1>8 DEF ForkLines


(* A call that writes nothing: the lines stay where they are.              *)
LEMMA ForkQuiet ==
  ASSUME forkprogram \in Forks!Programs, ForkTypes, forkprogram' = forkprogram,
         ToTerminal' <=> ToTerminal, ~Threaded, ForkLines, NEW p \in {0, 1},
         NEW call, Forks!Calls(p, call), call \notin Forks!PrintCalls \cup {"exec"},
         call \in ForkCalls => forkstate[1] = "absent",
         forkpc' = [forkpc EXCEPT ![p] = @ + 1], forkstate' = forkstate,
         buffer' = buffer, stdout' = stdout
  PROVE  ForkLines'
  <1>1. \A k : Twice(k)' <=> Twice(k)
    <2>1. CASE call \in ForkCalls
      BY <2>1 DEF Twice
    <2>2. CASE call \notin ForkCalls
      BY <2>2, TwiceStays
    <2>3. QED
      BY <2>1, <2>2
  <1>2. \A k : MainsLines(k)' = MainsLines(k) /\ ChildsLines(k)' = ChildsLines(k)
    BY DEF MainsLines, ChildsLines
  <1>3. Forks!Processes = {0, 1}
    BY ForkPair
  <1>4. /\ Forks!Printed(0)' = Forks!Printed(0) /\ Forks!Printed(1)' = Forks!Printed(1)
        /\ \A q \in {0, 1} : \A k \in Nat : k >= forkpc'[q] => k >= forkpc[q]
    BY <1>3, PrintedGoesOn
  <1>5. BuffersEmpty' /\ ChildsOnce' /\ MainsCopied'
    BY <1>1, <1>2, <1>4 DEF ForkLines, BuffersEmpty, ChildsOnce, MainsCopied
  <1>6. QED
    BY <1>5 DEF ForkLines

(* fork copies the lines in the buffer of main.                            *)
LEMMA ForkForks ==
  ASSUME forkprogram \in Forks!Programs, ForkTypes, ForkControl, forkprogram' = forkprogram,
         ToTerminal' <=> ToTerminal, ~Threaded, ForkLines, NEW p \in {0, 1}, Forks!Fork(p)
  PROVE  ForkLines'
  <1>1. /\ Forks!Processes = {0, 1} /\ Forked = {1} /\ DOMAIN buffer = {0, 1}
        /\ forkpc[0] \in Nat \ {0} /\ forkpc[1] \in Nat \ {0}
        /\ \A q, k : /\ LinesOf(stdout, q, k) \in Nat
                     /\ LinesOf(buffer[0], q, k) \in Nat /\ LinesOf(buffer[1], q, k) \in Nat
    BY ForkPair
  <1>2. /\ p = 0 /\ Forks!Argument(p) = 1 /\ forkstate[1] = "absent" /\ forkstate[0] = "running"
    BY <1>1, ControlStarts
  <1>3. PICK call \in ForkCalls : Forks!Calls(0, call)
    BY <1>2 DEF Forks!Fork, ForkCalls
  <1>4. /\ forkpc' = [forkpc EXCEPT ![0] = @ + 1]
        /\ forkpc'[0] = forkpc[0] + 1 /\ forkpc'[1] = forkpc[1]
        /\ forkstate'[0] = "running" /\ forkstate'[1] = "running"
        /\ buffer'[0] = buffer[0] /\ buffer'[1] = buffer[0] /\ stdout' = stdout
    BY <1>1, <1>2 DEF Forks!Fork, Forks!Advance, ForkTypes
  <1>5. /\ forkpc[1] = 1 /\ forkpc'[1] = 1
        /\ Forks!Printed(1) = {} /\ Forks!Printed(1)' = {}
    <2>1. forkpc[1] = 1
      BY <1>1, <1>2 DEF ForkControl
    <2>2. QED
      BY <1>4, <2>1 DEF Forks!Printed
  <1>6. /\ Forks!Printed(0)' = Forks!Printed(0)
        /\ \A k \in Forks!Printed(0) : k \in Nat /\ k < forkpc[0]
        /\ \A k \in Nat : k >= forkpc'[0] => k >= forkpc[0]
    <2>1. call \notin Forks!PrintCalls
      BY DEF ForkCalls, Forks!PrintCalls
    <2>2. QED
      BY <1>1, <1>3, <1>4, <2>1, PrintedGoesOn
  <1>7. ASSUME NEW k \in Forks!Printed(0)
        PROVE  ~Twice(k) /\ (Twice(k)' <=> ~ToTerminal)
    <2>1. ~Twice(k)
      BY <1>2 DEF Twice
    <2>2. \E n \in 1..(forkpc'[0] - 1) : n > k /\ Code(0)[n][1] \in ForkCalls
      <3>1. forkpc[0] \in 1..(forkpc'[0] - 1) /\ forkpc[0] > k
        BY <1>1, <1>4, <1>6
      <3>2. Code(0)[forkpc[0]][1] \in ForkCalls
        BY <1>1, <1>3, ForkCall
      <3>3. QED
        BY <3>1, <3>2
    <2>3. forkstate'[1] = "running" /\ \A n \in 1..(forkpc'[1] - 1) : Code(1)[n][1] # "exec"
      BY <1>4, <1>5
    <2>4. \A n : Code(n)' = Code(n)
      BY DEF Code
    <2>5. QED
      BY <2>1, <2>2, <2>3, <2>4 DEF Twice
  <1>8. BuffersEmpty'
    BY <1>2, <1>4 DEF ForkLines, BuffersEmpty
  <1>9. ASSUME NEW k \in Nat
        PROVE  /\ LinesOf(stdout, 1, k) = 0 \/ k < 1
               /\ LinesOf(buffer[0], 1, k) = 0
    BY <1>1, <1>5 DEF ForkLines, ChildsOnce, ChildsLines
  <1>10. ChildsOnce'
    <2>1. ASSUME NEW k \in Nat, k >= forkpc'[1] PROVE ChildsLines(k)' = 0
      <3>1. LinesOf(stdout, 1, k) = 0 /\ LinesOf(buffer[0], 1, k) = 0
        BY <1>5, <1>9, <2>1
      <3>2. QED
        BY <1>4, <3>1 DEF ChildsLines
    <2>2. QED
      BY <1>4, <1>5, <1>9, <2>1 DEF ChildsOnce
  <1>11. ASSUME NEW k \in Forks!Printed(0)
         PROVE  /\ LinesOf(stdout, 0, k) + LinesOf(buffer[0], 0, k) = 1
                /\ LinesOf(buffer[0], 0, k) = IF ToTerminal THEN 0 ELSE 1
    <2>1. LinesOf(stdout, 0, k) + LinesOf(buffer[0], 0, k) + LinesOf(buffer[1], 0, k) = 1
      BY <1>7 DEF ForkLines, MainsCopied, MainsLines
    <2>2. CASE ToTerminal
      <3>1. buffer[0] = <<>> /\ buffer[1] = <<>>
        BY <2>2 DEF ForkLines, BuffersEmpty
      <3>2. LinesOf(buffer[0], 0, k) = 0 /\ LinesOf(buffer[1], 0, k) = 0
        BY <3>1, CountNone
      <3>3. QED
        BY <1>1, <2>1, <2>2, <3>2
    <2>3. CASE ~ToTerminal
      <3>1. LinesOf(buffer[0], 0, k) = 1
        BY <1>2, <2>3 DEF ForkLines, MainsCopied
      <3>2. LinesOf(stdout, 0, k) \in Nat /\ LinesOf(buffer[1], 0, k) \in Nat
        BY <1>1
      <3>3. QED
        BY <2>1, <2>3, <3>1, <3>2
    <2>4. QED
      BY <2>2, <2>3
  <1>12. ASSUME NEW k \in Forks!Printed(0)
         PROVE  /\ MainsLines(k)' = IF ToTerminal THEN 1 ELSE 2
                /\ ~ToTerminal => LinesOf(buffer'[0], 0, k) = 1
                /\ ~ToTerminal => LinesOf(buffer'[1], 0, k) = 1
    <2>1. MainsLines(k)' = LinesOf(stdout, 0, k) + LinesOf(buffer[0], 0, k)
                             + LinesOf(buffer[0], 0, k)
      BY <1>4 DEF MainsLines
    <2>2. LinesOf(stdout, 0, k) \in Nat /\ LinesOf(buffer[0], 0, k) \in Nat
      BY <1>1
    <2>3. QED
      BY <1>4, <1>11, <2>1, <2>2
  <1>13. ASSUME NEW k \in Nat, k >= forkpc'[0] PROVE MainsLines(k)' = 0
    <2>1. MainsLines(k) = 0
      BY <1>6, <1>13 DEF ForkLines, MainsCopied
    <2>2. LinesOf(stdout, 0, k) = 0 /\ LinesOf(buffer[0], 0, k) = 0
      BY <1>1, <2>1 DEF MainsLines
    <2>3. QED
      BY <1>4, <2>2 DEF MainsLines
  <1>14. MainsCopied'
    <2>1. ASSUME NEW k \in Forks!Printed(0)
          PROVE  /\ MainsLines(k)' = IF Twice(k)' THEN 2 ELSE 1
                 /\ ~ToTerminal' => LinesOf(buffer'[0], 0, k) = 1
                 /\ ~ToTerminal' => LinesOf(buffer'[1], 0, k) = IF Twice(k)' THEN 1 ELSE 0
      BY <1>7, <1>12
    <2>2. QED
      BY <1>6, <1>13, <2>1 DEF MainsCopied
  <1>15. QED
    BY <1>8, <1>10, <1>14 DEF ForkLines

(* exec drops what the child has copied from main; it has printed nothing. *)
LEMMA ForkExecs ==
  ASSUME forkprogram \in Forks!Programs, ForkTypes, ForkControl, forkprogram' = forkprogram,
         ToTerminal' <=> ToTerminal, ~Threaded, ForkLines, NEW p \in {0, 1}, Forks!Exec(p)
  PROVE  ForkLines'
  <1>1. /\ Forks!Processes = {0, 1} /\ Forked = {1} /\ DOMAIN buffer = {0, 1}
        /\ forkpc[0] \in Nat \ {0} /\ forkpc[1] \in Nat \ {0}
        /\ \A q, k : /\ LinesOf(stdout, q, k) \in Nat
                     /\ LinesOf(buffer[0], q, k) \in Nat /\ LinesOf(buffer[1], q, k) \in Nat
    BY ForkPair
  <1>2. /\ p = 1 /\ forkstate[1] = "running" /\ Code(1)[forkpc[1]][1] = "exec"
        /\ forkpc[1] \in DOMAIN Code(1) /\ Forks!Calls(1, "exec")
    BY <1>1, ForkCall DEF Forks!Exec
  <1>3. forkpc[1] = 1
    BY <1>1, <1>2, ForkShape
  <1>4. /\ forkpc' = [forkpc EXCEPT ![1] = @ + 1]
        /\ forkpc'[0] = forkpc[0] /\ forkpc'[1] = 2
        /\ forkstate' = forkstate
        /\ buffer'[0] = buffer[0] /\ buffer'[1] = <<>> /\ stdout' = stdout
    BY <1>1, <1>2, <1>3 DEF Forks!Exec, Forks!Advance, ForkTypes
  <1>5. /\ Forks!Printed(1) = {}
        /\ Forks!Printed(0)' = Forks!Printed(0)
        /\ Forks!Printed(1)' = Forks!Printed(1)
    <2>1. Forks!Printed(1) = {}
      BY <1>3 DEF Forks!Printed
    <2>2. "exec" \notin Forks!PrintCalls
      BY DEF Forks!PrintCalls
    <2>3. QED
      BY <1>1, <1>2, <1>4, <2>1, <2>2, PrintedGoesOn
  <1>6. \A k : ~Twice(k)'
    <2>1. 1 \in 1..(forkpc'[1] - 1) /\ Code(1)[1][1] = "exec" /\ Code(1)' = Code(1)
      BY <1>2, <1>3, <1>4 DEF Code
    <2>2. QED
      BY <2>1 DEF Twice
  <1>7. \A q, k : LinesOf(buffer'[1], q, k) = 0
    BY <1>4, CountNone
  <1>8. BuffersEmpty'
    BY <1>4 DEF ForkLines, BuffersEmpty
  <1>9. ChildsOnce'
    <2>1. ASSUME NEW k \in Nat, k >= 2 PROVE ChildsLines(k)' = 0
      <3>1. ChildsLines(k) = 0
        BY <1>3, <2>1 DEF ForkLines, ChildsOnce
      <3>2. LinesOf(stdout, 1, k) = 0
        BY <1>1, <3>1 DEF ChildsLines
      <3>3. QED
        BY <1>4, <1>7, <3>2 DEF ChildsLines
    <2>2. QED
      BY <1>4, <1>5, <2>1 DEF ForkLines, ChildsOnce
  <1>10. ASSUME NEW k PROVE MainsLines(k)' = LinesOf(stdout, 0, k) + LinesOf(buffer[0], 0, k)
    BY <1>1, <1>4, <1>7 DEF MainsLines
  <1>11. ASSUME NEW k \in Forks!Printed(0) PROVE MainsLines(k)' = 1
    <2>1. LinesOf(stdout, 0, k) + LinesOf(buffer[0], 0, k) + LinesOf(buffer[1], 0, k)
            = IF Twice(k) THEN 2 ELSE 1
      BY DEF ForkLines, MainsCopied, MainsLines
    <2>2. LinesOf(buffer[1], 0, k) = IF Twice(k) THEN 1 ELSE 0
      <3>1. CASE ToTerminal
        <4>1. ~Twice(k) /\ buffer[1] = <<>>
          BY <3>1 DEF Twice, ForkLines, BuffersEmpty
        <4>2. QED
          BY <4>1, CountNone
      <3>2. CASE ~ToTerminal
        BY <1>2, <3>2 DEF ForkLines, MainsCopied
      <3>3. QED
        BY <3>1, <3>2
    <2>3. LinesOf(stdout, 0, k) \in Nat /\ LinesOf(buffer[0], 0, k) \in Nat
      BY <1>1
    <2>4. QED
      BY <1>10, <2>1, <2>2, <2>3
  <1>12. ASSUME NEW k \in Nat, k >= forkpc[0] PROVE MainsLines(k)' = 0
    <2>1. MainsLines(k) = 0
      BY <1>12 DEF ForkLines, MainsCopied
    <2>2. LinesOf(stdout, 0, k) = 0 /\ LinesOf(buffer[0], 0, k) = 0
      BY <1>1, <2>1 DEF MainsLines
    <2>3. QED
      BY <1>10, <2>2
  <1>13. MainsCopied'
    <2>1. ASSUME NEW k \in Forks!Printed(0), ~ToTerminal, forkstate[0] = "running"
          PROVE  LinesOf(buffer'[0], 0, k) = 1
      BY <1>4, <2>1 DEF ForkLines, MainsCopied
    <2>2. QED
      BY <1>4, <1>5, <1>6, <1>7, <1>11, <1>12, <2>1 DEF MainsCopied
  <1>14. QED
    BY <1>8, <1>9, <1>13 DEF ForkLines

(* exit writes the buffer out.                                             *)
LEMMA ForkFlushes ==
  ASSUME forkprogram \in Forks!Programs, ForkTypes, ForkControl, forkprogram' = forkprogram,
         ToTerminal' <=> ToTerminal, ~Threaded, ForkLines, NEW p \in {0, 1},
         forkstate[p] = "running", Forks!Flush(p), Forks!Leaves(p, "exited"), forkpc' = forkpc
  PROVE  ForkLines'
  <1>1. /\ Forks!Processes = {0, 1} /\ Forked = {1} /\ DOMAIN buffer = {0, 1}
        /\ stdout \in Seq(Line) /\ buffer[0] \in Seq(Line) /\ buffer[1] \in Seq(Line)
        /\ \A q, k : /\ LinesOf(stdout, q, k) \in Nat
                     /\ LinesOf(buffer[0], q, k) \in Nat /\ LinesOf(buffer[1], q, k) \in Nat
    BY ForkPair
  <1>2. /\ forkstate'[p] = "exited"
        /\ \A q \in {0, 1} : q # p => forkstate'[q] = forkstate[q]
    BY <1>1, LeavesEffect
  <1>3. /\ stdout' = stdout \o buffer[p] /\ buffer'[p] = <<>>
        /\ \A q \in {0, 1} : q # p => buffer'[q] = buffer[q]
    BY <1>1, FlushEffect
  <1>4. \A k : Twice(k)' <=> Twice(k)
    <2>1. forkstate'[1] \in {"running", "exited"} <=> forkstate[1] \in {"running", "exited"}
      BY <1>2
    <2>2. QED
      BY <2>1, TwiceStays
  <1>5. /\ Forks!Printed(0)' = Forks!Printed(0) /\ Forks!Printed(1)' = Forks!Printed(1)
    BY PrintedStays
  <1>6. /\ \A q, k : LinesOf(stdout', q, k) = LinesOf(stdout, q, k) + LinesOf(buffer[p], q, k)
        /\ \A q, k : LinesOf(buffer'[p], q, k) = 0
    <2>1. buffer[p] \in Seq(Line)
      BY <1>1
    <2>2. QED
      BY <1>1, <1>3, <2>1, CountJoin, CountNone
  <1>7. ASSUME NEW k PROVE MainsLines(k)' = MainsLines(k)
    <2>1. /\ MainsLines(k) = LinesOf(stdout, 0, k) + LinesOf(buffer[0], 0, k)
                               + LinesOf(buffer[1], 0, k)
          /\ MainsLines(k)' = LinesOf(stdout', 0, k) + LinesOf(buffer'[0], 0, k)
                                + LinesOf(buffer'[1], 0, k)
      BY DEF MainsLines
    <2>2. CASE p = 0
      <3>1. buffer'[1] = buffer[1]
        BY <1>3, <2>2
      <3>2. QED
        BY <1>1, <1>6, <2>1, <2>2, <3>1
    <2>3. CASE p = 1
      <3>1. buffer'[0] = buffer[0]
        BY <1>3, <2>3
      <3>2. QED
        BY <1>1, <1>6, <2>1, <2>3, <3>1
    <2>4. QED
      BY <2>2, <2>3
  <1>8. ASSUME NEW k \in Nat PROVE ChildsLines(k)' = ChildsLines(k)
    <2>1. /\ ChildsLines(k) = LinesOf(stdout, 1, k) + LinesOf(buffer[1], 1, k)
          /\ ChildsLines(k)' = LinesOf(stdout', 1, k) + LinesOf(buffer'[1], 1, k)
      BY DEF ChildsLines
    <2>2. CASE p = 0
      <3>1. buffer'[1] = buffer[1] /\ LinesOf(buffer[0], 1, k) = 0
        BY <1>3, <2>2 DEF ForkLines, ChildsOnce
      <3>2. QED
        BY <1>1, <1>6, <2>1, <2>2, <3>1
    <2>3. CASE p = 1
      BY <1>1, <1>6, <2>1, <2>3
    <2>4. QED
      BY <2>2, <2>3
  <1>9. BuffersEmpty'
    BY <1>2, <1>3 DEF ForkLines, BuffersEmpty
  <1>10. ChildsOnce'
    <2>1. \A k \in Forks!Printed(1) : k \in Nat
      BY DEF Forks!Printed
    <2>2. \A k \in Nat : LinesOf(buffer'[0], 1, k) = 0
      BY <1>3, <1>6 DEF ForkLines, ChildsOnce
    <2>3. QED
      BY <1>5, <1>8, <2>1, <2>2 DEF ForkLines, ChildsOnce
  <1>11. MainsCopied'
    <2>1. ASSUME NEW k \in Forks!Printed(0)
          PROVE  /\ ~ToTerminal /\ forkstate'[0] = "running" => LinesOf(buffer'[0], 0, k) = 1
                 /\ ~ToTerminal /\ forkstate'[1] = "running"
                      => LinesOf(buffer'[1], 0, k) = IF Twice(k) THEN 1 ELSE 0
      BY <1>2, <1>3 DEF ForkLines, MainsCopied
    <2>2. QED
      BY <1>4, <1>5, <1>7, <2>1 DEF ForkLines, MainsCopied
  <1>12. QED
    BY <1>9, <1>10, <1>11 DEF ForkLines


LEMMA ForkStep ==
  ASSUME forkprogram \in Forks!Programs, ForkTypes, ForkControl, Forks!Next, ~Threaded,
         ForkLines, ~SomebodyKilled'
  PROVE  ForkLines'
  <1>1. PICK p \in Forks!Processes :
          Forks!Step(p) \/ Forks!StartFails(p) \/ Forks!WriteFails(p)
            \/ Forks!ExecFails(p) \/ Forks!Kill(p)
    BY DEF Forks!Next
  <1>2. forkprogram' = forkprogram /\ (ToTerminal' <=> ToTerminal)
    BY StaysProgram
  <1>3. p \in {0, 1} /\ Forked = {1}
    BY ForkPair
  <1>4. ASSUME NEW call \in {"set", "wait", "fork"}, Forks!Calls(p, call),
               call = "fork" => forkstate[1] = "absent", Forks!Advance(p),
               buffer' = buffer, stdout' = stdout, forkstate' = forkstate
        PROVE  ForkLines'
    <2>1. call \notin Forks!PrintCalls \cup {"exec"} /\ (call \in ForkCalls => call = "fork")
      BY DEF Forks!PrintCalls, ForkCalls
    <2>2. QED
      BY <1>2, <1>3, <1>4, <2>1, ForkQuiet DEF Forks!Advance
  <1>5. ASSUME forkstate[p] = "running", Forks!Flush(p), Forks!Leaves(p, "exited"),
               forkpc' = forkpc
        PROVE  ForkLines'
    BY <1>2, <1>3, <1>5, ForkFlushes
  <1>6. ASSUME Forks!ExecFails(p) \/ Forks!Kill(p) PROVE FALSE
    <2>1. Forks!Leaves(p, "killed") /\ forkstate[p] = "running"
      BY <1>6 DEF Forks!ExecFails, Forks!Kill, Forks!Calls
    <2>2. forkstate'[p] = "killed"
      BY <2>1, LeavesEffect
    <2>3. QED
      BY <1>2, <2>2 DEF SomebodyKilled, Forks!Processes
  <1>7. ASSUME Forks!Printf(p) PROVE ForkLines'
    <2>1. PICK l \in Line, call \in Forks!PrintCalls :
             /\ l[1] = p /\ l[2] = forkpc[p] /\ Forks!Calls(p, call)
             /\ ToTerminal => stdout' = Append(stdout, l) /\ buffer' = buffer
             /\ ~ToTerminal =>
                  /\ stdout' = stdout
                  /\ buffer' = [buffer EXCEPT ![Forks!Owner(p)] = Append(@, l)]
             /\ forkpc' = [forkpc EXCEPT ![p] = @ + 1]
             /\ forkstate' = forkstate
      BY <1>7, PrintfLine
    <2>2. Forks!Owner(p) = p
      BY OwnerIs
    <2>3. call # "write"
      BY DEF Forks!PrintCalls
    <2>4. \/ /\ stdout' = Append(stdout, l) /\ buffer' = buffer
             /\ ToTerminal \/ call = "write"
          \/ /\ stdout' = stdout /\ buffer' = [buffer EXCEPT ![p] = Append(@, l)]
             /\ ~ToTerminal /\ call # "write"
      BY <2>1, <2>2, <2>3
    <2>5. call \in Forks!PrintCalls \cup {"write"}
      OBVIOUS
    <2>6. QED
      BY <1>2, <1>3, <2>1, <2>4, <2>5, ForkPrints
  <1>8. ASSUME Forks!Write(p) PROVE ForkLines'
    <2>1. Forks!Calls(p, "write")
      BY <1>8 DEF Forks!Write
    <2>2. <<p, forkpc[p], 0>> \in Line
      BY <2>1, ForkCall, LineTypes
    <2>3. /\ stdout' = Append(stdout, <<p, forkpc[p], 0>>) /\ buffer' = buffer
          /\ forkpc' = [forkpc EXCEPT ![p] = @ + 1] /\ forkstate' = forkstate
      BY <1>8 DEF Forks!Write, Forks!Advance
    <2> DEFINE l == <<p, forkpc[p], 0>>
    <2>4. l \in Line /\ l[1] = p /\ l[2] = forkpc[p] /\ stdout' = Append(stdout, l)
      BY <2>2, <2>3
    <2> HIDE DEF l
    <2>5. QED
      BY <1>2, <1>3, <2>1, <2>3, <2>4, ForkPrints
  <1>9. ASSUME Forks!Set(p) \/ Forks!Wait(p) PROVE ForkLines'
    BY <1>4, <1>9 DEF Forks!Set, Forks!Wait
  <1>10. ASSUME Forks!Fork(p) PROVE ForkLines'
    BY <1>2, <1>3, <1>10, ForkForks
  <1>11. ~Forks!Create(p)
    <2>1. \A n \in DOMAIN Code(0) : Code(0)[n][1] \notin {"create", "created"}
      BY ForkShape
    <2>2. QED
      BY <2>1, ForkCall DEF Forks!Create
  <1>12. ASSUME Forks!Exec(p) PROVE ForkLines'
    BY <1>2, <1>3, <1>12, ForkExecs
  <1>13. ASSUME Forks!Exit(p) \/ Forks!WriteFails(p) PROVE ForkLines'
    BY <1>5, <1>13 DEF Forks!Exit, Forks!WriteFails, Forks!Calls
  <1>14. ASSUME Forks!StartFails(p) PROVE ForkLines'
    <2>1. CASE Forks!Calls(p, "fork_or_exit")
                 /\ Forks!Flush(p) /\ Forks!Leaves(p, "exited") /\ forkpc' = forkpc
      BY <1>5, <2>1 DEF Forks!Calls
    <2>2. CASE Forks!Calls(p, "fork") /\ Forks!Advance(p) /\ forkstate' = forkstate
                 /\ buffer' = buffer /\ stdout' = stdout
      <3>1. /\ p = 0 /\ forkstate[0] = "running" /\ forkpc[0] \in DOMAIN Code(0)
            /\ Code(0)[forkpc[0]][1] = "fork" /\ Code(0)[forkpc[0]][2] \in Forked
            /\ forkpc[0] \in Nat
        BY <2>2, ForkCall
      <3>2. Starts(forkprogram, forkpc[0], 1)
        BY <1>3, <3>1 DEF Starts, StartCalls, ForkCalls, CreateCalls, Code
      <3>3. forkstate[1] = "absent"
        BY <1>3, <3>1, <3>2 DEF ForkControl
      <3>4. QED
        BY <1>4, <2>2, <3>3
    <2>3. ~Forks!Calls(p, "create")
      <3>1. \A n \in DOMAIN Code(0) : Code(0)[n][1] \notin {"create", "created"}
        BY ForkShape
      <3>2. QED
        BY <3>1, ForkCall
    <2>4. QED
      BY <1>14, <2>1, <2>2, <2>3 DEF Forks!StartFails
  <1>15. QED
    BY <1>1, <1>6, <1>7, <1>8, <1>9, <1>10, <1>11, <1>12, <1>13, <1>14 DEF Forks!Step

LEMMA ChildStep ==
  ASSUME forkprogram \in Forks!Programs, ForkTypes, ForkControl, Forks!Next, ChildRunsOut
  PROVE  ChildRunsOut'
  <1>1. PICK p \in Forks!Processes :
          Forks!Step(p) \/ Forks!StartFails(p) \/ Forks!WriteFails(p)
            \/ Forks!ExecFails(p) \/ Forks!Kill(p)
    BY DEF Forks!Next
  <1>2. forkprogram' = forkprogram /\ (Threaded' <=> Threaded) /\ Code(1)' = Code(1)
    BY StaysProgram DEF Code
  <1>3. SUFFICES ASSUME ~Threaded, forkstate'[1] = "exited" PROVE forkpc'[1] > Len(Code(1))
    BY <1>2 DEF ChildRunsOut
  <1>4. Forks!Processes = {0, 1} /\ forkpc[1] \in Nat
    BY <1>3, ForkPair
  <1>5. /\ forkstate[p] = "running"
        /\ \/ forkstate' = forkstate
           \/ /\ p = 0 /\ forkstate[Forks!Argument(p)] = "absent"
              /\ forkstate' = [forkstate EXCEPT ![Forks!Argument(p)] = "running"]
           \/ Forks!Leaves(p, "exited") \/ Forks!Leaves(p, "killed")
    BY <1>1, StateSteps
  <1>6. CASE p = 0
    <2>1. forkpc'[1] = forkpc[1]
      BY <1>1, <1>4, <1>6
      DEF ForkTypes, Forks!Advance, Forks!Step, Forks!StartFails, Forks!WriteFails,
          Forks!ExecFails, Forks!Kill, Forks!Printf, Forks!Write, Forks!Set, Forks!Fork,
          Forks!Create, Forks!Wait, Forks!Exec, Forks!Exit
    <2>2. forkstate[1] = "exited"
      <3>1. CASE forkstate' = forkstate
        BY <1>3, <3>1
      <3>2. CASE forkstate' = [forkstate EXCEPT ![Forks!Argument(p)] = "running"]
        BY <1>3, <1>4, <3>2 DEF ForkTypes
      <3>3. CASE Forks!Leaves(p, "exited") \/ Forks!Leaves(p, "killed")
        BY <1>3, <1>4, <1>5, <1>6, <3>3, LeavesEffect
      <3>4. QED
        BY <1>5, <3>1, <3>2, <3>3
    <2>3. QED
      BY <1>3, <2>1, <2>2 DEF ChildRunsOut
  <1>7. CASE p = 1
    <2>1. Forks!Leaves(p, "exited") /\ ~Forks!Leaves(p, "killed")
      BY <1>3, <1>4, <1>5, <1>7, LeavesEffect
    <2>2. ~Forks!Calls(p, "write") /\ ~Forks!Calls(p, "fork") /\ ~Forks!Calls(p, "fork_or_exit")
          /\ ~Forks!Calls(p, "create") /\ ~Forks!Calls(p, "created")
      BY <1>7, ForkCall
    <2>3. forkstate' # forkstate
      BY <1>3, <1>5, <1>7
    <2>4. forkstate'[1] # "running" /\ p # 0
      BY <1>3, <1>7
    <2>5. Forks!Exit(p)
      <3>1. ~Forks!ExecFails(p) /\ ~Forks!Kill(p)
        BY <2>1 DEF Forks!ExecFails, Forks!Kill
      <3>2. ~Forks!StartFails(p) /\ ~Forks!WriteFails(p)
        BY <2>2 DEF Forks!StartFails, Forks!WriteFails
      <3>3. ~Forks!Printf(p) /\ ~Forks!Write(p) /\ ~Forks!Set(p)
        BY <2>3 DEF Forks!Printf, Forks!Write, Forks!Set
      <3>4. ~Forks!Wait(p) /\ ~Forks!Exec(p)
        BY <2>3 DEF Forks!Wait, Forks!Exec
      <3>5. ~Forks!Fork(p)
        BY <2>2 DEF Forks!Fork
      <3>6. ~Forks!Create(p)
        BY <2>2 DEF Forks!Create
      <3>7. QED
        BY <1>1, <3>1, <3>2, <3>3, <3>4, <3>5, <3>6 DEF Forks!Step
    <2>6. QED
      BY <1>7, <2>5 DEF Forks!Exit, Code
  <1>8. QED
    BY <1>4, <1>6, <1>7


LEMMA MainLastStep ==
  ASSUME forkprogram \in Forks!Programs, ForkTypes, ForkControl, Forks!Next, LinesKept,
         ~SomebodyKilled'
  PROVE  MainLast'
  <1> DEFINE L == Len(Code(0))
             Last(pp, st, b, s) ==
               /\ st[0] = "exited" => pp[0] = L + 1
               /\ pp[0] = L + 1 =>
                    IF ~ToTerminal /\ st[0] = "running" THEN LastByMain(b[0]) ELSE LastByMain(s)
  <1>1. PICK p \in Forks!Processes :
          Forks!Step(p) \/ Forks!StartFails(p) \/ Forks!WriteFails(p)
            \/ Forks!ExecFails(p) \/ Forks!Kill(p)
    BY DEF Forks!Next
  <1>2. /\ forkprogram' = forkprogram /\ Code(0)' = Code(0)
        /\ ToTerminal' <=> ToTerminal
    BY StaysProgram DEF Code
  <1>3. SUFFICES ASSUME forkprogram \in Forks!PrintAfterWaiting
                 PROVE  Last(forkpc', forkstate', buffer', stdout')
    BY <1>2 DEF MainLast
  <1>4. Last(forkpc, forkstate, buffer, stdout)
    BY <1>3 DEF LinesKept, MainLast
  <1> HIDE DEF Last
  <1>5. /\ L \in Nat \ {0} /\ Code(0)[L][1] = "print" /\ DOMAIN Code(0) = 1..L
        /\ \A n \in 1..L : Code(0)[n][1] \notin {"fork_or_exit", "write"}
        /\ \A c \in Forked : \E n \in 1..L : Waits(forkprogram, n, c)
    <2>1. PrintsLast(forkprogram) /\ DOMAIN Code(0) = 1..L
      BY <1>3, ProgramsMade, ForkShape
    <2>2. QED
      BY <2>1 DEF PrintsLast, Calls0, Code, Forked
  <1> HIDE DEF L
  <1>6. /\ Forks!Processes = {0} \cup Forked /\ 0 \notin Forked /\ 0 \in Forks!Processes
        /\ DOMAIN forkpc = Forks!Processes /\ forkpc[0] \in Nat \ {0} /\ forkpc[0] <= L + 1
        /\ DOMAIN forkstate = Forks!Processes
        /\ stdout \in Seq(Line) /\ buffer[0] \in Seq(Line) /\ DOMAIN buffer = Forks!Processes
    BY ForkShape DEF ForkTypes, L
  <1>7. ASSUME forkpc[0] >= L, NEW c \in Forked PROVE forkstate[c] # "running"
    <2>1. PICK n \in 1..L : Waits(forkprogram, n, c)
      BY <1>5
    <2>2. Code(0)[n][1] = "wait"
      BY <2>1 DEF Waits, Code
    <2>3. n # L
      BY <1>5, <2>2
    <2>4. n \in 1..(forkpc[0] - 1)
      BY <1>5, <1>6, <1>7, <2>3
    <2>5. QED
      BY <2>1, <2>4 DEF ForkControl
  <1>8. forkstate[p] = "running"
    BY <1>1, StateSteps
  <1>9. CASE p # 0
    <2>1. forkpc[0] < L
      BY <1>5, <1>6, <1>7, <1>8, <1>9
    <2>2. forkpc'[0] = forkpc[0]
      BY <1>1, <1>6, <1>9
      DEF Forks!Advance, Forks!Step, Forks!StartFails, Forks!WriteFails,
          Forks!ExecFails, Forks!Kill, Forks!Printf, Forks!Write, Forks!Set, Forks!Fork,
          Forks!Create, Forks!Wait, Forks!Exec, Forks!Exit
    <2>3. forkstate[0] # "exited"
      BY <1>4, <1>5, <1>6, <2>1 DEF Last
    <2>4. forkstate'[0] = forkstate[0]
      BY <1>1, <1>6, <1>8, <1>9, StateSteps, LeavesEffect
    <2>5. QED
      BY <1>5, <1>6, <2>1, <2>2, <2>3, <2>4 DEF Last
  <1>10. CASE p = 0
    <2>1. ASSUME NEW call, call \notin Forks!PrintCalls, Forks!Calls(p, call), Forks!Advance(p)
          PROVE  forkpc'[0] # L + 1
      <3>1. forkpc'[0] = forkpc[0] + 1
        BY <1>6, <1>10, <2>1 DEF Forks!Advance
      <3>2. Code(0)[forkpc[0]][1] = call
        BY <1>10, <2>1, ForkCall
      <3>3. forkpc[0] # L
        BY <1>5, <2>1, <3>2 DEF Forks!PrintCalls
      <3>4. QED
        BY <1>5, <1>6, <3>1, <3>3
    <2>2. ASSUME NEW call, call \notin Forks!PrintCalls, Forks!Calls(p, call), Forks!Advance(p),
                 forkstate'[0] = "running"
          PROVE  Last(forkpc', forkstate', buffer', stdout')
      BY <2>1, <2>2 DEF Last
    <2>3. ASSUME Forks!ExecFails(p) \/ Forks!Kill(p) PROVE FALSE
      <3>1. Forks!Leaves(p, "killed")
        BY <2>3 DEF Forks!ExecFails, Forks!Kill
      <3>2. forkstate'[p] = "killed"
        BY <1>8, <3>1, LeavesEffect
      <3>3. QED
        BY <1>2, <3>2 DEF SomebodyKilled, Forks!Processes
    <2>4. ASSUME Forks!Printf(p) PROVE Last(forkpc', forkstate', buffer', stdout')
      <3>1. PICK l \in Line :
               /\ l[1] = p
               /\ ToTerminal => stdout' = Append(stdout, l) /\ buffer' = buffer
               /\ ~ToTerminal =>
                    /\ stdout' = stdout
                    /\ buffer' = [buffer EXCEPT ![Forks!Owner(p)] = Append(@, l)]
               /\ forkstate' = forkstate
        BY <2>4, PrintfLine
      <3>2. Forks!Owner(p) = 0
        BY <1>10, OwnerIs
      <3>3. CASE ToTerminal
        <4>1. LastByMain(Append(stdout, l))
          BY <1>6, <1>10, <3>1, CountAppend
        <4>2. stdout' = Append(stdout, l)
          BY <3>1, <3>3
        <4>3. QED
          BY <1>8, <1>10, <3>1, <3>3, <4>1, <4>2 DEF Last
      <3>4. CASE ~ToTerminal
        <4>1. buffer'[0] = Append(buffer[0], l)
          BY <1>6, <3>1, <3>2, <3>4
        <4>2. LastByMain(buffer'[0])
          BY <1>6, <1>10, <3>1, <4>1, CountAppend
        <4>3. QED
          BY <1>8, <1>10, <3>1, <3>4, <4>2 DEF Last
      <3>5. QED
        BY <3>3, <3>4
    <2>5. ASSUME Forks!Exit(p) PROVE Last(forkpc', forkstate', buffer', stdout')
      <3>1. forkpc[0] > L /\ forkpc' = forkpc /\ Forks!Flush(p) /\ Forks!Leaves(p, "exited")
        BY <1>10, <2>5 DEF Forks!Exit, Code, L
      <3>2. forkpc[0] = L + 1
        BY <1>5, <1>6, <3>1
      <3>3. forkstate'[0] = "exited"
        BY <1>8, <1>10, <3>1, LeavesEffect
      <3>4. stdout' = stdout \o buffer[0]
        BY <1>10, <3>1, FlushEffect
      <3>5. LastByMain(stdout')
        <4>1. CASE ToTerminal
          <5>1. buffer[0] = <<>>
            BY <4>1 DEF LinesKept, ThreadLines, ForkLines, BuffersEmpty
          <5>2. LastByMain(stdout)
            BY <1>4, <3>2, <4>1 DEF Last
          <5>3. QED
            BY <1>6, <3>4, <5>1, <5>2, CountJoin
        <4>2. CASE ~ToTerminal
          <5>1. LastByMain(buffer[0])
            BY <1>4, <1>8, <1>10, <3>2, <4>2 DEF Last
          <5>2. QED
            BY <1>6, <3>4, <5>1, CountJoin
        <4>3. QED
          BY <4>1, <4>2
      <3>6. QED
        BY <3>1, <3>2, <3>3, <3>5 DEF Last
    <2>6. ~Forks!WriteFails(p) /\ ~Forks!Write(p) /\ ~Forks!Set(p) /\ ~Forks!Exec(p)
      <3>1. ~Forks!Calls(p, "write") /\ ~Forks!Calls(p, "set") /\ ~Forks!Calls(p, "exec")
        BY <1>5, <1>10, ForkCall
      <3>2. QED
        BY <3>1 DEF Forks!WriteFails, Forks!Write, Forks!Set, Forks!Exec
    <2>7. ~Forks!Calls(p, "fork_or_exit")
      BY <1>5, <1>10, ForkCall
    <2>8. ASSUME Forks!Fork(p) \/ Forks!Create(p) \/ Forks!Wait(p) \/ Forks!StartFails(p)
          PROVE  Last(forkpc', forkstate', buffer', stdout')
      <3>1. PICK call \in {"fork", "create", "created", "wait"} :
              Forks!Calls(p, call) /\ Forks!Advance(p)
        BY <2>7, <2>8 DEF Forks!Fork, Forks!Create, Forks!Wait, Forks!StartFails
      <3>2. call \notin Forks!PrintCalls
        BY DEF Forks!PrintCalls
      <3>3. forkpc'[0] # L + 1
        BY <2>1, <3>1, <3>2
      <3>4. forkstate'[0] = "running"
        <4>1. CASE Forks!Wait(p) \/ Forks!StartFails(p)
          BY <1>8, <1>10, <2>7, <4>1 DEF Forks!Wait, Forks!StartFails
        <4>2. CASE Forks!Fork(p) \/ Forks!Create(p)
          <5>1. Forks!Argument(p) # 0
            BY <1>6, <3>1, ForkCall
          <5>2. forkstate' = [forkstate EXCEPT ![Forks!Argument(p)] = "running"]
            BY <4>2 DEF Forks!Fork, Forks!Create
          <5>3. QED
            BY <1>6, <1>8, <1>10, <5>1, <5>2
        <4>3. QED
          BY <2>8, <4>1, <4>2
      <3>5. QED
        BY <3>3, <3>4 DEF Last
    <2>9. QED
      BY <1>1, <2>3, <2>4, <2>5, <2>6, <2>8 DEF Forks!Step
  <1>11. QED
    BY <1>9, <1>10

LEMMA ForkInvStep ==
  ASSUME ForkInv, [Forks!Next]_(Forks!vars)
  PROVE  ForkInv'
  <1>1. CASE Forks!Next
    <2>1. forkprogram' \in Forks!Programs /\ ForkTypes' /\ ForkControl' /\ ChildRunsOut'
      BY <1>1, StaysProgram, TypesStep, ControlStep, ChildStep DEF ForkInv
    <2>2. ASSUME ~SomebodyKilled' PROVE LinesKept'
      <3>1. ~SomebodyKilled
        BY <1>1, <2>2, KilledStays DEF ForkInv
      <3>2. /\ forkprogram \in Forks!Programs /\ ForkTypes /\ ForkControl /\ LinesKept
            /\ Threaded' <=> Threaded
        BY <1>1, <3>1, StaysProgram DEF ForkInv
      <3>3. Threaded => ThreadLines'
        BY <1>1, <2>2, <3>2, ThreadStep DEF LinesKept
      <3>4. ~Threaded => ForkLines'
        BY <1>1, <2>2, <3>2, ForkStep DEF LinesKept
      <3>5. MainLast'
        BY <1>1, <2>2, <3>2, MainLastStep
      <3>6. QED
        BY <3>2, <3>3, <3>4, <3>5 DEF LinesKept
    <2>3. QED
      BY <2>1, <2>2 DEF ForkInv
  <1>2. CASE UNCHANGED Forks!vars
    <2>1. /\ forkprogram' = forkprogram /\ terminal' = terminal /\ forkpc' = forkpc
          /\ forkstate' = forkstate /\ glob' = glob /\ buffer' = buffer /\ stdout' = stdout
      BY <1>2 DEF Forks!vars
    <2>2. /\ ForkTypes' <=> ForkTypes
          /\ ForkControl' <=> ForkControl
          /\ ChildRunsOut' <=> ChildRunsOut
          /\ SomebodyKilled' <=> SomebodyKilled
      BY <2>1 DEF ForkTypes, ForkControl, ChildRunsOut, SomebodyKilled, Code, Forked, Threaded,
                  Forks!Processes, HasSet
    <2>3. /\ Threaded' <=> Threaded
          /\ ThreadLines' <=> ThreadLines
          /\ ForkLines' <=> ForkLines
          /\ MainLast' <=> MainLast
      BY <2>1
      DEF ThreadLines, ForkLines, BuffersEmpty, ChildsOnce, MainsCopied, MainLast, SharedLines,
          MainsLines, ChildsLines, Twice, Forks!Printed, Forks!Processes, Code, Threaded,
          ToTerminal
    <2>4. LinesKept' <=> LinesKept
      BY <2>3 DEF LinesKept
    <2>5. QED
      BY <2>1, <2>2, <2>4 DEF ForkInv
  <1>3. QED
    BY <1>1, <1>2

LEMMA TwiceIsInherited ==
  ASSUME ForkInv, ~Threaded, forkstate[1] \in {"absent", "exited"}, NEW k
  PROVE  Twice(k) <=> Forks!Inherited(k)
  <1>1. /\ Forked = {1} /\ forkpc[1] \in Nat /\ forkpc[1] <= Len(Code(1)) + 1
        /\ Len(Code(1)) \in Nat /\ DOMAIN Code(1) = 1..Len(Code(1))
    BY ForkShape, ForkPair DEF ForkInv, ForkTypes
  <1>2. ASSUME forkstate[1] = "exited" PROVE 1..(forkpc[1] - 1) = DOMAIN Code(1)
    BY <1>1, <1>2 DEF ForkInv, ChildRunsOut
  <1>3. Forks!Inherited(k) <=>
          /\ ~ToTerminal
          /\ \E n \in 1..(forkpc[0] - 1) : n > k /\ Code(0)[n][1] \in ForkCalls
          /\ \E c \in Forked :
               forkstate[c] = "exited" /\ \A n \in DOMAIN Code(c) : Code(c)[n][1] # "exec"
    BY DEF Forks!Inherited, ToTerminal, Threaded, Code, Forked, ForkCalls
  <1>4. CASE forkstate[1] = "exited"
    BY <1>1, <1>2, <1>3, <1>4 DEF Twice
  <1>5. CASE forkstate[1] = "absent"
    BY <1>1, <1>3, <1>5 DEF Twice
  <1>6. QED
    BY <1>4, <1>5

LEMMA ForkInvLines == ForkInv => Forks!LinesPrinted
  <1> SUFFICES ASSUME ForkInv,
                      \A p \in Forks!Processes : forkstate[p] \in {"absent", "exited"}
               PROVE  /\ \A p \in Forks!Processes : \A k \in Forks!Printed(p) :
                           LinesOf(stdout, p, k) = IF p = 0 /\ Forks!Inherited(k) THEN 2 ELSE 1
                      /\ forkprogram \in Forks!PrintAfterWaiting => LastByMain(stdout)
                      /\ \A j \in DOMAIN stdout :
                           stdout[j][3] \in {0, IF stdout[j][1] = 0 THEN 6 ELSE 7}
    <2>1. ASSUME NEW p, NEW k PROVE Forks!Copies(p, k) = LinesOf(stdout, p, k)
      BY DEF Forks!Copies, LinesOf, PlacesOf, Forks!Cardinality, Cardinality
    <2>2. LastByMain(stdout) => stdout[Len(stdout)][1] = 0
      BY DEF LastByMain
    <2>3. QED
      BY <2>1, <2>2, Zenon DEF Forks!LinesPrinted
  <1>1. forkprogram \in Forks!Programs /\ ForkTypes /\ ForkControl /\ LinesKept
    BY DEF ForkInv, SomebodyKilled
  <1>2. 0 \in Forks!Processes /\ forkstate[0] = "exited"
    BY <1>1, ForkShape DEF ForkControl
  <1>3. ASSUME Threaded, NEW p \in Forks!Processes, NEW k \in Forks!Printed(p)
        PROVE  LinesOf(stdout, p, k) = IF p = 0 /\ Forks!Inherited(k) THEN 2 ELSE 1
    <2>1. SharedLines(p, k) = 1 /\ buffer[0] = <<>>
      BY <1>1, <1>2, <1>3 DEF LinesKept, ThreadLines
    <2>2. LinesOf(stdout, p, k) \in Nat /\ LinesOf(buffer[0], p, k) = 0
      BY <1>1, <2>1, CountNone, CountFinite DEF ForkTypes
    <2>3. LinesOf(stdout, p, k) = 1
      BY <2>1, <2>2 DEF SharedLines
    <2>4. ~Forks!Inherited(k)
      BY <1>3 DEF Forks!Inherited, Threaded
    <2>5. QED
      BY <2>3, <2>4
  <1>4. ASSUME ~Threaded, NEW p \in Forks!Processes, NEW k \in Forks!Printed(p)
        PROVE  LinesOf(stdout, p, k) = IF p = 0 /\ Forks!Inherited(k) THEN 2 ELSE 1
    <2>1. ForkLines /\ p \in {0, 1} /\ forkstate[1] \in {"absent", "exited"}
      BY <1>1, <1>4, ForkPair DEF LinesKept
    <2>2. buffer[0] = <<>> /\ buffer[1] = <<>>
      BY <1>2, <2>1 DEF ForkLines, BuffersEmpty
    <2>3. /\ LinesOf(stdout, p, k) \in Nat
          /\ LinesOf(buffer[0], p, k) = 0 /\ LinesOf(buffer[1], p, k) = 0
      BY <1>1, <1>4, <2>2, CountNone, ForkPair
    <2>4. CASE p = 1
      <3>1. ChildsLines(k) = 1
        BY <1>4, <2>1, <2>4 DEF ForkLines, ChildsOnce
      <3>2. LinesOf(stdout, 1, k) = 1
        BY <2>3, <2>4, <3>1 DEF ChildsLines
      <3>3. QED
        BY <2>4, <3>2
    <2>5. CASE p = 0
      <3>1. MainsLines(k) = IF Twice(k) THEN 2 ELSE 1
        BY <1>4, <2>1, <2>5 DEF ForkLines, MainsCopied
      <3>2. LinesOf(stdout, 0, k) = IF Twice(k) THEN 2 ELSE 1
        <4>1. MainsLines(k) = LinesOf(stdout, 0, k)
          BY <2>3, <2>5 DEF MainsLines
        <4>2. QED
          BY <3>1, <4>1
      <3>3. Twice(k) <=> Forks!Inherited(k)
        BY <1>4, <2>1, TwiceIsInherited
      <3>4. QED
        BY <2>5, <3>2, <3>3
    <2>6. QED
      BY <2>1, <2>4, <2>5
  <1>5. forkprogram \in Forks!PrintAfterWaiting => LastByMain(stdout)
    BY <1>1, <1>2 DEF LinesKept, MainLast
  <1>6. ASSUME NEW j \in DOMAIN stdout
        PROVE  stdout[j][3] \in {0, IF stdout[j][1] = 0 THEN 6 ELSE 7}
    <2>1. stdout[j] \in Line
      BY <1>1, <1>6 DEF ForkTypes
    <2>2. QED
      BY <2>1 DEF Line
  <1>7. QED
    BY <1>3, <1>4, <1>5, <1>6

-----------------------------------------------------------------------------
(* In the programs together: a step of one is a step or a stutter of each. *)
LEMMA QueueSteps == [MCNext]_allVars => [Queue!Next]_Queue!vars
  BY DEF MCNext, Sections, InQueue, InSums, InForks, InBuffer, allVars, queueVars, Queue!vars,
         Queue!list, Queue!threads, Queue!mains, Queue!history

LEMMA SumsSteps == [MCNext]_allVars => [Sums!Next]_Sums!vars
  BY DEF MCNext, Sections, InQueue, InSums, InForks, InBuffer, allVars, sumVars, Sums!vars,
         Sums!locals

LEMMA SectionsSteps == [MCNext]_allVars => [Next]_vars
  BY DEF MCNext, Sections, InQueue, InSums, InForks, InBuffer, allVars

LEMMA BufferSteps == [MCNext]_allVars => [Buffer!Next]_Buffer!vars
  BY DEF MCNext, Sections, InQueue, InSums, InForks, InBuffer, allVars, bufferVars,
         Buffer!vars, Buffer!queue, Buffer!semaphores, Buffer!sums

LEMMA ForksSteps == [MCNext]_allVars => [Forks!Next]_(Forks!vars)
  BY DEF MCNext, Sections, InQueue, InSums, InForks, InBuffer, allVars, forkVars, Forks!vars

(* Lecture9/cond_variable 36-46, 56-67: with any number of messages the    *)
(* list keeps its order and loses none, and no producer walks through one  *)
(* that was freed.                                                         *)
THEOREM QueueKept == MCSpec => []QueueInOrder
  <1>1. MCInit => QueueInv
    BY QueueInitInv, SizesAssumption DEF MCInit
  <1>2. QueueInv /\ [MCNext]_allVars => QueueInv'
    BY QueueSteps, QueueStepInv, SizesAssumption
  <1>3. QueueInv => QueueInOrder
    BY QueueInvOrder, SizesAssumption DEF QueueInOrder
  <1>4. QED
    BY <1>1, <1>2, <1>3, PTL DEF MCSpec

(* Homework2/main.c 58-63, 66-76: for any number of numbers and threads,   *)
(* whichever of the threads can be created, main reports a sum with the    *)
(* square of each of their numbers once and of no other number.            *)
THEOREM EachSquareOnce == MCSpec => []EachAddedOnce
  <1>1. MCInit => SumsInv
    BY SumsInitInv DEF MCInit
  <1>2. SumsInv /\ [MCNext]_allVars => SumsInv'
    BY SumsSteps, SumsStepInv
  <1>3. SumsInv => EachAddedOnce
    BY SumsInvImplies DEF EachAddedOnce
  <1>4. QED
    BY <1>1, <1>2, <1>3, PTL DEF MCSpec

(* named_semaphore.c 29-58, lockfile.c 20-28, mutex/main.c 15-23 and the   *)
(* others with a lock, for any number of rounds of the threads of mutex:   *)
(* but for the program with a second sem_init no two hold the lock, and in *)
(* all of them no mark is overwritten and no string is printed into the    *)
(* other's; only what the child of unnamed_semaphore/main.c prints without *)
(* the lock (78, 87) can come into its parent's string.                    *)
THEOREM SectionsHold == MCSpec => []SectionsKept
  <1>1. MCInit => SectionsInv
    BY SectionsInit DEF MCInit
  <1>2. SectionsInv /\ [MCNext]_allVars => SectionsInv'
    BY SectionsSteps, SectionsStep
  <1>3. SectionsInv => SectionsKept
    BY SectionsImplies
  <1>4. QED
    BY <1>1, <1>2, <1>3, PTL DEF MCSpec

(* non_mutex/main.c 16-22, shared_memory.c 24-43: without a lock the two   *)
(* threads of nonmutex end with a counter of 2 at least, and shared_memory *)
(* ends with the child's rounds, or with what the parent has set and so    *)
(* many rounds more; for any number of rounds and of Ten.                  *)
THEOREM CountsBounded == MCSpec => []UnlockedCounts
  <1>1. MCInit => CountersInv
    BY CountersInit DEF MCInit
  <1>2. CountersInv /\ [MCNext]_allVars => CountersInv'
    BY SectionsSteps, CountersStep
  <1>3. CountersInv => UnlockedCounts
    BY CountersImply
  <1>4. QED
    BY <1>1, <1>2, <1>3, PTL DEF MCSpec

(* For any number of consumers, any N and any size of the circular buffer. *)
LEMMA BufferInvariance == MCSpec => []BufferInv
  <1>1. MCInit => BufferInv
    BY BufferInitInv DEF MCInit
  <1>2. BufferInv /\ [MCNext]_allVars => BufferInv'
    BY BufferSteps, BufferStepInv
  <1>3. QED
    BY <1>1, <1>2, PTL DEF MCSpec

(* No number is overwritten (36) before a consumer has taken it (57).      *)
THEOREM NothingOverwritten == MCSpec => []SlotsIntact
  <1>1. BufferInv => SlotsIntact
    BY BufferCounts DEF BufferInv, SlotsHold, SlotsIntact, Buffer!SlotsIntact
  <1>2. QED
    BY <1>1, BufferInvariance, PTL

(* Consumers take 1, 2, 3, ... in turn and add before they count (57-62).  *)
THEOREM AddedInOrder == MCSpec => []AddsInOrder
  <1>1. BufferInv => AddsInOrder
    BY DEF BufferInv, AddsInOrder
  <1>2. QED
    BY <1>1, BufferInvariance, PTL

(* Homework2 README 39: main (level3.c 127) reports the sum of the first N *)
(* squares.                                                                *)
THEOREM CorrectSum == MCSpec => []ReportsSum
  <1>1. BufferInv => ReportsSum
    BY DEF BufferInv, MainKnows, ReportsSum
  <1>2. QED
    BY <1>1, BufferInvariance, PTL

(* README 34-38: once main has left its loop (117), no consumer has, or    *)
(* will find, another number.                                              *)
THEOREM Quiet == MCSpec => []QuietAfterAll
  <1>1. BufferInv => QuietAfterAll
    BY AllCounted DEF BufferInv, MainKnows, QuietAfterAll, Buffer!QuietAfterAll
  <1>2. QED
    BY <1>1, BufferInvariance, PTL

(* Lecture7: printorder, fork_example, zombie_process, fork_and_exec,      *)
(* wait_example; Lecture8: pthread_hello, pthread_return_values,           *)
(* pthread_exit_return.  If all ran to their end, each line is on stdout   *)
(* once, or twice if it was in the buffer at the fork of a child that      *)
(* exits without an exec; a main that prints after waiting has the last    *)
(* line, and the parent's glob is its own.                                 *)
THEOREM LinesPrintedOnce == MCSpec => []LinesPrinted
  <1>1. MCInit => ForkInv
    BY ForkInit DEF MCInit
  <1>2. ForkInv /\ [MCNext]_allVars => ForkInv'
    BY ForksSteps, ForkInvStep
  <1>3. ForkInv => LinesPrinted
    BY ForkInvLines DEF LinesPrinted
  <1>4. QED
    BY <1>1, <1>2, <1>3, PTL DEF MCSpec

=============================================================================
