---------------------------- MODULE ExchangeProofs ----------------------------
(***************************************************************************)
(* The programs that exchange a few messages.                              *)
(*                                                                         *)
(* The TCP servers, for messages of any length that the buffers hold and   *)
(* any number of descriptors: a buffer that only its own child or thread   *)
(* reads into is blank before; and a connection that main still holds when *)
(* it is back at accept is one that a thread serves or nobody does.        *)
(*                                                                         *)
(* One TCP connection, for messages, buffers and a file of any size: how   *)
(* much each side has written and read follows from the call it is at, and *)
(* from the call its peer is at.                                           *)
(*                                                                         *)
(* Pipes, FIFOs and the queue, for any number of children, messages and    *)
(* requests and any room in a channel: as long as no process was killed    *)
(* and no fork failed, a message is in the channel its sender writes to or *)
(* was read, by one process and in order; and a channel that is left by    *)
(* all is empty, for a reason that differs from program to program.        *)
(*                                                                         *)
(* The substring counter, for files and arguments of any length: what is   *)
(* in the buffer is the file, and the recursive count is the number of     *)
(* places.                                                                 *)
(***************************************************************************)
EXTENDS MCTcpExchange, SequenceTheorems, FiniteSetTheorems, TLAPS

-----------------------------------------------------------------------------
(* The servers: their invariant.                                           *)

(* Between accept and the end of its turn main has a connection that was   *)
(* accepted (43-53 of Lecture6/multipleclient/server.c).                   *)
Serving ==
  main \in {"serve", "respond", "close"} =>
    cur \in Servers!Socks /\ conn[cur] \notin {"new", "queued"}

(* Who waits in the backlog does so once, and has no handler yet.          *)
Waiting ==
  /\ \A i, j \in DOMAIN backlog : backlog[i] = backlog[j] => i = j
  /\ \A i \in DOMAIN backlog : conn[backlog[i]] = "queued"

Fresh ==
  \A s \in Servers!Socks :
    /\ client[s] = "start" => conn[s] = "new"
    /\ conn[s] \in {"new", "queued"} =>
         handler[s] = "none" /\ "main" \notin descriptors[s]

(* A child starts from main's blank buffer, a thread from its own (12 of   *)
(* Lecture8/concurrent_server_thread/server.c), and reads into no other.   *)
OwnBuffers ==
  kind \in {"fork", "thread"} =>
    /\ \A i \in 1..Servers!MaxLen : buffer[0][i] = 0
    /\ \A s \in Servers!Socks :
         /\ \A i \in 1..Servers!MaxLen : buffer[s][i] \in {0, s}
         /\ printed[s] \subseteq {s}

(* Without threads main holds the one connection that it serves; with      *)
(* threads it holds those that are served, or that have no thread.         *)
HeldByMain ==
  \A s \in Servers!Socks :
    "main" \in descriptors[s] =>
      /\ kind # "thread" => main \in {"serve", "respond", "close"} /\ s = cur
      /\ kind = "thread" => conn[s] = "accepted" /\ handler[s] # "done"

ServersInv ==
  /\ Servers!TypeOK /\ Serving /\ Waiting /\ Fresh /\ OwnBuffers /\ HeldByMain

LEMMA ServersTypes ==
  ASSUME ServersInv
  PROVE  /\ Servers!TypeOK /\ Serving /\ Waiting /\ Fresh /\ OwnBuffers /\ HeldByMain
         /\ Servers!Socks = {1, 2} /\ Servers!MaxLen = 2
         /\ DOMAIN backlog = 1..Len(backlog) /\ Len(backlog) \in Nat
         /\ \A i \in DOMAIN backlog : backlog[i] \in Servers!Socks
  BY DEF ServersInv, Servers!TypeOK, Servers!Socks, Servers!MaxLen

LEMMA ServersInitInv == Servers!Init => ServersInv
  <1> SUFFICES ASSUME Servers!Init PROVE ServersInv
    OBVIOUS
  <1> USE DEF Servers!Init, Servers!Blank, Servers!MaxLen, Servers!Socks
  <1>1. Servers!TypeOK
    BY EmptySeq DEF Servers!TypeOK, Servers!Finished
  <1>2. Serving /\ Waiting /\ Fresh /\ OwnBuffers /\ HeldByMain
    BY DEF Serving, Waiting, Fresh, OwnBuffers, HeldByMain
  <1>3. QED
    BY <1>1, <1>2 DEF ServersInv

-----------------------------------------------------------------------------
(* Steps of main.                                                          *)
LEMMA AcceptInv == ServersInv /\ Servers!Accept => ServersInv'
  <1> SUFFICES ASSUME ServersInv, Servers!Accept PROVE ServersInv'
    OBVIOUS
  <1> USE DEF Servers!Accept, Servers!kinds
  <1>1. /\ cur' = backlog[1] /\ cur' \in Servers!Socks /\ 1 \in DOMAIN backlog
        /\ conn[cur'] = "queued" /\ handler[cur'] = "none"
    BY ServersTypes DEF Waiting, Fresh
  <1>2. /\ backlog' \in Seq(Servers!Socks)
        /\ Len(backlog') = Len(backlog) - 1
        /\ \A i \in 1..Len(backlog') : backlog'[i] = backlog[i + 1]
    BY HeadTailProperties DEF ServersInv, Servers!TypeOK
  <1>3. Servers!TypeOK'
    BY <1>1, <1>2 DEF ServersInv, Servers!TypeOK
  <1>4. Serving'
    BY <1>1 DEF Serving, ServersInv, Servers!TypeOK
  <1>5. Waiting'
    <2>1. \A i \in DOMAIN backlog' :
            i + 1 \in DOMAIN backlog /\ i + 1 # 1 /\ backlog'[i] = backlog[i + 1]
      BY <1>2, ServersTypes
    <2>2. ASSUME NEW i \in DOMAIN backlog' PROVE conn'[backlog'[i]] = "queued"
      <3>1. backlog'[i] # cur' /\ conn[backlog'[i]] = "queued"
        BY <2>1, <1>1, ServersTypes DEF Waiting
      <3>2. backlog'[i] \in Servers!Socks
        BY <2>1, ServersTypes
      <3>3. QED
        BY <3>1, <3>2, ServersTypes DEF Servers!TypeOK
    <2>3. \A i, j \in DOMAIN backlog' : backlog'[i] = backlog'[j] => i = j
      BY <2>1, <1>2, ServersTypes DEF Waiting
    <2>4. QED
      BY <2>2, <2>3 DEF Waiting
  <1>6. Fresh' /\ HeldByMain'
    BY <1>1, ServersTypes DEF Fresh, HeldByMain, Servers!TypeOK
  <1>7. OwnBuffers'
    BY DEF ServersInv, OwnBuffers
  <1>8. QED
    BY <1>3, <1>4, <1>5, <1>6, <1>7 DEF ServersInv

(* When accept fails, main is at accept: Open is what its threads serve.   *)
LEMMA AcceptFailsInv == ServersInv /\ Servers!AcceptFails => ServersInv'
  <1> SUFFICES ASSUME ServersInv, Servers!AcceptFails PROVE ServersInv'
    OBVIOUS
  <1> USE DEF Servers!AcceptFails, Servers!kinds, Servers!Open
  <1>1. Servers!TypeOK'
    BY EmptySeq DEF ServersInv, Servers!TypeOK
  <1>2. Serving' /\ Waiting' /\ OwnBuffers' /\ HeldByMain'
    BY ServersTypes DEF Serving, Waiting, OwnBuffers, HeldByMain, Servers!TypeOK
  <1>3. Fresh'
    BY ServersTypes DEF Fresh, Servers!TypeOK
  <1>4. QED
    BY <1>1, <1>2, <1>3 DEF ServersInv

(* Only main's buffer, or the handler's own, takes the message: what is    *)
(* printed comes from there.                                               *)
LEMMA ReadIntoTypes ==
  ASSUME ServersInv, NEW b \in Servers!Socks \cup {0}, NEW s \in Servers!Socks,
         Servers!ReadInto(b, s)
  PROVE  /\ buffer' \in [Servers!Socks \cup {0} -> [1..Servers!MaxLen -> Servers!Socks \cup {0}]]
         /\ printed' \in [Servers!Socks -> SUBSET Servers!Socks]
         /\ request' \in [Servers!Socks -> {"none", "sent", "read"}]
         /\ \A c \in Servers!Socks \cup {0} : c # b => buffer'[c] = buffer[c]
         /\ \A i \in 1..Servers!MaxLen : buffer'[b][i] \in {buffer[b][i], s}
         /\ \A t \in Servers!Socks : t # s => printed'[t] = printed[t]
         /\ printed'[s] = {buffer'[b][i] : i \in 1..Servers!MaxLen} \ {0}
  <1> USE DEF Servers!ReadInto, ServersInv, Servers!TypeOK
  <1>1. buffer' \in [Servers!Socks \cup {0} -> [1..Servers!MaxLen -> Servers!Socks \cup {0}]]
    <2>1. buffer \in [Servers!Socks \cup {0} -> [1..Servers!MaxLen -> Servers!Socks \cup {0}]]
      OBVIOUS
    <2>2. buffer[b] \in [1..Servers!MaxLen -> Servers!Socks \cup {0}]
      BY ONLY <2>1, b \in Servers!Socks \cup {0}
    <2>3. [i \in 1..Servers!MaxLen |-> IF i <= ServedLen[s] THEN s ELSE buffer[b][i]]
            \in [1..Servers!MaxLen -> Servers!Socks \cup {0}]
      BY ONLY <2>2, s \in Servers!Socks
    <2>4. \/ buffer' = buffer
          \/ buffer' = [buffer EXCEPT ![b] = [i \in 1..Servers!MaxLen |->
                                               IF i <= ServedLen[s] THEN s ELSE buffer[b][i]]]
      BY <2>1
    <2>5. QED
      BY ONLY <2>1, <2>3, <2>4
  <1>2. \A i \in 1..Servers!MaxLen : buffer'[b][i] \in Servers!Socks \cup {0}
    <2>1. b \in Servers!Socks \cup {0}
      OBVIOUS
    <2>2. QED
      BY ONLY <1>1, <2>1
  <1>3. printed' \in [Servers!Socks -> SUBSET Servers!Socks]
    BY <1>2
  <1>4. \A c \in Servers!Socks \cup {0} : c # b => buffer'[c] = buffer[c]
    OBVIOUS
  <1>5. \A i \in 1..Servers!MaxLen : buffer'[b][i] \in {buffer[b][i], s}
    OBVIOUS
  <1>6. QED
    BY <1>1, <1>3, <1>4, <1>5

LEMMA MainReadsInv == ServersInv /\ Servers!MainReads => ServersInv'
  <1> SUFFICES ASSUME ServersInv, Servers!MainReads PROVE ServersInv'
    OBVIOUS
  <1> USE DEF Servers!MainReads, Servers!kinds
  <1>1. cur \in Servers!Socks
    BY DEF ServersInv, Serving
  <1>2. Servers!TypeOK'
    BY <1>1, ReadIntoTypes DEF ServersInv, Servers!TypeOK
  <1>3. Serving' /\ Waiting' /\ Fresh' /\ OwnBuffers' /\ HeldByMain'
    BY DEF ServersInv, Serving, Waiting, Fresh, OwnBuffers, HeldByMain
  <1>4. QED
    BY <1>2, <1>3 DEF ServersInv

LEMMA MainRespondsInv ==
  ServersInv /\ (Servers!MainResponds \/ Servers!WebResponds) => ServersInv'
  <1> SUFFICES ASSUME ServersInv, Servers!MainResponds \/ Servers!WebResponds
               PROVE  ServersInv'
    OBVIOUS
  <1> USE DEF Servers!MainResponds, Servers!WebResponds, Servers!Respond, Servers!kinds
  <1>1. Servers!TypeOK'
    BY DEF ServersInv, Servers!TypeOK
  <1>2. Serving' /\ Waiting' /\ Fresh' /\ OwnBuffers' /\ HeldByMain'
    BY DEF ServersInv, Serving, Waiting, Fresh, OwnBuffers, HeldByMain
  <1>3. QED
    BY <1>1, <1>2 DEF ServersInv

(* close, whoever calls it: the connection is not one that waits.          *)
LEMMA ReleaseTypes ==
  ASSUME ServersInv, NEW s \in Servers!Socks, NEW who \in {"main", "child"},
         conn[s] \notin {"new", "queued"}, Servers!Release(s, who)
  PROVE  /\ descriptors' = [descriptors EXCEPT ![s] = @ \ {who}]
         /\ descriptors' \in [Servers!Socks -> SUBSET {"main", "child"}]
         /\ conn' \in [Servers!Socks -> {"new", "queued", "accepted", "closed", "reset"}]
         /\ \A t \in Servers!Socks : t # s => conn'[t] = conn[t]
         /\ conn'[s] \notin {"new", "queued"}
         /\ descriptors'[s] # {} => conn'[s] = conn[s]
  BY DEF Servers!Release, ServersInv, Servers!TypeOK

LEMMA MainClosesInv == ServersInv /\ Servers!MainCloses => ServersInv'
  <1> SUFFICES ASSUME ServersInv, Servers!MainCloses PROVE ServersInv'
    OBVIOUS
  <1> USE DEF Servers!MainCloses, Servers!kinds
  <1>1. cur \in Servers!Socks /\ conn[cur] \notin {"new", "queued"}
    BY DEF ServersInv, Serving
  <1>2. /\ descriptors' = [descriptors EXCEPT ![cur] = @ \ {"main"}]
        /\ descriptors' \in [Servers!Socks -> SUBSET {"main", "child"}]
        /\ conn' \in [Servers!Socks -> {"new", "queued", "accepted", "closed", "reset"}]
        /\ \A t \in Servers!Socks : t # cur => conn'[t] = conn[t]
        /\ conn'[cur] \notin {"new", "queued"}
    BY <1>1, ReleaseTypes
  <1>3. Servers!TypeOK'
    BY <1>2 DEF ServersInv, Servers!TypeOK
  <1>4. Serving' /\ OwnBuffers'
    BY DEF ServersInv, Serving, OwnBuffers
  <1>5. Waiting'
    BY <1>1, <1>2, ServersTypes DEF Waiting
  <1>6. Fresh' /\ HeldByMain'
    BY <1>1, <1>2, ServersTypes DEF Fresh, HeldByMain, Servers!TypeOK
  <1>7. QED
    BY <1>3, <1>4, <1>5, <1>6 DEF ServersInv

LEMMA ForkInv == ServersInv /\ Servers!Fork => ServersInv'
  <1> SUFFICES ASSUME ServersInv, Servers!Fork PROVE ServersInv'
    OBVIOUS
  <1> USE DEF Servers!Fork, Servers!kinds
  <1>1. cur \in Servers!Socks /\ conn[cur] \notin {"new", "queued"}
    BY DEF ServersInv, Serving
  <1>2. Servers!TypeOK'
    BY <1>1 DEF ServersInv, Servers!TypeOK
  <1>3. Serving' /\ Waiting'
    BY DEF ServersInv, Serving, Waiting
  <1>4. Fresh' /\ HeldByMain'
    BY <1>1, ServersTypes DEF Fresh, HeldByMain, Servers!TypeOK
  <1>5. OwnBuffers'
    BY <1>1, ServersTypes DEF OwnBuffers, Servers!TypeOK
  <1>6. QED
    BY <1>2, <1>3, <1>4, <1>5 DEF ServersInv

(* A thread is created, or nobody has noticed that it was not.             *)
LEMMA CreateInv ==
  ServersInv /\ (Servers!CreateThread \/ Servers!CreateFails) => ServersInv'
  <1> SUFFICES ASSUME ServersInv, Servers!CreateThread \/ Servers!CreateFails
               PROVE  ServersInv'
    OBVIOUS
  <1> USE DEF Servers!CreateThread, Servers!CreateFails, Servers!kinds
  <1>1. cur \in Servers!Socks /\ conn[cur] \notin {"new", "queued"}
    BY DEF ServersInv, Serving
  <1>2. Servers!TypeOK'
    BY <1>1 DEF ServersInv, Servers!TypeOK
  <1>3. Serving' /\ Waiting' /\ OwnBuffers'
    BY DEF ServersInv, Serving, Waiting, OwnBuffers
  <1>4. Fresh' /\ HeldByMain'
    BY <1>1, ServersTypes DEF Fresh, HeldByMain, Servers!TypeOK
  <1>5. QED
    BY <1>2, <1>3, <1>4 DEF ServersInv

LEMMA ForkFailsInv == ServersInv /\ Servers!ForkFails => ServersInv'
  <1> SUFFICES ASSUME ServersInv, Servers!ForkFails PROVE ServersInv'
    OBVIOUS
  <1> USE DEF Servers!ForkFails, Servers!kinds
  <1>1. Servers!TypeOK'
    BY DEF ServersInv, Servers!TypeOK
  <1>2. Serving' /\ Waiting' /\ Fresh' /\ OwnBuffers' /\ HeldByMain'
    BY DEF ServersInv, Serving, Waiting, Fresh, OwnBuffers, HeldByMain
  <1>3. QED
    BY <1>1, <1>2 DEF ServersInv

-----------------------------------------------------------------------------
(* Steps of a child or thread.                                             *)
LEMMA HandlerReadsInv ==
  ASSUME NEW s \in Servers!Socks PROVE ServersInv /\ Servers!HandlerReads(s) => ServersInv'
  <1> SUFFICES ASSUME ServersInv, Servers!HandlerReads(s) PROVE ServersInv'
    OBVIOUS
  <1> USE DEF Servers!HandlerReads, Servers!kinds
  <1>1. /\ buffer' \in [Servers!Socks \cup {0} -> [1..Servers!MaxLen -> Servers!Socks \cup {0}]]
        /\ printed' \in [Servers!Socks -> SUBSET Servers!Socks]
        /\ request' \in [Servers!Socks -> {"none", "sent", "read"}]
        /\ \A c \in Servers!Socks \cup {0} : c # s => buffer'[c] = buffer[c]
        /\ \A i \in 1..Servers!MaxLen : buffer'[s][i] \in {buffer[s][i], s}
        /\ \A t \in Servers!Socks : t # s => printed'[t] = printed[t]
        /\ printed'[s] = {buffer'[s][i] : i \in 1..Servers!MaxLen} \ {0}
    BY ReadIntoTypes
  <1>2. Servers!TypeOK'
    BY <1>1 DEF ServersInv, Servers!TypeOK
  <1>3. Serving' /\ Waiting'
    BY DEF ServersInv, Serving, Waiting
  <1>4. Fresh' /\ HeldByMain'
    BY ServersTypes DEF Fresh, HeldByMain, Servers!TypeOK
  <1>5. OwnBuffers'
    <2>1. OwnBuffers /\ 0 \notin Servers!Socks /\ kind' = kind
      BY ServersTypes
    <2>2. SUFFICES ASSUME kind \in {"fork", "thread"}
          PROVE  /\ \A i \in 1..Servers!MaxLen : buffer'[0][i] = 0
                 /\ \A t \in Servers!Socks :
                      /\ \A i \in 1..Servers!MaxLen : buffer'[t][i] \in {0, t}
                      /\ printed'[t] \subseteq {t}
      BY <2>1 DEF OwnBuffers
    <2>3. /\ \A i \in 1..Servers!MaxLen : buffer[0][i] = 0
          /\ \A t \in Servers!Socks : \A i \in 1..Servers!MaxLen : buffer[t][i] \in {0, t}
          /\ \A t \in Servers!Socks : printed[t] \subseteq {t}
      BY <2>1, <2>2 DEF OwnBuffers
    <2>4. \A i \in 1..Servers!MaxLen : buffer'[0][i] = 0 /\ buffer'[s][i] \in {0, s}
      BY ONLY <1>1, <2>1, <2>3, s \in Servers!Socks
    <2>5. printed'[s] \subseteq {s}
      BY ONLY <1>1, <2>4
    <2>6. QED
      BY ONLY <1>1, <2>3, <2>4, <2>5
  <1>6. QED
    BY <1>2, <1>3, <1>4, <1>5 DEF ServersInv

LEMMA HandlerRespondsInv ==
  ASSUME NEW s \in Servers!Socks
  PROVE  ServersInv /\ Servers!HandlerResponds(s) => ServersInv'
  <1> SUFFICES ASSUME ServersInv, Servers!HandlerResponds(s) PROVE ServersInv'
    OBVIOUS
  <1> USE DEF Servers!HandlerResponds, Servers!Respond, Servers!kinds
  <1>1. Servers!TypeOK'
    BY DEF ServersInv, Servers!TypeOK
  <1>2. Serving' /\ Waiting' /\ OwnBuffers'
    BY DEF ServersInv, Serving, Waiting, OwnBuffers
  <1>3. Fresh' /\ HeldByMain'
    BY ServersTypes DEF Fresh, HeldByMain, Servers!TypeOK
  <1>4. QED
    BY <1>1, <1>2, <1>3 DEF ServersInv

(* A thread closes the descriptor of its process: it is main's no more.    *)
LEMMA HandlerClosesInv ==
  ASSUME NEW s \in Servers!Socks
  PROVE  ServersInv /\ Servers!HandlerCloses(s) => ServersInv'
  <1> SUFFICES ASSUME ServersInv, Servers!HandlerCloses(s) PROVE ServersInv'
    OBVIOUS
  <1> DEFINE who == IF kind = "fork" THEN "child" ELSE "main"
  <1>1. handler[s] = "close" /\ Servers!Release(s, who) /\ handler' = [handler EXCEPT ![s] = "done"]
    BY DEF Servers!HandlerCloses
  <1>2. conn[s] \notin {"new", "queued"} /\ who \in {"main", "child"}
    BY <1>1 DEF ServersInv, Fresh
  <1>3. kind = "thread" => who = "main"
    OBVIOUS
  <1> HIDE DEF who
  <1>4. /\ descriptors' = [descriptors EXCEPT ![s] = @ \ {who}]
        /\ descriptors' \in [Servers!Socks -> SUBSET {"main", "child"}]
        /\ conn' \in [Servers!Socks -> {"new", "queued", "accepted", "closed", "reset"}]
        /\ \A t \in Servers!Socks : t # s => conn'[t] = conn[t]
        /\ conn'[s] \notin {"new", "queued"}
    BY <1>1, <1>2, ReleaseTypes
  <1> USE DEF Servers!HandlerCloses, Servers!kinds
  <1>5. Servers!TypeOK'
    BY <1>4 DEF ServersInv, Servers!TypeOK
  <1>6. Serving' /\ OwnBuffers'
    BY <1>4 DEF ServersInv, Serving, OwnBuffers
  <1>7. Waiting'
    BY <1>2, <1>4, ServersTypes DEF Waiting
  <1>8. Fresh'
    BY <1>1, <1>2, <1>4, ServersTypes DEF Fresh, Servers!TypeOK
  <1>9. HeldByMain'
    BY <1>1, <1>3, <1>4, ServersTypes DEF HeldByMain, Servers!TypeOK
  <1>10. QED
    BY <1>5, <1>6, <1>7, <1>8, <1>9 DEF ServersInv

-----------------------------------------------------------------------------
(* Steps of the client.                                                    *)
LEMMA ConnectInv ==
  ASSUME NEW s \in Servers!Socks PROVE ServersInv /\ Servers!Connect(s) => ServersInv'
  <1> SUFFICES ASSUME ServersInv, Servers!Connect(s) PROVE ServersInv'
    OBVIOUS
  <1> USE DEF Servers!Connect, Servers!kinds
  <1>1. client[s] = "start" /\ conn[s] = "new" /\ handler[s] = "none"
    BY DEF Servers!At, ServersInv, Fresh
  <1>2. /\ backlog' \in Seq(Servers!Socks) /\ Len(backlog') = Len(backlog) + 1
        /\ \A i \in 1..Len(backlog) : backlog'[i] = backlog[i]
        /\ backlog'[Len(backlog) + 1] = s
    BY AppendProperties DEF ServersInv, Servers!TypeOK
  <1>3. Servers!TypeOK'
    BY <1>2 DEF ServersInv, Servers!TypeOK
  <1>4. Serving'
    BY <1>1, ServersTypes DEF Serving, Servers!TypeOK
  <1>5. Waiting'
    <2>1. \A i \in DOMAIN backlog : backlog[i] # s /\ backlog'[i] = backlog[i]
      BY <1>1, <1>2, ServersTypes DEF Waiting
    <2>2. \A i \in DOMAIN backlog' :
            i \in DOMAIN backlog \/ (i = Len(backlog) + 1 /\ backlog'[i] = s)
      BY <1>2, ServersTypes
    <2>3. \A i, j \in DOMAIN backlog' : backlog'[i] = backlog'[j] => i = j
      BY <2>1, <2>2, ServersTypes DEF Waiting
    <2>4. \A i \in DOMAIN backlog' : conn'[backlog'[i]] = "queued"
      BY <2>1, <2>2, ServersTypes DEF Waiting, Servers!TypeOK
    <2>5. QED
      BY <2>3, <2>4 DEF Waiting
  <1>6. Fresh' /\ HeldByMain'
    BY <1>1, ServersTypes DEF Fresh, HeldByMain, Servers!TypeOK
  <1>7. OwnBuffers'
    BY DEF ServersInv, OwnBuffers
  <1>8. QED
    BY <1>3, <1>4, <1>5, <1>6, <1>7 DEF ServersInv

LEMMA WriteInv ==
  ASSUME NEW s \in Servers!Socks PROVE ServersInv /\ Servers!Write(s) => ServersInv'
  <1> SUFFICES ASSUME ServersInv, Servers!Write(s) PROVE ServersInv'
    OBVIOUS
  <1> USE DEF Servers!Write, Servers!kinds, Servers!serverVars
  <1>1. /\ conn' \in [Servers!Socks -> {"new", "queued", "accepted", "closed", "reset"}]
        /\ \A t \in Servers!Socks :
             conn'[t] = conn[t] \/ (conn[t] = "closed" /\ conn'[t] = "reset")
    BY DEF ServersInv, Servers!TypeOK
  <1>2. Servers!TypeOK'
    BY <1>1 DEF ServersInv, Servers!TypeOK
  <1>3. Serving' /\ Waiting' /\ OwnBuffers'
    BY <1>1, ServersTypes DEF Serving, Waiting, OwnBuffers
  <1>4. \A t \in Servers!Socks : client'[t] = "start" => client[t] = "start"
    BY DEF ServersInv, Servers!TypeOK
  <1>5. Fresh' /\ HeldByMain'
    BY <1>1, <1>4, ServersTypes DEF Fresh, HeldByMain
  <1>6. QED
    BY <1>2, <1>3, <1>5 DEF ServersInv

(* Read, and the ways a client fails or is ended, concern nobody else.     *)
LEMMA ClientAloneInv ==
  ASSUME NEW s \in Servers!Socks
  PROVE  ServersInv /\ (Servers!ConnectFails(s) \/ Servers!Interrupt(s) \/ Servers!Read(s))
           => ServersInv'
  <1> SUFFICES ASSUME ServersInv,
                      Servers!ConnectFails(s) \/ Servers!Interrupt(s) \/ Servers!Read(s)
               PROVE  ServersInv'
    OBVIOUS
  <1> USE DEF Servers!ConnectFails, Servers!Interrupt, Servers!Read, Servers!Gone,
              Servers!kinds, Servers!serverVars
  <1>1. /\ client' \in [Servers!Socks -> {"start", "connected", "wait"} \cup Servers!Finished]
        /\ \A t \in Servers!Socks : client'[t] = "start" => client[t] = "start"
    BY DEF ServersInv, Servers!TypeOK, Servers!Finished
  <1>2. Servers!TypeOK'
    BY <1>1 DEF ServersInv, Servers!TypeOK
  <1>3. Serving' /\ Waiting' /\ OwnBuffers' /\ HeldByMain'
    BY DEF ServersInv, Serving, Waiting, OwnBuffers, HeldByMain
  <1>4. Fresh'
    BY <1>1 DEF ServersInv, Fresh
  <1>5. QED
    BY <1>2, <1>3, <1>4 DEF ServersInv

LEMMA ServersStepInv == ServersInv /\ [Servers!Next]_Servers!vars => ServersInv'
  <1> SUFFICES ASSUME ServersInv, [Servers!Next]_Servers!vars PROVE ServersInv'
    OBVIOUS
  <1>1. CASE Servers!Server
    BY <1>1, AcceptInv, AcceptFailsInv, MainReadsInv, MainRespondsInv, MainClosesInv,
       ForkInv, CreateInv
    DEF Servers!Server
  <1>2. CASE Servers!ForkFails \/ Servers!CreateFails
    BY <1>2, ForkFailsInv, CreateInv
  <1>3. ASSUME NEW s \in Servers!Socks, Servers!Handler(s) PROVE ServersInv'
    BY <1>3, HandlerReadsInv, HandlerRespondsInv, HandlerClosesInv DEF Servers!Handler
  <1>4. ASSUME NEW s \in Servers!Socks,
               \/ Servers!Connect(s) \/ Servers!ConnectFails(s) \/ Servers!Write(s)
               \/ Servers!Interrupt(s) \/ Servers!Read(s)
        PROVE  ServersInv'
    BY <1>4, ConnectInv, WriteInv, ClientAloneInv
  <1>5. CASE UNCHANGED Servers!vars
    BY <1>5
    DEF Servers!vars, Servers!kinds, Servers!serverVars, ServersInv, Servers!TypeOK,
        Serving, Waiting, Fresh, OwnBuffers, HeldByMain
  <1>6. QED
    BY <1>1, <1>2, <1>3, <1>4, <1>5 DEF Servers!Next

(* The buffers are the servers' memory, and the rest of their state has    *)
(* the values that the code gives it.                                      *)
THEOREM ServersTypeCorrect == Servers!Spec => []Servers!TypeOK
  <1>1. ServersInv => Servers!TypeOK
    BY DEF ServersInv
  <1>2. QED
    BY <1>1, ServersInitInv, ServersStepInv, PTL DEF Servers!Spec

(* A step of the programs together is a step or a stutter of the servers.  *)
LEMMA ServersSteps == [MCNext]_allVars => [Servers!Next]_Servers!vars
  BY DEF MCNext, OnTcp, OnChannels, OnFile, OnServers, allVars, serverVars, Servers!vars,
         Servers!kinds, Servers!serverVars

LEMMA ServersInvariance == MCSpec => []ServersInv
  <1>1. MCInit => ServersInv
    BY ServersInitInv DEF MCInit
  <1>2. ServersInv /\ [MCNext]_allVars => ServersInv'
    BY ServersSteps, ServersStepInv
  <1>3. QED
    BY <1>1, <1>2, PTL DEF MCSpec

(* Lecture7/concurrent_server/server.c 53-54 and                           *)
(* Lecture8/concurrent_server_thread/server.c 12, 15-16: whatever the      *)
(* lengths of the messages and however the handlers interleave, what is    *)
(* printed of a connection is its client's message and nothing else.       *)
THEOREM OwnMessage == MCSpec => []PrintsOwnMessage
  <1>1. ServersInv => PrintsOwnMessage
    BY DEF ServersInv, OwnBuffers, PrintsOwnMessage, Servers!PrintsOwnMessage
  <1>2. QED
    BY <1>1, ServersInvariance, PTL

LEMMA SameCardinality == \A S : Servers!Cardinality(S) = Cardinality(S)
  BY DEF Servers!Cardinality, Cardinality

(* When accept fails, someone holds a connection, as limit is not zero;    *)
(* main is back at accept, so it is the server with threads, and each      *)
(* connection has a thread that will close it or never had one.            *)
LEMMA BusyStep ==
  ASSUME ServersInv, [Servers!Next]_Servers!vars, main' = "exited", main # "exited"
  PROVE  /\ kind = "thread"
         /\ \A s \in Servers!Open :
              handler[s] \in {"read", "respond", "close"} \/ Servers!Forgotten(s)
  <1>1. Servers!AcceptFails
    BY DEF Servers!Next, Servers!Server, Servers!Handler, Servers!vars, Servers!serverVars,
           Servers!Accept, Servers!MainReads, Servers!MainResponds, Servers!WebResponds,
           Servers!MainCloses, Servers!Fork, Servers!CreateThread, Servers!ForkFails,
           Servers!CreateFails, Servers!HandlerReads, Servers!HandlerResponds,
           Servers!HandlerCloses, Servers!Connect, Servers!ConnectFails, Servers!Write,
           Servers!Interrupt, Servers!Read
  <1>2. main = "accept" /\ Cardinality(Servers!Open) >= limit /\ limit \in Nat \ {0}
    <2>1. main = "accept" /\ Cardinality(Servers!Open) >= limit
      BY <1>1, SameCardinality DEF Servers!AcceptFails
    <2>2. limit \in Limits
      BY DEF ServersInv, Servers!TypeOK
    <2>3. QED
      BY <2>1, <2>2, ServedAssumption
  <1>3. PICK s \in Servers!Open : TRUE
    BY <1>2, FS_EmptySet
  <1>4. kind = "thread"
    BY <1>2, <1>3 DEF ServersInv, HeldByMain, Servers!Open
  <1>5. ASSUME NEW t \in Servers!Open
        PROVE  handler[t] \in {"read", "respond", "close"} \/ Servers!Forgotten(t)
    <2>1. t \in Servers!Socks /\ conn[t] = "accepted" /\ handler[t] # "done"
      BY <1>4 DEF ServersInv, HeldByMain, Servers!Open
    <2>2. handler[t] \in {"none", "read", "respond", "close"}
      BY <2>1 DEF ServersInv, Servers!TypeOK
    <2>3. QED
      BY <1>2, <1>4, <2>1, <2>2 DEF Servers!Forgotten
  <1>6. QED
    BY <1>4, <1>5

(* Lecture6/multipleclient/server.c 43-47: whatever the number of          *)
(* descriptors, accept and with it the server fails only while as many     *)
(* connections are in use or lost to pthread_create.                       *)
THEOREM BusyWhenFailing == MCSpec => FailsOnlyWhenBusy
  <1>1. ServersInv /\ [MCNext]_allVars =>
          [main' = "exited" /\ main # "exited" =>
             /\ kind = "thread"
             /\ \A s \in Servers!Open :
                  handler[s] \in {"read", "respond", "close"} \/ Servers!Forgotten(s)
          ]_Servers!vars
    BY ServersSteps, BusyStep
  <1>2. QED
    BY <1>1, ServersInvariance, PTL
    DEF MCSpec, FailsOnlyWhenBusy, Servers!FailsOnlyWhenBusy

-----------------------------------------------------------------------------
(* One exchange over TCP: its invariant.                                   *)
Writes == {"write", "write_pointer", "reply"}
Reads == {"read", "read_or_exit"}

(* Side p makes such a call, or has made it.                               *)
Has(p, calls) == \E i \in DOMAIN pair[p] : pair[p][i] \in calls
Past(p, calls) == \E i \in DOMAIN pair[p] : i < pc[p] /\ pair[p][i] \in calls

(* It has closed its end, or made its last call.                           *)
Over(p) == Past(p, {"close"}) \/ pc[p] > Len(pair[p])

LinkRight(p) ==
  /\ link[p] = "none" => pc[p] = 1
  /\ link[p] = "closed" => Over(p)
  /\ state[p] = "exited" => pc[p] > Len(pair[p])

(* The one message of a side, or the file.                                 *)
WroteRight(p) ==
  /\ Past(p, Writes) => wrote[p] \in 1..BufLen
  /\ ~Past(p, Writes) /\ ~Has(p, {"send_file"}) => wrote[p] = 0
  /\ Past(p, {"send_file"}) => wrote[p] = FileLen

(* A side that reads once reads the whole message; one that reads on has   *)
(* seen the end of the connection.                                         *)
GotRight(p) ==
  /\ Past(p, Reads) => got[p] = wrote[Other(p)] /\ Past(Other(p), Writes)
  /\ Has(p, Reads) /\ ~Past(p, Reads) => got[p] = 0
  /\ Past(p, {"read_all", "read_n"}) =>
       got[p] = wrote[Other(p)] /\ link[Other(p)] = "closed"

(* readnbytes: what is not in the file yet is in the buffer.               *)
StoredRight ==
  /\ pair["client"] = FileClient => stored + held = got["server"]
  /\ Past("server", {"read_n"}) => held = 0

(* As long as no side has failed or been killed, none has been reset and   *)
(* each has written and read what its calls so far say.                    *)
Clean == \A p \in Sides : state[p] \in {"running", "exited"}

TcpInv ==
  /\ TypeOK /\ StoredRight
  /\ Clean =>
       \A p \in Sides : ~reset[p] /\ LinkRight(p) /\ WroteRight(p) /\ GotRight(p)

(* What the proof uses of the eleven pairs of programs.                    *)
DataCalls == Writes \cup Reads \cup {"read_all", "read_n", "send_file"}

Calling(q, p, calls) == \E i \in DOMAIN q[p] : q[p][i] \in calls

Shape(q, p) ==
  /\ DOMAIN q[p] = 1..Len(q[p]) /\ Len(q[p]) \in 2..5
  /\ \A i \in DOMAIN q[p] :
       /\ i = 1 => q[p][i] \notin DataCalls \cup {"close", "name"}
       /\ q[p][i] = "connect" => i = 1
       /\ q[p][i] = "accept" => i = 1 \/ \E j \in DOMAIN q[p] : j < i /\ q[p][j] = "close"
       /\ q[p][i] = "reply" => \E j \in DOMAIN q[p] : j < i /\ q[p][j] \in Reads
  /\ \A i, j \in DOMAIN q[p] :
       /\ q[p][i] \in Writes /\ q[p][j] \in Writes => i = j
       /\ q[p][i] \in Reads /\ q[p][j] \in Reads => i = j
       /\ q[p][i] = "read_n" /\ q[p][j] = "read_n" => i = j
       /\ q[p][i] = "close" /\ q[p][j] \in DataCalls => j < i
  /\ ~(Calling(q, p, Reads) /\ Calling(q, p, {"read_all", "read_n"}))
  /\ ~(Calling(q, p, Writes) /\ Calling(q, p, {"send_file"}))

Matched(q, p) ==
  /\ Calling(q, p, Reads) => Calling(q, Other(p), Writes)
  /\ Calling(q, p, Writes \cup {"send_file"}) =>
       Calling(q, Other(p), Reads \cup {"read_all", "read_n"})
  /\ Calling(q, p, {"read_n"}) => ~Calling(q, Other(p), Writes)
  /\ Calling(q, p, {"send_file"}) => p = "client"
  /\ Calling(q, p, {"read_n"}) => p = "server"
  /\ q["client"] = FileClient =>
        Calling(q, "client", {"send_file"}) /\ Calling(q, "server", {"read_n"})

LEMMA PairShape ==
  ASSUME NEW q \in Pairs, NEW p \in Sides
  PROVE  Shape(q, p)
  <1> USE DEF Shape, Calling, DataCalls, Writes, Reads
  <1>1. q[p] \in {HelloServer, HelloCopyServer, V6HelloServer, MoreHelloServer,
                  DaytimeServer, FromServerServer, AddrInfoServer, FileServer,
                  HelloClient, HelloCopyClient, DaytimeClient, FromServerClient,
                  AddrInfoClient, FileClient}
    BY DEF Pairs, Sides, HelloNamesServer, RequestServer, DaytimeReuseServer,
           HelloNamesClient, MoreHelloClient, V6HelloClient, RequestClient,
           HelloServer, HelloClient, DaytimeServer
  <1>2. CASE q[p] = HelloServer
    BY <1>2 DEF HelloServer
  <1>3. CASE q[p] = HelloCopyServer
    BY <1>3 DEF HelloCopyServer
  <1>4. CASE q[p] = V6HelloServer
    BY <1>4 DEF V6HelloServer
  <1>5. CASE q[p] = MoreHelloServer
    BY <1>5 DEF MoreHelloServer
  <1>6. CASE q[p] = DaytimeServer
    BY <1>6 DEF DaytimeServer
  <1>7. CASE q[p] = FromServerServer
    BY <1>7 DEF FromServerServer
  <1>8. CASE q[p] = AddrInfoServer
    BY <1>8 DEF AddrInfoServer
  <1>9. CASE q[p] = FileServer
    BY <1>9 DEF FileServer
  <1>10. CASE q[p] = HelloClient
    BY <1>10 DEF HelloClient
  <1>11. CASE q[p] = HelloCopyClient
    BY <1>11 DEF HelloCopyClient
  <1>12. CASE q[p] = DaytimeClient
    BY <1>12 DEF DaytimeClient
  <1>13. CASE q[p] = FromServerClient
    BY <1>13 DEF FromServerClient
  <1>14. CASE q[p] = AddrInfoClient
    BY <1>14 DEF AddrInfoClient
  <1>15. CASE q[p] = FileClient
    BY <1>15 DEF FileClient
  <1>16. QED
    BY <1>1, <1>2, <1>3, <1>4, <1>5, <1>6, <1>7, <1>8, <1>9, <1>10, <1>11, <1>12, <1>13,
       <1>14, <1>15

LEMMA PairMatched ==
  ASSUME NEW q \in Pairs, NEW p \in Sides
  PROVE  Matched(q, p)
  <1> USE DEF Matched, Calling, Writes, Reads, Sides, Other, FileClient
  <1> DEFINE Is(s, c) == q = [server |-> s, client |-> c]
  <1>1. CASE Is(HelloServer, HelloClient)
    BY <1>1 DEF HelloServer, HelloClient
  <1>2. CASE Is(HelloCopyServer, HelloCopyClient)
    BY <1>2 DEF HelloCopyServer, HelloCopyClient
  <1>3. CASE Is(MoreHelloServer, HelloClient)
    BY <1>3 DEF MoreHelloServer, HelloClient
  <1>4. CASE Is(V6HelloServer, HelloClient)
    BY <1>4 DEF V6HelloServer, HelloClient
  <1>5. CASE Is(DaytimeServer, DaytimeClient)
    BY <1>5 DEF DaytimeServer, DaytimeClient
  <1>6. CASE Is(FromServerServer, FromServerClient)
    BY <1>6 DEF FromServerServer, FromServerClient
  <1>7. CASE Is(AddrInfoServer, AddrInfoClient)
    BY <1>7 DEF AddrInfoServer, AddrInfoClient
  <1>8. CASE Is(FileServer, FileClient)
    BY <1>8 DEF FileServer
  <1>9. QED
    BY <1>1, <1>2, <1>3, <1>4, <1>5, <1>6, <1>7, <1>8
    DEF Pairs, HelloNamesServer, RequestServer, DaytimeReuseServer, HelloNamesClient,
        MoreHelloClient, V6HelloClient, RequestClient, HelloServer, HelloClient, DaytimeServer

-----------------------------------------------------------------------------
(* One exchange over TCP: types.                                           *)
LEMMA SidesTypes ==
  ASSUME TypeOK, NEW p \in Sides
  PROVE  /\ Other(p) \in Sides /\ Other(p) # p /\ Other(Other(p)) = p
         /\ Sides = {p, Other(p)} /\ Sides = {"server", "client"}
         /\ pc[p] \in Nat /\ pc[p] >= 1 /\ pc[p] <= Len(pair[p]) + 1
         /\ wrote[p] \in Nat /\ got[p] \in Nat /\ got[p] <= wrote[Other(p)]
         /\ Unread(p) \in Nat
         /\ Shape(pair, p) /\ Matched(pair, p)
  <1>1. pair \in Pairs /\ Other(p) \in Sides /\ Other(p) # p /\ Other(Other(p)) = p
    BY DEF TypeOK, Sides, Other
  <1>2. wrote[Other(p)] \in Nat /\ got[p] \in Nat /\ got[p] <= wrote[Other(p)]
    BY <1>1 DEF TypeOK
  <1>3. pc[p] \in Nat /\ pc[p] >= 1 /\ pc[p] <= Len(pair[p]) + 1 /\ wrote[p] \in Nat
    BY <1>1, PairShape DEF TypeOK, Shape
  <1>4. QED
    BY <1>1, <1>2, <1>3, PairShape, PairMatched DEF Unread, Sides, Other

LEMMA TcpLens == MsgLen \in Nat \ {0} /\ BufLen \in Nat \ {0} /\ PointerLen \in 1..MsgLen
                 /\ MsgLen <= BufLen /\ FileLen \in Nat
  BY MsgAssumption, PointerAssumption, FileAssumption

(* The next call of a side.                                                *)
LEMMA ReturnTypes ==
  ASSUME TypeOK, NEW p \in Sides, Return(p), pc[p] \in DOMAIN pair[p]
  PROVE  /\ pair' = pair /\ state' = state
         /\ pc' \in [Sides -> Nat] /\ \A o \in Sides : pc'[o] \in 1..(Len(pair[o]) + 1)
         /\ pc'[p] = pc[p] + 1 /\ pc'[Other(p)] = pc[Other(p)]
  <1>1. /\ pc \in [Sides -> Nat] /\ pc' = [pc EXCEPT ![p] = @ + 1] /\ pair' = pair
        /\ state' = state
    BY DEF Return, TypeOK
  <1>2. pc[p] <= Len(pair[p]) /\ Len(pair[p]) \in Nat
    BY SidesTypes DEF Shape
  <1>3. \A o \in Sides : pc[o] \in 1..(Len(pair[o]) + 1)
    BY DEF TypeOK
  <1>4. ASSUME NEW o \in Sides PROVE pc'[o] \in 1..(Len(pair[o]) + 1)
    BY <1>1, <1>2, <1>3, SidesTypes
  <1>5. QED
    BY <1>1, <1>4, SidesTypes

LEMMA ShutTypes ==
  ASSUME TypeOK, NEW p \in Sides, Shut(p)
  PROVE  /\ link' \in [Sides -> {"none", "open", "closed"}]
         /\ reset' \in [Sides -> BOOLEAN]
  BY SidesTypes DEF TypeOK, Shut

LEMMA LeaveTypes ==
  ASSUME TypeOK, NEW p \in Sides, NEW how \in {"exited", "failed", "killed"}, Leave(p, how)
  PROVE  TypeOK'
  <1>1. link' \in [Sides -> {"none", "open", "closed"}] /\ reset' \in [Sides -> BOOLEAN]
    BY ShutTypes DEF Leave
  <1>2. QED
    BY <1>1 DEF Leave, bytes, file, TypeOK

LEMMA TcpInitTypes == Init => TypeOK
  <1> SUFFICES ASSUME Init PROVE TypeOK
    OBVIOUS
  <1>1. \A p \in Sides : Len(pair[p]) \in 2..5
    BY PairShape DEF Init, Shape
  <1>2. QED
    BY <1>1, TcpLens DEF Init, TypeOK, Sides, Other

LEMMA CallDomain ==
  ASSUME NEW p, NEW c, Calls(p, c)
  PROVE  pc[p] \in DOMAIN pair[p] /\ pair[p][pc[p]] = c /\ state[p] = "running"
  BY DEF Calls

LEMMA TcpStepTypes == TypeOK /\ [Next]_vars => TypeOK'
  <1> SUFFICES ASSUME TypeOK, [Next]_vars PROVE TypeOK'
    OBVIOUS
  <1> USE DEF bytes, file
  <1>1. CASE Accept \/ Connect
    <2>1. PICK p \in Sides :
            /\ Return(p) /\ pc[p] \in DOMAIN pair[p]
            /\ link' = [link EXCEPT ![p] = "open"] /\ UNCHANGED <<reset, bytes, file>>
      BY <1>1, CallDomain DEF Accept, Connect, Sides
    <2>2. QED
      BY <2>1, ReturnTypes DEF TypeOK
  <1>2. ASSUME NEW p \in Sides, Read(p) \/ ReadAll(p) PROVE TypeOK'
    <2>1. /\ pc[p] \in DOMAIN pair[p]
          /\ Return(p) \/ UNCHANGED <<pair, pc, state>>
          /\ UNCHANGED <<link, reset, wrote, file>>
          /\ got' = [got EXCEPT ![p] = @ + Least(BufLen, Unread(p))]
      BY <1>2, CallDomain DEF Read, ReadAll
    <2>2. /\ got' \in [Sides -> Nat] /\ got'[p] <= wrote[Other(p)]
          /\ got'[Other(p)] = got[Other(p)]
      <3>1. /\ got \in [Sides -> Nat] /\ wrote[Other(p)] \in Nat /\ got[p] \in Nat
            /\ got[p] <= wrote[Other(p)] /\ Other(p) \in Sides /\ Other(p) # p
        BY SidesTypes DEF TypeOK
      <3>2. Least(BufLen, Unread(p)) \in Nat /\ Least(BufLen, Unread(p)) <= Unread(p)
        BY <3>1, TcpLens DEF Least, Unread
      <3>3. got'[p] = got[p] + Least(BufLen, Unread(p)) /\ got'[Other(p)] = got[Other(p)]
        BY <2>1, <3>1
      <3>4. got[p] + Least(BufLen, Unread(p)) <= wrote[Other(p)]
        BY <3>1, <3>2 DEF Unread
      <3>5. QED
        BY <2>1, <3>1, <3>2, <3>3, <3>4
    <2>3. \A o \in Sides : got'[o] <= wrote[Other(o)]
      BY <2>2, SidesTypes
    <2>4. QED
      BY <2>1, <2>2, <2>3, ReturnTypes DEF TypeOK
  <1>3. ASSUME NEW p \in Sides,
               ReadEnd(p) \/ Name(p) \/ (p = "client" /\ FileSent)
        PROVE  TypeOK'
    <2>1. pc[p] \in DOMAIN pair[p] /\ Return(p) /\ UNCHANGED <<link, reset, bytes, file>>
      BY <1>3, CallDomain DEF ReadEnd, Name, FileSent
    <2>2. QED
      BY <2>1, ReturnTypes DEF TypeOK
  <1>4. ASSUME NEW p \in Sides, ReadFails(p) \/ WriteFails(p) PROVE TypeOK'
    <2>1. \/ pc[p] \in DOMAIN pair[p] /\ Return(p) /\ UNCHANGED <<link, reset, bytes, file>>
          \/ Leave(p, "failed") \/ Leave(p, "killed")
      BY <1>4, CallDomain DEF ReadFails, WriteFails
    <2>2. QED
      BY <2>1, ReturnTypes, LeaveTypes DEF TypeOK
  <1>5. ASSUME NEW p \in Sides, Write(p) PROVE TypeOK'
    <2>1. PICK m \in Message(p) :
            pc[p] \in DOMAIN pair[p] /\ wrote' = [wrote EXCEPT ![p] = @ + m[2]]
      BY <1>5, CallDomain DEF Write
    <2>2. m[2] \in Nat
      <3>1. m \in {<<"write", MsgLen>>, <<"write_pointer", PointerLen>>, <<"reply", got[p]>>}
        BY DEF Message
      <3>2. MsgLen \in Nat /\ PointerLen \in Nat /\ got[p] \in Nat
        BY SidesTypes, TcpLens
      <3>3. QED
        BY ONLY <3>1, <3>2
    <2>3. /\ wrote' \in [Sides -> Nat] /\ wrote'[p] >= wrote[p]
          /\ wrote'[Other(p)] = wrote[Other(p)]
      <3>1. wrote \in [Sides -> Nat] /\ Other(p) \in Sides /\ Other(p) # p
        BY SidesTypes DEF TypeOK
      <3>2. wrote[p] + m[2] \in Nat /\ wrote[p] + m[2] >= wrote[p]
        BY <2>2, <3>1
      <3>3. wrote'[p] = wrote[p] + m[2] /\ wrote'[Other(p)] = wrote[Other(p)]
        BY <2>1, <3>1
      <3>4. QED
        BY <2>1, <3>1, <3>2, <3>3
    <2>4. \A o \in Sides : got[o] <= wrote'[Other(o)]
      BY <2>3, SidesTypes
    <2>5. Return(p) /\ UNCHANGED <<link, reset, got, file>>
      BY <1>5 DEF Write
    <2>6. QED
      BY <2>1, <2>3, <2>4, <2>5, ReturnTypes DEF TypeOK
  <1>6. ASSUME NEW p \in Sides, WriteToClosed(p) PROVE TypeOK'
    <2>1. /\ pc[p] \in DOMAIN pair[p] /\ (Return(p) \/ UNCHANGED <<pair, pc, state>>)
          /\ reset' = [reset EXCEPT ![p] = TRUE] /\ UNCHANGED <<link, bytes, file>>
      BY <1>6, CallDomain DEF WriteToClosed
    <2>2. QED
      BY <2>1, ReturnTypes DEF TypeOK
  <1>7. ASSUME NEW p \in Sides, Close(p) PROVE TypeOK'
    <2>1. /\ pc[p] \in DOMAIN pair[p] /\ Return(p) /\ Shut(p) /\ UNCHANGED <<bytes, file>>
      BY <1>7, CallDomain DEF Close
    <2>2. QED
      BY <2>1, ReturnTypes, ShutTypes DEF TypeOK
  <1>8. ASSUME NEW p \in Sides,
               Exit(p) \/ Kill(p) \/ NameTooLong(p) \/ (p = "client" /\ ConnectFails)
        PROVE  TypeOK'
    BY <1>8, LeaveTypes DEF Exit, Kill, NameTooLong, ConnectFails
  <1>9. CASE ReadPiece
    <2> DEFINE n == Least(BufLen - held, Unread("server"))
    <2>1. /\ n \in Nat /\ n <= Unread("server") /\ held + n <= BufLen
          /\ Unread("server") = wrote["client"] - got["server"]
      BY SidesTypes, TcpLens DEF Least, Sides, Other, Unread, TypeOK
    <2>2. /\ got' = [got EXCEPT !["server"] = @ + n]
          /\ held' = IF held + n = BufLen THEN 0 ELSE held + n
          /\ stored' = IF held + n = BufLen THEN stored + BufLen ELSE stored
          /\ UNCHANGED <<pair, pc, state, link, reset, wrote>>
      BY <1>9 DEF ReadPiece
    <2> HIDE DEF n
    <2>3. held' \in 0..(BufLen - 1) /\ stored' \in Nat
      BY <2>1, <2>2, TcpLens DEF TypeOK
    <2>4. got' \in [Sides -> Nat] /\ \A o \in Sides : got'[o] <= wrote[Other(o)]
      <3>1. /\ Sides = {"server", "client"} /\ Other("server") = "client"
            /\ got \in [Sides -> Nat] /\ wrote \in [Sides -> Nat]
            /\ \A o \in Sides : got[o] <= wrote[Other(o)]
        BY DEF TypeOK, Sides, Other
      <3>2. got'["server"] = got["server"] + n /\ got'["client"] = got["client"]
        BY <2>2, <3>1
      <3>3. got' \in [Sides -> Nat]
        BY <2>1, <2>2, <3>1
      <3>4. got'["server"] <= wrote["client"]
        BY <2>1, <3>1, <3>2
      <3>5. QED
        BY <3>1, <3>2, <3>3, <3>4
    <2>5. QED
      BY <2>2, <2>3, <2>4 DEF TypeOK
  <1>10. CASE LastPiece
    <2>1. /\ pc["server"] \in DOMAIN pair["server"] /\ Return("server")
          /\ stored' = stored + held /\ held' = 0 /\ UNCHANGED <<link, reset, bytes>>
      BY <1>10, CallDomain DEF LastPiece
    <2>2. QED
      BY <2>1, ReturnTypes, TcpLens DEF TypeOK, Sides
  <1>11. CASE SendFile
    <2>1. /\ wrote' = [wrote EXCEPT !["client"] = @ + 1]
          /\ UNCHANGED <<pair, pc, state, link, reset, got, file>>
      BY <1>11 DEF SendFile
    <2>2. wrote' \in [Sides -> Nat] /\ \A o \in Sides : wrote'[o] >= wrote[o]
      BY <2>1 DEF TypeOK, Sides
    <2>3. \A o \in Sides : got[o] <= wrote'[Other(o)]
      BY <2>2, SidesTypes
    <2>4. QED
      BY <2>1, <2>2, <2>3 DEF TypeOK
  <1>12. CASE UNCHANGED vars
    BY <1>12 DEF vars, TypeOK
  <1>13. QED
    BY <1>1, <1>2, <1>3, <1>4, <1>5, <1>6, <1>7, <1>8, <1>9, <1>10, <1>11, <1>12
    DEF Next, Server, Client, Step, Sides

-----------------------------------------------------------------------------
(* One exchange over TCP: the calls that a side has made.                  *)
LEMMA PastOne ==
  ASSUME TypeOK, NEW p \in Sides, NEW calls, pair' = pair,
         pc[p] \in DOMAIN pair[p], pc'[p] = pc[p] + 1
  PROVE  Past(p, calls)' <=> (Past(p, calls) \/ pair[p][pc[p]] \in calls)
  <1>1. DOMAIN pair[p] = 1..Len(pair[p]) /\ Len(pair[p]) \in 2..5 /\ pc[p] \in Nat
    BY SidesTypes DEF Shape
  <1>2. \A i \in DOMAIN pair[p] : i < pc[p] + 1 <=> i < pc[p] \/ i = pc[p]
    BY <1>1
  <1>3. QED
    BY <1>2 DEF Past

LEMMA PastSame ==
  ASSUME NEW p, NEW calls, pair' = pair, pc'[p] = pc[p]
  PROVE  Past(p, calls)' <=> Past(p, calls)
  BY DEF Past

LEMMA Advance ==
  ASSUME TypeOK, NEW p \in Sides, Return(p), pc[p] \in DOMAIN pair[p]
  PROVE  /\ Past(p, Writes)' <=> (Past(p, Writes) \/ pair[p][pc[p]] \in Writes)
         /\ Past(p, Reads)' <=> (Past(p, Reads) \/ pair[p][pc[p]] \in Reads)
         /\ Past(p, {"read_all", "read_n"})' <=>
              (Past(p, {"read_all", "read_n"}) \/ pair[p][pc[p]] \in {"read_all", "read_n"})
         /\ Past(p, {"read_n"})' <=> (Past(p, {"read_n"}) \/ pair[p][pc[p]] = "read_n")
         /\ Past(p, {"send_file"})' <=>
              (Past(p, {"send_file"}) \/ pair[p][pc[p]] = "send_file")
         /\ Past(p, {"close"})' <=> (Past(p, {"close"}) \/ pair[p][pc[p]] = "close")
  <1>1. pair' = pair /\ pc'[p] = pc[p] + 1
    BY ReturnTypes
  <1>2. QED
    BY <1>1, PastOne DEF Writes, Reads

LEMMA Stay ==
  ASSUME TypeOK, NEW p, pair' = pair, pc'[p] = pc[p]
  PROVE  /\ Past(p, Writes)' <=> Past(p, Writes)
         /\ Past(p, Reads)' <=> Past(p, Reads)
         /\ Past(p, {"read_all", "read_n"})' <=> Past(p, {"read_all", "read_n"})
         /\ Past(p, {"read_n"})' <=> Past(p, {"read_n"})
         /\ Past(p, {"send_file"})' <=> Past(p, {"send_file"})
         /\ Past(p, {"close"})' <=> Past(p, {"close"})
         /\ Over(p)' <=> Over(p)
  BY PastSame DEF Over, Writes, Reads

LEMMA HasSame ==
  ASSUME NEW p, NEW calls, pair' = pair
  PROVE  Has(p, calls)' <=> Has(p, calls)
  BY DEF Has

(* Who is over has made all calls that read or write.                      *)
LEMMA OverPast ==
  ASSUME TypeOK, NEW p \in Sides, Over(p), NEW i \in DOMAIN pair[p],
         pair[p][i] \in DataCalls
  PROVE  i < pc[p]
  <1>1. DOMAIN pair[p] = 1..Len(pair[p]) /\ Len(pair[p]) \in 2..5 /\ pc[p] \in Nat
    BY SidesTypes DEF Shape
  <1>2. CASE Past(p, {"close"})
    <2>1. PICK k \in DOMAIN pair[p] : k < pc[p] /\ pair[p][k] = "close"
      BY <1>2 DEF Past
    <2>2. i < k
      BY <2>1, SidesTypes DEF Shape
    <2>3. QED
      BY <1>1, <2>1, <2>2
  <1>3. CASE pc[p] > Len(pair[p])
    BY <1>1, <1>3
  <1>4. QED
    BY <1>2, <1>3 DEF Over

Done(p) == \A i \in DOMAIN pair[p] : pair[p][i] \in DataCalls => i < pc[p]

LEMMA OverDone ==
  ASSUME TypeOK, NEW p \in Sides, Over(p)
  PROVE  Done(p)
  BY OverPast DEF Done

LEMMA DoneHas ==
  ASSUME NEW p \in Sides, Done(p), NEW calls, calls \subseteq DataCalls, Has(p, calls)
  PROVE  Past(p, calls)
  BY DEF Done, Has, Past

SideRight(p) == ~reset[p] /\ LinkRight(p) /\ WroteRight(p) /\ GotRight(p)

LEMMA CleanRight ==
  ASSUME TcpInv, Clean
  PROVE  \A p \in Sides : SideRight(p)
  BY DEF TcpInv, SideRight

(* It has read all that the other side writes,                             *)
LEMMA DoneRead ==
  ASSUME TcpInv, Clean, NEW p \in Sides, Done(p)
  PROVE  Unread(p) = 0
  <1>1. TypeOK /\ SideRight(p) /\ SideRight(Other(p))
    BY CleanRight, SidesTypes DEF TcpInv
  <1>2. CASE Has(Other(p), Writes) \/ Has(Other(p), {"send_file"})
    <2>1. Matched(pair, Other(p)) /\ Other(Other(p)) = p
      BY <1>1, SidesTypes
    <2>2. Has(p, Reads) \/ Has(p, {"read_all", "read_n"})
      BY <1>2, <2>1 DEF Matched, Calling, Has
    <2>3. Past(p, Reads) \/ Past(p, {"read_all", "read_n"})
      BY <1>1, <2>2, DoneHas DEF DataCalls
    <2>4. QED
      BY <1>1, <2>3, SidesTypes DEF SideRight, GotRight, Unread
  <1>3. CASE ~(Has(Other(p), Writes) \/ Has(Other(p), {"send_file"}))
    <2>1. ~Past(Other(p), Writes)
      BY <1>3 DEF Has, Past
    <2>2. wrote[Other(p)] = 0
      BY <1>1, <1>3, <2>1 DEF SideRight, WroteRight
    <2>3. QED
      BY <1>1, <2>2, SidesTypes DEF Unread
  <1>4. QED
    BY <1>2, <1>3

(* and no side closes its end while the other has something to write.      *)
LEMMA NotClosed ==
  ASSUME TcpInv, Clean, NEW p \in Sides, pc[p] \in DOMAIN pair[p],
         pair[p][pc[p]] \in Writes \cup {"send_file"}
  PROVE  link[Other(p)] # "closed"
  <1> DEFINE o == Other(p)
  <1>1. /\ TypeOK /\ SideRight(o) /\ o \in Sides /\ Other(o) = p /\ SideRight(p)
        /\ pc[p] \in Nat
    BY CleanRight, SidesTypes DEF TcpInv
  <1>2. SUFFICES ASSUME link[o] = "closed" PROVE FALSE
    OBVIOUS
  <1>3. Over(o)
    BY <1>1, <1>2 DEF SideRight, LinkRight
  <1>4. Has(o, Reads) \/ Has(o, {"read_all", "read_n"})
    BY SidesTypes, <1>1 DEF Matched, Calling, Has
  <1>5. CASE Has(o, Reads)
    <2>1. Past(o, Reads)
      BY <1>1, <1>3, <1>5, OverDone, DoneHas DEF DataCalls
    <2>2. Past(p, Writes)
      BY <1>1, <2>1 DEF SideRight, GotRight
    <2>3. PICK k \in DOMAIN pair[p] : k < pc[p] /\ pair[p][k] \in Writes
      BY <2>2 DEF Past
    <2>4. pair[p][pc[p]] \in Writes
      BY <1>1, <2>3, SidesTypes DEF Shape, Calling
    <2>5. QED
      BY <1>1, <2>3, <2>4, SidesTypes DEF Shape
  <1>6. CASE Has(o, {"read_all", "read_n"})
    <2>1. Past(o, {"read_all", "read_n"})
      BY <1>1, <1>3, <1>6, OverDone, DoneHas DEF DataCalls
    <2>2. link[p] = "closed"
      BY <1>1, <2>1 DEF SideRight, GotRight
    <2>3. pc[p] < pc[p]
      BY <1>1, <2>2, OverPast DEF SideRight, LinkRight, DataCalls
    <2>4. QED
      BY <1>1, <2>3
  <1>7. QED
    BY <1>4, <1>5, <1>6

-----------------------------------------------------------------------------
(* One exchange over TCP: receive.txt.                                     *)
LEMMA StoredStep == TcpInv /\ [Next]_vars => StoredRight'
  <1> SUFFICES ASSUME TcpInv, [Next]_vars PROVE StoredRight'
    OBVIOUS
  <1> USE DEF bytes, file
  <1>1. TypeOK /\ StoredRight /\ pair' = pair
    BY DEF TcpInv, Next, Server, Client, Step, Accept, Connect, ConnectFails, Read, ReadEnd,
           ReadFails, ReadAll, ReadPiece, LastPiece, Write, SendFile, FileSent, WriteToClosed,
           WriteFails, Name, NameTooLong, Close, Exit, Kill, Return, Leave, vars
  <1>2. stored \in Nat /\ held \in 0..(BufLen - 1) /\ got \in [Sides -> Nat]
        /\ "server" \in Sides /\ got["server"] \in Nat
    BY <1>1 DEF TypeOK, Sides
  <1>3. CASE ReadPiece
    <2> DEFINE n == Least(BufLen - held, Unread("server"))
    <2>1. n \in Nat
      BY <1>1, SidesTypes, TcpLens DEF Least, Sides, TypeOK
    <2>2. /\ got' = [got EXCEPT !["server"] = @ + n] /\ pc' = pc
          /\ held' = IF held + n = BufLen THEN 0 ELSE held + n
          /\ stored' = IF held + n = BufLen THEN stored + BufLen ELSE stored
          /\ pair["server"][pc["server"]] = "read_n" /\ pc["server"] \in DOMAIN pair["server"]
      BY <1>3, CallDomain DEF ReadPiece
    <2> HIDE DEF n
    <2>3. ~Past("server", {"read_n"})
      <3>1. SUFFICES ASSUME Past("server", {"read_n"}) PROVE FALSE
        OBVIOUS
      <3>2. PICK k \in DOMAIN pair["server"] :
              k < pc["server"] /\ pair["server"][k] = "read_n"
        BY <3>1 DEF Past
      <3>3. pc["server"] < pc["server"] /\ pc["server"] \in Nat
        BY <1>1, <1>2, <2>2, <3>2, SidesTypes DEF Shape
      <3>4. QED
        BY <3>3
    <2>4. ~Past("server", {"read_n"})'
      BY <1>1, <2>2, <2>3, Stay
    <2>5. stored' + held' = stored + held + n /\ got'["server"] = got["server"] + n
      BY <1>2, <2>1, <2>2, TcpLens
    <2>6. QED
      BY <1>1, <1>2, <2>1, <2>2, <2>4, <2>5 DEF StoredRight
  <1>4. CASE LastPiece
    <2>1. stored' = stored + held /\ held' = 0 /\ got' = got
      BY <1>4 DEF LastPiece
    <2>2. QED
      BY <1>1, <1>2, <2>1 DEF StoredRight
  <1>5. ASSUME NEW p \in Sides, Read(p) \/ ReadAll(p) PROVE StoredRight'
    <2>1. /\ pc[p] \in DOMAIN pair[p] /\ pair[p][pc[p]] \in {"read", "read_or_exit", "read_all"}
          /\ UNCHANGED <<stored, held>>
          /\ Return(p) \/ UNCHANGED <<pair, pc, state>>
          /\ got' = [got EXCEPT ![p] = @ + Least(BufLen, Unread(p))]
      BY <1>5, CallDomain DEF Read, ReadAll
    <2>2. ASSUME pair["client"] = FileClient PROVE got'["server"] = got["server"]
      <3>1. pair["server"] = FileServer
        BY <1>1, <2>2
        DEF TypeOK, Pairs, FileClient, HelloClient, HelloCopyClient, HelloNamesClient,
            MoreHelloClient, V6HelloClient, DaytimeClient, FromServerClient, RequestClient,
            AddrInfoClient
      <3>2. p # "server"
        BY <2>1, <3>1 DEF FileServer
      <3>3. QED
        BY <2>1, <3>2, <1>2
    <2>3. Past("server", {"read_n"})' => Past("server", {"read_n"})
      <3>1. CASE Return(p) /\ p = "server"
        BY <1>1, <2>1, <3>1, Advance
      <3>2. CASE pc'["server"] = pc["server"]
        BY <1>1, <3>2, Stay
      <3>3. QED
        BY <1>1, <2>1, <3>1, <3>2, ReturnTypes, SidesTypes
    <2>4. QED
      BY <1>1, <2>1, <2>2, <2>3 DEF StoredRight
  <1>6. ASSUME UNCHANGED <<stored, held, got>>,
               \/ pc'["server"] = pc["server"]
               \/ /\ Return("server") /\ pc["server"] \in DOMAIN pair["server"]
                  /\ pair["server"][pc["server"]] # "read_n"
        PROVE  StoredRight'
    <2>1. Past("server", {"read_n"})' => Past("server", {"read_n"})
      BY <1>1, <1>2, <1>6, Stay, Advance
    <2>2. QED
      BY <1>1, <1>6, <2>1 DEF StoredRight
  <1>7. ASSUME NEW p \in Sides, NEW c, Calls(p, c), c # "read_n", Return(p),
               UNCHANGED <<stored, held, got>>
        PROVE  StoredRight'
    <2>1. pc[p] \in DOMAIN pair[p] /\ pair[p][pc[p]] # "read_n"
      BY <1>7, CallDomain
    <2>2. CASE p = "server"
      BY <1>6, <1>7, <2>1, <2>2
    <2>3. CASE p = "client"
      BY <1>1, <1>6, <1>7, <2>1, <2>3, ReturnTypes DEF Sides, Other
    <2>4. QED
      BY <2>2, <2>3 DEF Sides
  <1>8. CASE Accept \/ Connect \/ FileSent
    BY <1>7, <1>8 DEF Accept, Connect, FileSent, Sides
  <1>9. ASSUME NEW p \in Sides,
               \/ ReadEnd(p) \/ ReadFails(p) \/ Write(p) \/ WriteToClosed(p) \/ WriteFails(p)
               \/ Name(p) \/ Close(p)
        PROVE  StoredRight'
    <2>1. CASE ReadEnd(p) \/ ReadFails(p) \/ Name(p) \/ Close(p)
      BY <1>6, <1>7, <1>9, <2>1 DEF ReadEnd, ReadFails, Name, Close, Leave
    <2>2. CASE Write(p) \/ WriteToClosed(p) \/ WriteFails(p)
      BY <1>6, <1>7, <2>2 DEF Write, WriteToClosed, WriteFails, Message, Leave
    <2>3. QED
      BY <1>9, <2>1, <2>2
  <1>10. CASE SendFile \/ ConnectFails
    BY <1>6, <1>10 DEF SendFile, ConnectFails, Leave
  <1>11. ASSUME NEW p \in Sides, Exit(p) \/ Kill(p) \/ NameTooLong(p) PROVE StoredRight'
    BY <1>6, <1>11 DEF Exit, Kill, NameTooLong, Leave
  <1>12. CASE UNCHANGED vars
    BY <1>6, <1>12 DEF vars
  <1>13. QED
    BY <1>3, <1>4, <1>5, <1>8, <1>9, <1>10, <1>11, <1>12 DEF Next, Server, Client, Step, Sides

-----------------------------------------------------------------------------
(* One exchange over TCP: what each side has written and read.             *)
LEMMA CleanBefore ==
  ASSUME TypeOK, [Next]_vars, Clean'
  PROVE  Clean
  <1>1. ASSUME NEW p \in Sides, NEW how \in {"exited", "failed", "killed"},
               state[p] = "running", Leave(p, how)
        PROVE  Clean
    BY <1>1, SidesTypes DEF Leave, Clean, TypeOK
  <1>2. CASE state' = state
    BY <1>2 DEF Clean
  <1>3. QED
    BY <1>1, <1>2
    DEF Next, Server, Client, Step, Accept, Connect, ConnectFails, Read, ReadEnd,
        ReadFails, ReadAll, ReadPiece, LastPiece, Write, SendFile, FileSent, WriteToClosed,
        WriteFails, Name, NameTooLong, Close, Exit, Kill, Return, Calls, vars, Sides

LEMMA LeaveUnclean ==
  ASSUME TypeOK, NEW p \in Sides, NEW how \in {"failed", "killed"}, Leave(p, how)
  PROVE  ~Clean'
  BY DEF TypeOK, Leave, Clean

LEMMA BothSides ==
  ASSUME NEW p \in Sides, SideRight(p)', SideRight(Other(p))'
  PROVE  \A o \in Sides : SideRight(o)'
  <1>1. CASE p = "server"
    <2>1. SideRight("server")'
      BY <1>1
      DEF SideRight, LinkRight, WroteRight, GotRight, Over, Past, Has
    <2>2. SideRight("client")'
      BY <1>1
      DEF Other, SideRight, LinkRight, WroteRight, GotRight, Over, Past, Has
    <2>3. QED
      BY <2>1, <2>2 DEF Sides
  <1>2. CASE p = "client"
    <2>1. SideRight("client")'
      BY <1>2
      DEF SideRight, LinkRight, WroteRight, GotRight, Over, Past, Has
    <2>2. SideRight("server")'
      BY <1>2
      DEF Other, SideRight, LinkRight, WroteRight, GotRight, Over, Past, Has
    <2>3. QED
      BY <2>1, <2>2 DEF Sides
  <1>3. QED
    BY <1>1, <1>2 DEF Sides

(* What a step of p leaves to the other side.                              *)
LEMMA OtherRight ==
  ASSUME TcpInv, Clean, NEW p \in Sides, pair' = pair,
         pc'[Other(p)] = pc[Other(p)], state'[Other(p)] = state[Other(p)],
         link'[Other(p)] = link[Other(p)], ~reset'[Other(p)],
         wrote'[Other(p)] = wrote[Other(p)], got'[Other(p)] = got[Other(p)],
         link[p] = "closed" => link'[p] = "closed" /\ wrote'[p] = wrote[p],
         Past(p, Writes) => Past(p, Writes)' /\ wrote'[p] = wrote[p]
  PROVE  SideRight(Other(p))'
  <1> DEFINE o == Other(p)
  <1>1. TypeOK /\ SideRight(o) /\ SideRight(p) /\ o \in Sides /\ Other(o) = p
    BY CleanRight, SidesTypes DEF TcpInv
  <1>2. /\ Past(o, Writes)' <=> Past(o, Writes)
        /\ Past(o, Reads)' <=> Past(o, Reads)
        /\ Past(o, {"read_all", "read_n"})' <=> Past(o, {"read_all", "read_n"})
        /\ Past(o, {"send_file"})' <=> Past(o, {"send_file"})
        /\ Over(o)' <=> Over(o)
    BY <1>1, Stay
  <1>3. /\ Has(o, Reads)' <=> Has(o, Reads)
        /\ Has(o, {"send_file"})' <=> Has(o, {"send_file"})
    BY HasSame DEF Reads
  <1>4. LinkRight(o)'
    BY <1>1, <1>2 DEF SideRight, LinkRight
  <1>5. WroteRight(o)'
    BY <1>1, <1>2, <1>3 DEF SideRight, WroteRight
  <1>6. GotRight(o)'
    BY <1>1, <1>2, <1>3 DEF SideRight, GotRight
  <1>7. QED
    BY <1>4, <1>5, <1>6 DEF SideRight

(* A call that neither writes nor reads, and at most opens the connection. *)
LEMMA PlainCall ==
  ASSUME TcpInv, Clean, NEW p \in Sides, Return(p), pc[p] \in DOMAIN pair[p],
         pair[p][pc[p]] \notin DataCalls, UNCHANGED <<reset, bytes>>,
         \/ link' = [link EXCEPT ![p] = "open"] /\ link[p] # "closed"
         \/ link' = link /\ link[p] # "none"
  PROVE  SideRight(p)' /\ SideRight(Other(p))'
  <1> USE DEF bytes
  <1>1. /\ TypeOK /\ SideRight(p) /\ SideRight(Other(p)) /\ Other(p) \in Sides /\ Other(p) # p
        /\ link \in [Sides -> {"none", "open", "closed"}]
    BY CleanRight, SidesTypes DEF TcpInv, TypeOK
  <1>2. /\ pair' = pair /\ state' = state /\ pc'[p] = pc[p] + 1
        /\ pc'[Other(p)] = pc[Other(p)] /\ pc[p] \in Nat /\ Len(pair[p]) \in Nat
    BY <1>1, ReturnTypes, SidesTypes DEF Shape
  <1>3. /\ Past(p, Writes)' <=> Past(p, Writes)
        /\ Past(p, Reads)' <=> Past(p, Reads)
        /\ Past(p, {"read_all", "read_n"})' <=> Past(p, {"read_all", "read_n"})
        /\ Past(p, {"send_file"})' <=> Past(p, {"send_file"})
        /\ Past(p, {"close"}) => Past(p, {"close"})'
    BY <1>1, Advance DEF DataCalls
  <1>4. /\ Has(p, Reads)' <=> Has(p, Reads)
        /\ Has(p, {"send_file"})' <=> Has(p, {"send_file"})
    BY <1>2, HasSame DEF Reads
  <1>5. link'[p] # "none" /\ link'[Other(p)] = link[Other(p)]
        /\ (link'[p] = "closed" <=> link[p] = "closed")
    BY <1>1
  <1>6. LinkRight(p)'
    BY <1>1, <1>2, <1>3, <1>5 DEF SideRight, LinkRight, Over
  <1>7. WroteRight(p)' /\ GotRight(p)'
    <2>1. Past(Other(p), Writes)' <=> Past(Other(p), Writes)
      BY <1>1, <1>2, Stay
    <2>2. QED
      BY <1>1, <1>3, <1>4, <1>5, <2>1 DEF SideRight, WroteRight, GotRight
  <1>8. SideRight(Other(p))'
    BY <1>1, <1>2, <1>3, <1>5, OtherRight DEF SideRight
  <1>9. QED
    BY <1>1, <1>6, <1>7, <1>8 DEF SideRight

(* The connection of a side that has made its first call.                  *)
LEMMA LinkMade ==
  ASSUME TcpInv, Clean, NEW p \in Sides, pc[p] \in DOMAIN pair[p],
         pair[p][pc[p]] \in DataCalls \cup {"close", "name"}
  PROVE  link[p] # "none"
  BY CleanRight, SidesTypes DEF TcpInv, SideRight, LinkRight, Shape

LEMMA OpenCalls ==
  ASSUME TcpInv, Clean, Accept \/ Connect
  PROVE  \A p \in Sides : SideRight(p)'
  <1>1. ASSUME NEW p \in Sides, NEW c, Calls(p, c), c \in {"accept", "connect"}, Return(p),
               link' = [link EXCEPT ![p] = "open"], UNCHANGED <<reset, bytes>>,
               link[p] # "closed"
        PROVE  \A o \in Sides : SideRight(o)'
    <2>1. pc[p] \in DOMAIN pair[p] /\ pair[p][pc[p]] \notin DataCalls
      BY <1>1, CallDomain DEF DataCalls, Writes, Reads
    <2>2. QED
      BY <1>1, <2>1, PlainCall, BothSides
  <1>2. CASE Accept
    BY <1>1, <1>2 DEF Accept, Sides
  <1>3. CASE Connect
    <2>1. /\ pc["client"] \in DOMAIN pair["client"] /\ pair["client"][pc["client"]] = "connect"
          /\ TypeOK /\ "client" \in Sides
      BY <1>3, CallDomain DEF Connect, TcpInv, Sides
    <2>2. /\ pc["client"] = 1 /\ Len(pair["client"]) \in 2..5
          /\ DOMAIN pair["client"] = 1..Len(pair["client"])
      BY <2>1, SidesTypes DEF Shape
    <2>3. ~Over("client")
      BY <2>1, <2>2 DEF Over, Past
    <2>4. link["client"] # "closed"
      BY <2>1, <2>3, CleanRight DEF SideRight, LinkRight
    <2>5. QED
      BY <1>1, <1>3, <2>1, <2>4 DEF Connect
  <1>4. QED
    BY <1>2, <1>3

(* read finds the whole message, or sees the end when there will be no     *)
(* more.                                                                   *)
LEMMA ReadRight ==
  ASSUME TcpInv, Clean, NEW p \in Sides, Read(p)
  PROVE  SideRight(p)' /\ SideRight(Other(p))'
  <1> DEFINE o == Other(p)
  <1> USE DEF bytes
  <1>1. /\ TypeOK /\ SideRight(p) /\ SideRight(o) /\ o \in Sides /\ o # p /\ Other(o) = p
        /\ link \in [Sides -> {"none", "open", "closed"}] /\ got \in [Sides -> Nat]
    BY CleanRight, SidesTypes DEF TcpInv, TypeOK
  <1>2. /\ pc[p] \in DOMAIN pair[p] /\ pair[p][pc[p]] \in Reads /\ Return(p)
        /\ Unread(p) > 0 /\ UNCHANGED <<link, reset, wrote>>
        /\ got' = [got EXCEPT ![p] = @ + Least(BufLen, Unread(p))]
    BY CallDomain DEF Read, Reads
  <1>3. /\ pair' = pair /\ state' = state /\ pc'[p] = pc[p] + 1
        /\ pc'[o] = pc[o] /\ pc[p] \in Nat /\ Len(pair[p]) \in Nat
    BY <1>1, <1>2, ReturnTypes, SidesTypes DEF Shape
  <1>4. Has(p, Reads) /\ ~Has(p, {"read_all", "read_n"}) /\ ~Past(p, {"read_all", "read_n"})
    BY <1>1, <1>2, SidesTypes DEF Has, Past, Shape, Calling
  <1>5. ~Past(p, Reads)
    BY <1>1, <1>2, <1>3, SidesTypes DEF Past, Shape
  <1>6. got[p] = 0 /\ wrote[o] # 0
    BY <1>1, <1>2, <1>4, <1>5, SidesTypes DEF SideRight, GotRight, Unread
  <1>7. Has(o, Writes) /\ ~Has(o, {"send_file"})
    BY <1>1, <1>4, SidesTypes DEF Matched, Calling, Has, Shape
  <1>8. Past(o, Writes) /\ wrote[o] \in 1..BufLen
    BY <1>1, <1>6, <1>7 DEF SideRight, WroteRight
  <1>9. Unread(p) = wrote[o] /\ Least(BufLen, wrote[o]) = wrote[o]
    BY <1>1, <1>6, <1>8, SidesTypes, TcpLens DEF Unread, Least
  <1>10. got'[p] = wrote[o] /\ got'[o] = got[o]
    <2>1. got[p] + Least(BufLen, Unread(p)) = wrote[o]
      BY <1>1, <1>6, <1>8, <1>9
    <2>2. QED
      BY <1>1, <1>2, <2>1
  <1>11. /\ Past(p, Writes)' <=> Past(p, Writes)
         /\ ~Past(p, {"read_all", "read_n"})' /\ Past(p, Reads)'
         /\ Past(p, {"send_file"})' <=> Past(p, {"send_file"})
         /\ Past(p, {"close"}) => Past(p, {"close"})'
    BY <1>1, <1>2, <1>4, Advance DEF Reads, Writes
  <1>12. /\ Has(p, {"send_file"})' <=> Has(p, {"send_file"})
         /\ Past(o, Writes)'
    BY <1>1, <1>3, <1>8, HasSame, Stay
  <1>13. link[p] # "none"
    BY <1>2, LinkMade DEF DataCalls
  <1>14. LinkRight(p)'
    BY <1>1, <1>2, <1>3, <1>11, <1>13 DEF SideRight, LinkRight, Over
  <1>15. WroteRight(p)' /\ GotRight(p)'
    BY <1>1, <1>2, <1>10, <1>11, <1>12 DEF SideRight, WroteRight, GotRight
  <1>16. SideRight(o)'
    BY <1>1, <1>2, <1>3, <1>10, <1>11, OtherRight DEF SideRight
  <1>17. QED
    BY <1>1, <1>2, <1>14, <1>15, <1>16 DEF SideRight

(* read returns 0: the other side is over, and so has written what there   *)
(* was to read, which a single read would have found.                      *)
LEMMA AtEndRight ==
  ASSUME TcpInv, Clean, NEW p \in Sides, Return(p), pc[p] \in DOMAIN pair[p],
         pair[p][pc[p]] \in Reads \cup {"read_all", "read_n"}, AtEnd(p),
         UNCHANGED <<link, reset, bytes>>
  PROVE  SideRight(p)' /\ SideRight(Other(p))'
  <1> DEFINE o == Other(p)
  <1> USE DEF bytes
  <1>1. /\ TypeOK /\ SideRight(p) /\ SideRight(o) /\ o \in Sides /\ o # p /\ Other(o) = p
        /\ Unread(p) = 0 /\ link[o] = "closed"
    BY CleanRight, SidesTypes DEF TcpInv, AtEnd
  <1>2. /\ pair' = pair /\ state' = state /\ pc'[p] = pc[p] + 1
        /\ pc'[o] = pc[o] /\ pc[p] \in Nat /\ Len(pair[p]) \in Nat
    BY <1>1, ReturnTypes, SidesTypes DEF Shape
  <1>3. got[p] = wrote[o]
    BY <1>1, SidesTypes DEF Unread
  <1>4. pair[p][pc[p]] \notin Reads
    <2>1. SUFFICES ASSUME pair[p][pc[p]] \in Reads PROVE FALSE
      OBVIOUS
    <2>2. ~Past(p, Reads) /\ Has(p, Reads)
      BY <1>1, <1>2, <2>1, SidesTypes DEF Past, Shape, Has
    <2>3. got[p] = 0
      BY <1>1, <2>2 DEF SideRight, GotRight
    <2>4. Has(o, Writes) /\ Over(o)
      BY <1>1, <2>2, SidesTypes DEF Matched, Calling, Has, SideRight, LinkRight
    <2>5. Past(o, Writes)
      BY <1>1, <2>4, OverDone, DoneHas DEF DataCalls
    <2>6. wrote[o] # 0
      BY <1>1, <2>5 DEF SideRight, WroteRight
    <2>7. QED
      BY <1>3, <2>3, <2>6
  <1>5. /\ Past(p, Writes)' <=> Past(p, Writes)
        /\ Past(p, Reads)' <=> Past(p, Reads)
        /\ Past(p, {"send_file"})' <=> Past(p, {"send_file"})
        /\ Past(p, {"close"}) => Past(p, {"close"})'
    BY <1>1, <1>4, Advance DEF Writes, Reads
  <1>6. /\ Has(p, Reads)' <=> Has(p, Reads)
        /\ Has(p, {"send_file"})' <=> Has(p, {"send_file"})
        /\ Past(o, Writes)' <=> Past(o, Writes)
    BY <1>1, <1>2, HasSame, Stay DEF Reads
  <1>7. link[p] # "none"
    BY LinkMade DEF DataCalls
  <1>8. LinkRight(p)'
    BY <1>1, <1>2, <1>5, <1>7 DEF SideRight, LinkRight, Over
  <1>9. WroteRight(p)' /\ GotRight(p)'
    BY <1>1, <1>2, <1>3, <1>5, <1>6 DEF SideRight, WroteRight, GotRight
  <1>10. SideRight(o)'
    BY <1>1, <1>2, <1>5, OtherRight DEF SideRight
  <1>11. QED
    BY <1>1, <1>8, <1>9, <1>10 DEF SideRight

(* One of several reads.                                                   *)
LEMMA PieceRight ==
  ASSUME TcpInv, Clean, NEW p \in Sides, pc[p] \in DOMAIN pair[p],
         pair[p][pc[p]] \in {"read_all", "read_n"}, Unread(p) > 0,
         UNCHANGED <<pair, pc, state, link, reset, wrote>>, got'[Other(p)] = got[Other(p)]
  PROVE  SideRight(p)' /\ SideRight(Other(p))'
  <1> DEFINE o == Other(p)
  <1>1. /\ TypeOK /\ SideRight(p) /\ SideRight(o) /\ o \in Sides /\ o # p /\ Other(o) = p
    BY CleanRight, SidesTypes DEF TcpInv
  <1>2. Has(p, {"read_all", "read_n"}) /\ ~Has(p, Reads)
    BY <1>1, SidesTypes DEF Has, Shape, Calling
  <1>3. ~Past(p, Reads) /\ ~Past(p, {"read_all", "read_n"})
    BY <1>1, <1>2, SidesTypes DEF SideRight, GotRight, Unread, Past, Has
  <1>4. /\ Past(p, Writes)' <=> Past(p, Writes)
        /\ Past(p, Reads)' <=> Past(p, Reads)
        /\ Past(p, {"read_all", "read_n"})' <=> Past(p, {"read_all", "read_n"})
        /\ Past(p, {"send_file"})' <=> Past(p, {"send_file"})
        /\ Over(p)' <=> Over(p)
    BY <1>1, Stay
  <1>5. /\ Has(p, Reads)' <=> Has(p, Reads)
        /\ Has(p, {"send_file"})' <=> Has(p, {"send_file"})
    BY HasSame DEF Reads
  <1>6. LinkRight(p)' /\ WroteRight(p)'
    BY <1>1, <1>4, <1>5 DEF SideRight, LinkRight, WroteRight
  <1>7. GotRight(p)'
    BY <1>2, <1>3, <1>4, <1>5 DEF GotRight
  <1>8. SideRight(o)'
    BY <1>1, <1>4, OtherRight DEF SideRight
  <1>9. QED
    BY <1>1, <1>6, <1>7, <1>8 DEF SideRight

(* A message is written once, and before it nothing.                       *)
LEMMA WriteRight ==
  ASSUME TcpInv, Clean, NEW p \in Sides, Write(p)
  PROVE  SideRight(p)' /\ SideRight(Other(p))'
  <1> DEFINE o == Other(p)
  <1>1. /\ TypeOK /\ SideRight(p) /\ SideRight(o) /\ o \in Sides /\ o # p /\ Other(o) = p
        /\ link \in [Sides -> {"none", "open", "closed"}] /\ wrote \in [Sides -> Nat]
    BY CleanRight, SidesTypes DEF TcpInv, TypeOK
  <1>2. PICK m \in Message(p) : Calls(p, m[1]) /\ wrote' = [wrote EXCEPT ![p] = @ + m[2]]
    BY DEF Write
  <1>3. /\ pc[p] \in DOMAIN pair[p] /\ pair[p][pc[p]] = m[1] /\ Return(p)
        /\ UNCHANGED <<link, reset, got>>
    BY <1>2, CallDomain DEF Write
  <1>4. pair[p][pc[p]] \in Writes
    BY <1>3 DEF Message, Writes
  <1>5. /\ pair' = pair /\ state' = state /\ pc'[p] = pc[p] + 1
        /\ pc'[o] = pc[o] /\ pc[p] \in Nat /\ Len(pair[p]) \in Nat
    BY <1>1, <1>3, ReturnTypes, SidesTypes DEF Shape
  <1>6. Has(p, Writes) /\ ~Has(p, {"send_file"}) /\ ~Past(p, {"send_file"}) /\ ~Past(p, Writes)
    BY <1>1, <1>3, <1>4, <1>5, SidesTypes DEF Has, Past, Shape, Calling
  <1>7. wrote[p] = 0
    BY <1>1, <1>6 DEF SideRight, WroteRight
  <1>8. link[p] # "closed" /\ link[p] # "none"
    <2>1. link[p] # "none"
      BY <1>3, <1>4, LinkMade DEF DataCalls
    <2>2. ~Over(p)
      BY <1>1, <1>3, <1>4, <1>5, OverPast DEF DataCalls
    <2>3. QED
      BY <1>1, <2>1, <2>2 DEF SideRight, LinkRight
  <1>9. m[2] \in 1..BufLen
    <2>1. CASE m[1] = "reply"
      <3>1. PICK k \in DOMAIN pair[p] : k < pc[p] /\ pair[p][k] \in Reads
        BY <1>1, <1>3, <2>1, SidesTypes DEF Shape
      <3>2. Past(p, Reads)
        BY <3>1 DEF Past
      <3>3. got[p] \in 1..BufLen
        BY <1>1, <3>2 DEF SideRight, GotRight, WroteRight
      <3>4. m = <<"reply", got[p]>>
        BY <2>1 DEF Message
      <3>5. QED
        BY <3>3, <3>4
    <2>2. CASE m[1] # "reply"
      <3>1. m = <<"write", MsgLen>> \/ m = <<"write_pointer", PointerLen>>
        BY <2>2 DEF Message
      <3>2. QED
        BY <3>1, TcpLens
    <2>3. QED
      BY <2>1, <2>2
  <1>10. wrote'[p] \in 1..BufLen /\ wrote'[o] = wrote[o]
    BY <1>1, <1>2, <1>7, <1>9
  <1>11. /\ Past(p, Writes)'
         /\ Past(p, Reads)' <=> Past(p, Reads)
         /\ Past(p, {"read_all", "read_n"})' <=> Past(p, {"read_all", "read_n"})
         /\ ~Past(p, {"send_file"})'
         /\ Past(p, {"close"}) => Past(p, {"close"})'
    BY <1>1, <1>3, <1>4, <1>6, Advance DEF Writes, Reads
  <1>12. /\ Has(p, Reads)' <=> Has(p, Reads)
         /\ Past(o, Writes)' <=> Past(o, Writes)
    BY <1>1, <1>5, HasSame, Stay DEF Reads
  <1>13. LinkRight(p)'
    BY <1>1, <1>3, <1>5, <1>8, <1>11 DEF SideRight, LinkRight, Over
  <1>14. WroteRight(p)' /\ GotRight(p)'
    BY <1>1, <1>3, <1>10, <1>11, <1>12 DEF SideRight, WroteRight, GotRight
  <1>15. SideRight(o)'
    BY <1>1, <1>3, <1>5, <1>6, <1>8, <1>10, OtherRight DEF SideRight
  <1>16. QED
    BY <1>1, <1>3, <1>13, <1>14, <1>15 DEF SideRight

(* The file goes through the connection piece by piece.                    *)
LEMMA SendRight ==
  ASSUME TcpInv, Clean, SendFile
  PROVE  SideRight("client")' /\ SideRight("server")'
  <1>1. /\ TypeOK /\ SideRight("client") /\ SideRight("server") /\ "client" \in Sides
        /\ "server" \in Sides /\ Other("client") = "server" /\ Other("server") = "client"
        /\ wrote \in [Sides -> Nat]
    BY CleanRight, SidesTypes DEF TcpInv, TypeOK, Other, Sides
  <1>2. /\ pc["client"] \in DOMAIN pair["client"]
        /\ pair["client"][pc["client"]] = "send_file" /\ wrote["client"] < FileLen
        /\ wrote' = [wrote EXCEPT !["client"] = @ + 1]
        /\ UNCHANGED <<pair, pc, state, link, reset, got>>
    BY CallDomain DEF SendFile, file
  <1>3. Has("client", {"send_file"}) /\ ~Past("client", Writes)
    BY <1>1, <1>2, SidesTypes DEF Has, Past, Shape, Calling
  <1>4. ~Past("client", {"send_file"})
    BY <1>1, <1>2, TcpLens DEF SideRight, WroteRight, TypeOK
  <1>5. link["client"] # "closed"
    <2>1. ~Over("client")
      BY <1>1, <1>2, OverPast, SidesTypes DEF DataCalls
    <2>2. QED
      BY <1>1, <2>1 DEF SideRight, LinkRight
  <1>6. /\ Past("client", Writes)' <=> Past("client", Writes)
        /\ Past("client", Reads)' <=> Past("client", Reads)
        /\ Past("client", {"read_all", "read_n"})' <=> Past("client", {"read_all", "read_n"})
        /\ Past("client", {"send_file"})' <=> Past("client", {"send_file"})
        /\ Over("client")' <=> Over("client")
        /\ Past("server", Writes)' <=> Past("server", Writes)
    BY <1>1, <1>2, Stay
  <1>7. /\ Has("client", Reads)' <=> Has("client", Reads)
        /\ Has("client", {"send_file"})' <=> Has("client", {"send_file"})
    BY <1>2, HasSame DEF Reads
  <1>8. wrote'["server"] = wrote["server"]
    BY <1>1, <1>2
  <1>9. LinkRight("client")' /\ WroteRight("client")'
    BY <1>1, <1>2, <1>3, <1>4, <1>6, <1>7 DEF SideRight, LinkRight, WroteRight
  <1>10. GotRight("client")'
    BY <1>1, <1>2, <1>6, <1>7, <1>8 DEF SideRight, GotRight
  <1>11. \A p \in Sides : p = "client" => SideRight(Other(p))'
    BY <1>1, <1>2, <1>3, <1>5, <1>8, OtherRight DEF SideRight
  <1>12. SideRight("server")'
    BY <1>1, <1>11 DEF SideRight, LinkRight, WroteRight, GotRight, Over, Past, Has
  <1>13. QED
    BY <1>1, <1>2, <1>9, <1>10, <1>12 DEF SideRight

LEMMA SentRight ==
  ASSUME TcpInv, Clean, NEW p \in Sides, p = "client", FileSent
  PROVE  SideRight(p)' /\ SideRight(Other(p))'
  <1> DEFINE o == Other(p)
  <1> USE DEF bytes
  <1>1. /\ TypeOK /\ SideRight(p) /\ SideRight(o) /\ o \in Sides /\ o # p /\ Other(o) = p
    BY CleanRight, SidesTypes DEF TcpInv
  <1>2. /\ pc[p] \in DOMAIN pair[p] /\ pair[p][pc[p]] = "send_file" /\ Return(p)
        /\ wrote[p] = FileLen /\ UNCHANGED <<link, reset, bytes>>
    BY CallDomain DEF FileSent
  <1>3. /\ pair' = pair /\ state' = state /\ pc'[p] = pc[p] + 1
        /\ pc'[o] = pc[o] /\ pc[p] \in Nat /\ Len(pair[p]) \in Nat
    BY <1>1, <1>2, ReturnTypes, SidesTypes DEF Shape
  <1>4. Has(p, {"send_file"}) /\ ~Past(p, Writes)
    BY <1>1, <1>2, SidesTypes DEF Has, Past, Shape, Calling
  <1>5. /\ Past(p, Writes)' <=> Past(p, Writes)
        /\ Past(p, Reads)' <=> Past(p, Reads)
        /\ Past(p, {"read_all", "read_n"})' <=> Past(p, {"read_all", "read_n"})
        /\ Past(p, {"close"}) => Past(p, {"close"})'
    BY <1>1, <1>2, Advance DEF Writes, Reads
  <1>6. /\ Has(p, Reads)' <=> Has(p, Reads)
        /\ Has(p, {"send_file"})' <=> Has(p, {"send_file"})
        /\ Past(o, Writes)' <=> Past(o, Writes)
    BY <1>1, <1>3, HasSame, Stay DEF Reads
  <1>7. link[p] # "none"
    BY <1>2, LinkMade DEF DataCalls
  <1>8. LinkRight(p)'
    BY <1>1, <1>2, <1>3, <1>5, <1>7 DEF SideRight, LinkRight, Over
  <1>9. WroteRight(p)' /\ GotRight(p)'
    BY <1>1, <1>2, <1>4, <1>5, <1>6 DEF SideRight, WroteRight, GotRight
  <1>10. SideRight(o)'
    BY <1>1, <1>2, <1>3, <1>5, OtherRight DEF SideRight
  <1>11. QED
    BY <1>1, <1>2, <1>8, <1>9, <1>10 DEF SideRight

(* The end of a connection by close or exit leaves nothing unread, and so  *)
(* resets nobody.                                                          *)
LEMMA ShutQuietly ==
  ASSUME TcpInv, Clean, NEW p \in Sides, Done(p), Shut(p), pc[p] > 1
  PROVE  /\ link[p] # "none" /\ link'[p] = "closed" /\ link'[Other(p)] = link[Other(p)]
         /\ ~reset'[p] /\ ~reset'[Other(p)]
  <1>1. /\ TypeOK /\ SideRight(p) /\ SideRight(Other(p)) /\ Other(p) \in Sides
        /\ Other(p) # p
        /\ link \in [Sides -> {"none", "open", "closed"}] /\ reset \in [Sides -> BOOLEAN]
    BY CleanRight, SidesTypes DEF TcpInv, TypeOK
  <1>2. Unread(p) = 0
    BY DoneRead
  <1>3. link[p] # "none"
    BY <1>1 DEF SideRight, LinkRight
  <1>4. ~Refuses(p)
    BY <1>2, <1>3 DEF Refuses
  <1>5. QED
    BY <1>1, <1>3, <1>4 DEF Shut, SideRight

LEMMA CloseRight ==
  ASSUME TcpInv, Clean, NEW p \in Sides, Close(p)
  PROVE  SideRight(p)' /\ SideRight(Other(p))'
  <1> DEFINE o == Other(p)
  <1> USE DEF bytes
  <1>1. /\ TypeOK /\ SideRight(p) /\ SideRight(o) /\ o \in Sides /\ o # p /\ Other(o) = p
    BY CleanRight, SidesTypes DEF TcpInv
  <1>2. /\ pc[p] \in DOMAIN pair[p] /\ pair[p][pc[p]] = "close" /\ Return(p) /\ Shut(p)
        /\ UNCHANGED bytes
    BY CallDomain DEF Close
  <1>3. /\ pair' = pair /\ state' = state /\ pc'[p] = pc[p] + 1
        /\ pc'[o] = pc[o] /\ pc[p] \in Nat /\ Len(pair[p]) \in Nat
    BY <1>1, <1>2, ReturnTypes, SidesTypes DEF Shape
  <1>4. Done(p) /\ pc[p] > 1
    BY <1>1, <1>2, SidesTypes DEF Done, Shape
  <1>5. /\ link[p] # "none" /\ link'[p] = "closed" /\ link'[o] = link[o]
        /\ ~reset'[p] /\ ~reset'[o]
    BY <1>2, <1>4, ShutQuietly
  <1>6. /\ Past(p, Writes)' <=> Past(p, Writes)
        /\ Past(p, Reads)' <=> Past(p, Reads)
        /\ Past(p, {"read_all", "read_n"})' <=> Past(p, {"read_all", "read_n"})
        /\ Past(p, {"send_file"})' <=> Past(p, {"send_file"})
        /\ Past(p, {"close"})'
    BY <1>1, <1>2, Advance DEF Writes, Reads
  <1>7. /\ Has(p, Reads)' <=> Has(p, Reads)
        /\ Has(p, {"send_file"})' <=> Has(p, {"send_file"})
        /\ Past(o, Writes)' <=> Past(o, Writes)
    BY <1>1, <1>3, HasSame, Stay DEF Reads
  <1>8. LinkRight(p)'
    BY <1>1, <1>3, <1>5, <1>6 DEF SideRight, LinkRight, Over
  <1>9. WroteRight(p)' /\ GotRight(p)'
    BY <1>1, <1>2, <1>5, <1>6, <1>7 DEF SideRight, WroteRight, GotRight
  <1>10. SideRight(o)'
    BY <1>1, <1>2, <1>3, <1>5, <1>6, OtherRight DEF SideRight
  <1>11. QED
    BY <1>5, <1>8, <1>9, <1>10 DEF SideRight

LEMMA ExitRight ==
  ASSUME TcpInv, Clean, NEW p \in Sides, Exit(p)
  PROVE  SideRight(p)' /\ SideRight(Other(p))'
  <1> DEFINE o == Other(p)
  <1> USE DEF bytes
  <1>1. /\ TypeOK /\ SideRight(p) /\ SideRight(o) /\ o \in Sides /\ o # p /\ Other(o) = p
        /\ state \in [Sides -> {"running", "exited", "failed", "killed"}]
    BY CleanRight, SidesTypes DEF TcpInv, TypeOK
  <1>2. /\ pc[p] > Len(pair[p]) /\ state' = [state EXCEPT ![p] = "exited"] /\ Shut(p)
        /\ UNCHANGED <<pair, pc, bytes>>
    BY DEF Exit, Leave
  <1>3. Over(p) /\ Done(p) /\ pc[p] > 1
    <2>1. Over(p)
      BY <1>2 DEF Over
    <2>2. Len(pair[p]) \in 2..5 /\ pc[p] \in Nat
      BY <1>1, SidesTypes DEF Shape
    <2>3. pc[p] > 1
      <3>1. pc[p] > Len(pair[p])
        BY <1>2
      <3>2. QED
        BY ONLY <2>2, <3>1
    <2>4. QED
      BY <1>1, <2>1, <2>3, OverDone
  <1>4. /\ link[p] # "none" /\ link'[p] = "closed" /\ link'[o] = link[o]
        /\ ~reset'[p] /\ ~reset'[o]
    BY <1>2, <1>3, ShutQuietly
  <1>5. /\ Past(p, Writes)' <=> Past(p, Writes)
        /\ Past(p, Reads)' <=> Past(p, Reads)
        /\ Past(p, {"read_all", "read_n"})' <=> Past(p, {"read_all", "read_n"})
        /\ Past(p, {"send_file"})' <=> Past(p, {"send_file"})
        /\ Over(p)' <=> Over(p)
        /\ Past(o, Writes)' <=> Past(o, Writes)
    BY <1>1, <1>2, Stay
  <1>6. /\ Has(p, Reads)' <=> Has(p, Reads)
        /\ Has(p, {"send_file"})' <=> Has(p, {"send_file"})
    BY <1>2, HasSame DEF Reads
  <1>7. LinkRight(p)'
    BY <1>1, <1>2, <1>3, <1>4, <1>5 DEF SideRight, LinkRight
  <1>8. WroteRight(p)' /\ GotRight(p)'
    BY <1>1, <1>2, <1>4, <1>5, <1>6 DEF SideRight, WroteRight, GotRight
  <1>9. SideRight(o)'
    BY <1>1, <1>2, <1>4, <1>5, OtherRight DEF SideRight
  <1>10. QED
    BY <1>4, <1>7, <1>8, <1>9 DEF SideRight

(* Nobody is reset, and so these calls do not occur.                       *)
LEMMA NoReset ==
  ASSUME TcpInv, Clean, NEW p \in Sides
  PROVE  ~WriteToClosed(p) /\ ~WriteFails(p) /\ ~ReadFails(p)
  <1>1. ~reset[p]
    BY CleanRight DEF SideRight
  <1>2. ~WriteToClosed(p)
    <2>1. SUFFICES ASSUME WriteToClosed(p) PROVE FALSE
      OBVIOUS
    <2>2. /\ pc[p] \in DOMAIN pair[p] /\ pair[p][pc[p]] \in Writes \cup {"send_file"}
          /\ link[Other(p)] = "closed"
      BY <2>1, CallDomain DEF WriteToClosed, Message, Writes
    <2>3. QED
      BY <2>2, NotClosed
  <1>3. QED
    BY <1>1, <1>2 DEF WriteFails, ReadFails

LEMMA StepRight ==
  ASSUME TcpInv, Clean, NEW p \in Sides, Step(p)
  PROVE  SideRight(p)' /\ SideRight(Other(p))'
  <1> USE DEF bytes, file
  <1>1. CASE ReadEnd(p)
    <2>1. /\ Return(p) /\ pc[p] \in DOMAIN pair[p] /\ AtEnd(p) /\ UNCHANGED <<link, reset, bytes>>
          /\ pair[p][pc[p]] \in Reads \cup {"read_all", "read_n"}
      BY <1>1, CallDomain DEF ReadEnd, Reads
    <2>2. QED
      BY <2>1, AtEndRight
  <1>2. CASE ReadAll(p)
    <2>1. /\ pc[p] \in DOMAIN pair[p] /\ pair[p][pc[p]] \in {"read_all", "read_n"}
          /\ Unread(p) > 0 /\ UNCHANGED <<pair, pc, state, link, reset, wrote>>
          /\ got' = [got EXCEPT ![p] = @ + Least(BufLen, Unread(p))]
      BY <1>2, CallDomain DEF ReadAll
    <2>2. got'[Other(p)] = got[Other(p)]
      BY <2>1, SidesTypes DEF TcpInv, TypeOK
    <2>3. QED
      BY <2>1, <2>2, PieceRight
  <1>3. CASE Name(p)
    <2>1. /\ Return(p) /\ pc[p] \in DOMAIN pair[p] /\ pair[p][pc[p]] = "name"
          /\ UNCHANGED <<link, reset, bytes>>
      BY <1>3, CallDomain DEF Name
    <2>2. pair[p][pc[p]] \notin DataCalls /\ link[p] # "none"
      BY <2>1, LinkMade DEF DataCalls, Writes, Reads
    <2>3. QED
      BY <2>1, <2>2, PlainCall
  <1>4. QED
    BY <1>1, <1>2, <1>3, NoReset, ReadRight, WriteRight, CloseRight, ExitRight DEF Step

LEMMA ServerRight ==
  ASSUME TcpInv, Clean, ReadPiece \/ LastPiece
  PROVE  SideRight("server")' /\ SideRight(Other("server"))'
  <1>1. "server" \in Sides /\ TypeOK
    BY DEF Sides, TcpInv
  <1>2. CASE ReadPiece
    <2> DEFINE n == Least(BufLen - held, Unread("server"))
    <2>1. /\ pc["server"] \in DOMAIN pair["server"] /\ pair["server"][pc["server"]] = "read_n"
          /\ Unread("server") > 0 /\ UNCHANGED <<pair, pc, state, link, reset, wrote>>
          /\ got' = [got EXCEPT !["server"] = @ + n]
      BY <1>2, CallDomain DEF ReadPiece
    <2> HIDE DEF n
    <2>2. got'[Other("server")] = got[Other("server")]
      BY <1>1, <2>1, SidesTypes DEF TypeOK
    <2>3. pair["server"][pc["server"]] \in {"read_all", "read_n"}
      BY <2>1
    <2>4. QED
      BY <1>1, <2>1, <2>2, <2>3, PieceRight
  <1>3. CASE LastPiece
    <2>1. /\ Return("server") /\ pc["server"] \in DOMAIN pair["server"] /\ AtEnd("server")
          /\ UNCHANGED <<link, reset, bytes>>
          /\ pair["server"][pc["server"]] \in Reads \cup {"read_all", "read_n"}
      BY <1>3, CallDomain DEF LastPiece
    <2>2. QED
      BY <1>1, <2>1, AtEndRight
  <1>4. QED
    BY <1>2, <1>3

LEMMA TcpStepInv == TcpInv /\ [Next]_vars => TcpInv'
  <1> SUFFICES ASSUME TcpInv, [Next]_vars PROVE TcpInv'
    OBVIOUS
  <1>1. TypeOK' /\ StoredRight' /\ TypeOK
    BY TcpStepTypes, StoredStep DEF TcpInv
  <1>2. ASSUME Clean' PROVE \A o \in Sides : SideRight(o)'
    <2>1. Clean
      BY <1>1, <1>2, CleanBefore
    <2>2. CASE Accept \/ Connect
      BY <2>1, <2>2, OpenCalls
    <2>3. CASE ReadPiece \/ LastPiece
      <3>1. "server" \in Sides
        BY DEF Sides
      <3>2. QED
        BY <2>1, <2>3, <3>1, ServerRight, BothSides
    <2>4. CASE SendFile
      BY <2>1, <2>4, SendRight DEF Sides
    <2>5. CASE FileSent
      <3>1. "client" \in Sides
        BY DEF Sides
      <3>2. QED
        BY <2>1, <2>5, <3>1, SentRight, BothSides
    <2>6. ASSUME NEW p \in Sides, Step(p) PROVE \A o \in Sides : SideRight(o)'
      BY <2>1, <2>6, StepRight, BothSides
    <2>7. ASSUME NEW p \in Sides,
                 NameTooLong(p) \/ Kill(p) \/ (p = "client" /\ ConnectFails)
          PROVE  FALSE
      BY <1>1, <1>2, <2>7, LeaveUnclean DEF NameTooLong, Kill, ConnectFails
    <2>8. CASE UNCHANGED vars
      BY <2>1, <2>8, CleanRight
      DEF vars, bytes, file, SideRight, LinkRight, WroteRight, GotRight, Over, Past, Has
    <2>9. QED
      BY <2>2, <2>3, <2>4, <2>5, <2>6, <2>7, <2>8 DEF Next, Server, Client, Sides
  <1>3. QED
    BY <1>1, <1>2 DEF TcpInv, SideRight

LEMMA TcpInitInv == Init => TcpInv
  <1> SUFFICES ASSUME Init PROVE TcpInv
    OBVIOUS
  <1>1. TypeOK
    BY TcpInitTypes
  <1>2. \A p \in Sides : \A S : ~Past(p, S)
    BY <1>1, SidesTypes DEF Init, Past, Shape
  <1>3. StoredRight
    BY <1>2 DEF Init, StoredRight, Sides
  <1>4. \A p \in Sides : ~reset[p] /\ LinkRight(p) /\ WroteRight(p) /\ GotRight(p)
    BY <1>1, <1>2, SidesTypes DEF Init, LinkRight, WroteRight, GotRight
  <1>5. QED
    BY <1>1, <1>3, <1>4 DEF TcpInv

(* Both sides are over, so both have read what there is; and the file's    *)
(* server has stored it.                                                   *)
LEMMA TcpInvComplete == TcpInv => NothingLost
  <1> SUFFICES ASSUME TcpInv, Through("server"), Through("client")
               PROVE  /\ \A p \in Sides : Unread(p) = 0 /\ ~reset[p]
                      /\ pair["client"] = FileClient => stored = FileLen
    BY DEF NothingLost
  <1>1. TypeOK /\ StoredRight /\ "server" \in Sides /\ "client" \in Sides
    BY DEF TcpInv, Sides
  <1>2. Clean
    BY <1>1 DEF Clean, Through, Calls, Sides
  <1>3. SideRight("server") /\ SideRight("client")
    BY <1>1, <1>2, CleanRight
  <1>4. \A p \in Sides : Over(p)
    BY <1>3 DEF Through, SideRight, LinkRight, Over, Sides
  <1>5. \A p \in Sides : Unread(p) = 0
    BY <1>1, <1>2, <1>4, OverDone, DoneRead
  <1>6. ASSUME pair["client"] = FileClient PROVE stored = FileLen
    <2>1. Has("client", {"send_file"}) /\ Has("server", {"read_n"})
      BY <1>1, <1>6, SidesTypes DEF Matched, Calling, Has
    <2>2. Past("client", {"send_file"}) /\ Past("server", {"read_n"})
      BY <1>1, <1>4, <2>1, OverDone, DoneHas DEF DataCalls
    <2>3. wrote["client"] = FileLen /\ stored + held = got["server"] /\ held = 0
      BY <1>1, <1>3, <1>6, <2>2 DEF SideRight, WroteRight, StoredRight
    <2>4. wrote["client"] = got["server"]
      BY <1>1, <1>5 DEF Unread, Other, TypeOK
    <2>5. QED
      BY <1>1, <2>3, <2>4 DEF TypeOK
  <1>7. QED
    BY <1>3, <1>5, <1>6 DEF SideRight, Sides

(* Any of the pairs: no side reads more than the other wrote.              *)
THEOREM TcpTypeCorrect == Spec => []TypeOK
  BY TcpInitTypes, TcpStepTypes, PTL DEF Spec

LEMMA TcpSteps == [MCNext]_allVars => [Next]_vars
  BY DEF MCNext, OnTcp, OnChannels, OnFile, OnServers, allVars

(* Lecture4 to Lecture6: whatever the sizes of the messages, of the        *)
(* buffers and of the file, two programs that run to their end have        *)
(* exchanged everything, and readnbytes has stored the whole file.         *)
THEOREM ExchangeComplete == MCSpec => []NothingLost
  <1>1. MCInit => TcpInv
    BY TcpInitInv DEF MCInit
  <1>2. TcpInv /\ [MCNext]_allVars => TcpInv'
    BY TcpSteps, TcpStepInv
  <1>3. QED
    BY <1>1, <1>2, TcpInvComplete, PTL DEF MCSpec

-----------------------------------------------------------------------------
(* Pipes, FIFOs and the queue: the calls of each process.                  *)
Call == {"fork", "fork_or_exit", "wait", "create", "unlink", "open_r", "open_w",
         "find_or_exit", "close_r", "close_w", "write", "respond", "send",
         "read", "read_one", "read_all", "receive", "take"}
Object == {"fds", "fds2", "c2s", "s2c", "mq"} \cup Nat

LEMMA TimesOne ==
  ASSUME NEW n \in Nat, NEW c
  PROVE  /\ Chan!Times(n, <<c>>) \in Seq({c})
         /\ Len(Chan!Times(n, <<c>>)) = n
         /\ \A i \in 1..n : Chan!Times(n, <<c>>)[i] = c
  <1>1. n * Len(<<c>>) = n
    OBVIOUS
  <1>2. \A i \in 1..n : <<c>>[((i - 1) % Len(<<c>>)) + 1] = c
    OBVIOUS
  <1>3. Chan!Times(n, <<c>>) = [i \in 1..n |-> c]
    BY <1>1, <1>2 DEF Chan!Times
  <1>4. QED
    BY <1>3

LEMMA TimesTwo ==
  ASSUME NEW n \in Nat, NEW c, NEW d
  PROVE  /\ Chan!Times(n, <<c, d>>) \in Seq({c, d})
         /\ Len(Chan!Times(n, <<c, d>>)) = 2 * n
         /\ \A i \in 1..(2 * n) :
              /\ i % 2 = 1 => Chan!Times(n, <<c, d>>)[i] = c
              /\ i % 2 # 1 => Chan!Times(n, <<c, d>>)[i] = d
  <1>1. n * Len(<<c, d>>) = 2 * n
    OBVIOUS
  <1>2. \A i \in 1..(2 * n) :
          <<c, d>>[((i - 1) % Len(<<c, d>>)) + 1] = IF i % 2 = 1 THEN c ELSE d
    OBVIOUS
  <1>3. Chan!Times(n, <<c, d>>) = [i \in 1..(2 * n) |-> IF i % 2 = 1 THEN c ELSE d]
    BY <1>1, <1>2 DEF Chan!Times
  <1>4. QED
    BY <1>3

LEMMA ConcatThree ==
  ASSUME NEW S, NEW a \in Seq(S), NEW b \in Seq(S), NEW c \in Seq(S)
  PROVE  /\ a \o b \o c \in Seq(S)
         /\ Len(a \o b \o c) = Len(a) + Len(b) + Len(c)
         /\ \A i \in 1..Len(a) : (a \o b \o c)[i] = a[i]
         /\ \A i \in 1..Len(b) : (a \o b \o c)[Len(a) + i] = b[i]
         /\ \A i \in 1..Len(c) : (a \o b \o c)[Len(a) + Len(b) + i] = c[i]
  <1> DEFINE ab == a \o b
  <1>1. /\ ab \in Seq(S) /\ Len(ab) = Len(a) + Len(b)
        /\ \A i \in 1..(Len(a) + Len(b)) : ab[i] = IF i <= Len(a) THEN a[i] ELSE b[i - Len(a)]
    BY ConcatProperties
  <1> HIDE DEF ab
  <1>2. /\ ab \o c \in Seq(S) /\ Len(ab \o c) = Len(ab) + Len(c)
        /\ \A i \in 1..(Len(ab) + Len(c)) :
             (ab \o c)[i] = IF i <= Len(ab) THEN ab[i] ELSE c[i - Len(ab)]
    <2>1. ASSUME NEW s \in Seq(S)
          PROVE  /\ s \o c \in Seq(S) /\ Len(s \o c) = Len(s) + Len(c)
                 /\ \A i \in 1..(Len(s) + Len(c)) :
                      (s \o c)[i] = IF i <= Len(s) THEN s[i] ELSE c[i - Len(s)]
      BY ConcatProperties
    <2>2. QED
      BY ONLY <1>1, <2>1
  <1>3. Len(a) \in Nat /\ Len(b) \in Nat /\ Len(c) \in Nat
    BY LenProperties
  <1>4. /\ \A i \in 1..Len(a) : (ab \o c)[i] = a[i]
        /\ \A i \in 1..Len(b) : (ab \o c)[Len(a) + i] = b[i]
        /\ \A i \in 1..Len(c) : (ab \o c)[Len(a) + Len(b) + i] = c[i]
    BY <1>1, <1>2, <1>3
  <1>5. QED
    BY <1>1, <1>2, <1>3, <1>4 DEF ab

CallSeqs == Seq(Call \X Object)

LEMMA PipeParentCode ==
  /\ Chan!PipeParent \in CallSeqs /\ Len(Chan!PipeParent) = 8
  /\ Chan!PipeParent[1] = <<"fork", 1>> /\ Chan!PipeParent[2] = <<"close_w", "fds">>
  /\ Chan!PipeParent[3] = <<"read_all", "fds">> /\ Chan!PipeParent[4] = <<"close_r", "fds">>
  /\ Chan!PipeParent[5] = <<"close_r", "fds2">> /\ Chan!PipeParent[6] = <<"write", "fds2">>
  /\ Chan!PipeParent[7] = <<"close_w", "fds2">> /\ Chan!PipeParent[8] = <<"wait", 1>>
  BY DEF Chan!PipeParent, CallSeqs, Call, Object

LEMMA PipeChildCode ==
  /\ Chan!PipeChild \in CallSeqs /\ Len(Chan!PipeChild) = Messages + 5
  /\ Chan!PipeChild[1] = <<"close_r", "fds">>
  /\ \A i \in 2..(Messages + 1) : Chan!PipeChild[i] = <<"write", "fds">>
  /\ Chan!PipeChild[Messages + 2] = <<"close_w", "fds">>
  /\ Chan!PipeChild[Messages + 3] = <<"close_w", "fds2">>
  /\ Chan!PipeChild[Messages + 4] = <<"read", "fds2">>
  /\ Chan!PipeChild[Messages + 5] = <<"close_r", "fds2">>
  <1> DEFINE a == << <<"close_r", "fds">> >>
             b == Chan!Times(Messages, << <<"write", "fds">> >>)
             c == << <<"close_w", "fds">>, <<"close_w", "fds2">>, <<"read", "fds2">>,
                     <<"close_r", "fds2">> >>
  <1>1. /\ a \in CallSeqs /\ Len(a) = 1 /\ a[1] = <<"close_r", "fds">>
        /\ c \in CallSeqs /\ Len(c) = 4 /\ c[1] = <<"close_w", "fds">>
        /\ c[2] = <<"close_w", "fds2">> /\ c[3] = <<"read", "fds2">>
        /\ c[4] = <<"close_r", "fds2">>
    BY DEF CallSeqs, Call, Object
  <1>2. /\ b \in Seq({<<"write", "fds">>}) /\ Len(b) = Messages
        /\ \A i \in 1..Messages : b[i] = <<"write", "fds">>
    BY TimesOne, ChannelAssumption
  <1>3. b \in CallSeqs
    <2>1. {<<"write", "fds">>} \subseteq Call \X Object
      BY DEF Call, Object
    <2>2. QED
      BY <1>2, <2>1, SeqMonotonic DEF CallSeqs
  <1>4. Chan!PipeChild = a \o b \o c
    BY DEF Chan!PipeChild
  <1> HIDE DEF a, b, c
  <1>5. /\ Chan!PipeChild \in CallSeqs
        /\ Len(Chan!PipeChild) = Len(a) + Len(b) + Len(c)
        /\ \A i \in 1..Len(a) : Chan!PipeChild[i] = a[i]
        /\ \A i \in 1..Len(b) : Chan!PipeChild[Len(a) + i] = b[i]
        /\ \A i \in 1..Len(c) : Chan!PipeChild[Len(a) + Len(b) + i] = c[i]
    <2>1. a \in Seq(Call \X Object) /\ b \in Seq(Call \X Object) /\ c \in Seq(Call \X Object)
      BY <1>1, <1>3 DEF CallSeqs
    <2>2. /\ a \o b \o c \in Seq(Call \X Object)
          /\ Len(a \o b \o c) = Len(a) + Len(b) + Len(c)
          /\ \A i \in 1..Len(a) : (a \o b \o c)[i] = a[i]
          /\ \A i \in 1..Len(b) : (a \o b \o c)[Len(a) + i] = b[i]
          /\ \A i \in 1..Len(c) : (a \o b \o c)[Len(a) + Len(b) + i] = c[i]
      BY ONLY <2>1, ConcatThree
    <2>3. QED
      BY ONLY <1>4, <2>2 DEF CallSeqs
  <1>6. ASSUME NEW i \in 2..(Messages + 1) PROVE Chan!PipeChild[i] = <<"write", "fds">>
    <2>1. i - 1 \in 1..Messages /\ 1 + (i - 1) = i
      BY ChannelAssumption
    <2>2. Chan!PipeChild[Len(a) + (i - 1)] = b[i - 1]
      BY ONLY <1>2, <1>5, <2>1
    <2>3. QED
      BY ONLY <1>1, <1>2, <2>1, <2>2
  <1>7. Chan!PipeChild[1] = <<"close_r", "fds">>
    BY ONLY <1>1, <1>5
  <1>8. \A i \in 1..4 : Chan!PipeChild[Messages + 1 + i] = c[i]
    BY <1>1, <1>2, <1>5, ChannelAssumption
  <1>9. /\ Chan!PipeChild[Messages + 2] = c[1] /\ Chan!PipeChild[Messages + 3] = c[2]
        /\ Chan!PipeChild[Messages + 4] = c[3] /\ Chan!PipeChild[Messages + 5] = c[4]
    <2>1. /\ Messages + 1 + 1 = Messages + 2 /\ Messages + 1 + 2 = Messages + 3
          /\ Messages + 1 + 3 = Messages + 4 /\ Messages + 1 + 4 = Messages + 5
      BY ChannelAssumption
    <2>2. /\ Chan!PipeChild[Messages + 1 + 1] = c[1] /\ Chan!PipeChild[Messages + 1 + 2] = c[2]
          /\ Chan!PipeChild[Messages + 1 + 3] = c[3] /\ Chan!PipeChild[Messages + 1 + 4] = c[4]
      BY ONLY <1>8
    <2>3. QED
      BY ONLY <2>1, <2>2
  <1>10. Len(Chan!PipeChild) = Messages + 5
    BY <1>1, <1>2, <1>5, ChannelAssumption
  <1>11. QED
    BY ONLY <1>1, <1>5, <1>6, <1>7, <1>9, <1>10

(* The same, by the place of a call.                                       *)
LEMMA PlaceOf ==
  ASSUME NEW S, NEW a \in Seq(S), NEW b \in Seq(S), NEW c \in Seq(S)
  PROVE  /\ a \o b \o c \in Seq(S)
         /\ Len(a \o b \o c) = Len(a) + Len(b) + Len(c)
         /\ \A i \in 1..(Len(a) + Len(b) + Len(c)) :
              (a \o b \o c)[i] =
                IF i <= Len(a) THEN a[i]
                ELSE IF i <= Len(a) + Len(b) THEN b[i - Len(a)] ELSE c[i - (Len(a) + Len(b))]
  <1>1. /\ a \o b \o c \in Seq(S)
        /\ Len(a \o b \o c) = Len(a) + Len(b) + Len(c)
        /\ \A i \in 1..Len(a) : (a \o b \o c)[i] = a[i]
        /\ \A i \in 1..Len(b) : (a \o b \o c)[Len(a) + i] = b[i]
        /\ \A i \in 1..Len(c) : (a \o b \o c)[Len(a) + Len(b) + i] = c[i]
    BY ConcatThree
  <1>2. Len(a) \in Nat /\ Len(b) \in Nat /\ Len(c) \in Nat
    BY LenProperties
  <1> DEFINE s == a \o b \o c
  <1>3. /\ \A i \in 1..Len(a) : s[i] = a[i]
        /\ \A i \in 1..Len(b) : s[Len(a) + i] = b[i]
        /\ \A i \in 1..Len(c) : s[Len(a) + Len(b) + i] = c[i]
    BY <1>1
  <1> HIDE DEF s
  <1>4. ASSUME NEW i \in 1..(Len(a) + Len(b) + Len(c))
        PROVE  s[i] = IF i <= Len(a) THEN a[i]
                      ELSE IF i <= Len(a) + Len(b) THEN b[i - Len(a)]
                           ELSE c[i - (Len(a) + Len(b))]
    <2>1. CASE i <= Len(a)
      BY <1>2, <1>3, <2>1
    <2>2. CASE i > Len(a) /\ i <= Len(a) + Len(b)
      <3>1. i - Len(a) \in 1..Len(b) /\ Len(a) + (i - Len(a)) = i
        BY <1>2, <2>2
      <3>2. s[Len(a) + (i - Len(a))] = b[i - Len(a)]
        BY ONLY <1>3, <3>1
      <3>3. QED
        BY <1>2, <2>2, <3>1, <3>2
    <2>3. CASE i > Len(a) + Len(b)
      <3>1. /\ i - (Len(a) + Len(b)) \in 1..Len(c)
            /\ Len(a) + Len(b) + (i - (Len(a) + Len(b))) = i
        BY <1>2, <2>3
      <3>2. s[Len(a) + Len(b) + (i - (Len(a) + Len(b)))] = c[i - (Len(a) + Len(b))]
        BY ONLY <1>3, <3>1
      <3>3. QED
        BY <1>2, <2>3, <3>1, <3>2
    <2>4. QED
      BY <1>2, <2>1, <2>2, <2>3
  <1>5. QED
    BY <1>1, <1>4 DEF s

LEMMA PopenParentCode ==
  /\ Chan!PopenParent \in CallSeqs /\ Len(Chan!PopenParent) = Messages + 4
  /\ Chan!PopenParent[1] = <<"fork_or_exit", 1>>
  /\ Chan!PopenParent[2] = <<"close_r", "fds">>
  /\ \A i \in 3..(Messages + 2) : Chan!PopenParent[i] = <<"write", "fds">>
  /\ Chan!PopenParent[Messages + 3] = <<"close_w", "fds">>
  /\ Chan!PopenParent[Messages + 4] = <<"wait", 1>>
  <1> DEFINE a == << <<"fork_or_exit", 1>>, <<"close_r", "fds">> >>
             b == Chan!Times(Messages, << <<"write", "fds">> >>)
             c == << <<"close_w", "fds">>, <<"wait", 1>> >>
  <1>1. /\ a \in Seq(Call \X Object) /\ Len(a) = 2
        /\ a[1] = <<"fork_or_exit", 1>> /\ a[2] = <<"close_r", "fds">>
        /\ c \in Seq(Call \X Object) /\ Len(c) = 2
        /\ c[1] = <<"close_w", "fds">> /\ c[2] = <<"wait", 1>>
    BY DEF Call, Object
  <1>2. /\ b \in Seq({<<"write", "fds">>}) /\ Len(b) = Messages
        /\ \A i \in 1..Messages : b[i] = <<"write", "fds">>
    BY TimesOne, ChannelAssumption
  <1>3. b \in Seq(Call \X Object)
    <2>1. {<<"write", "fds">>} \subseteq Call \X Object
      BY DEF Call, Object
    <2>2. QED
      BY <1>2, <2>1, SeqMonotonic
  <1>4. Chan!PopenParent = a \o b \o c
    BY DEF Chan!PopenParent
  <1> HIDE DEF a, b, c
  <1>5. /\ a \o b \o c \in Seq(Call \X Object)
        /\ Len(a \o b \o c) = Len(a) + Len(b) + Len(c)
        /\ \A i \in 1..(Len(a) + Len(b) + Len(c)) :
             (a \o b \o c)[i] =
               IF i <= Len(a) THEN a[i]
               ELSE IF i <= Len(a) + Len(b) THEN b[i - Len(a)] ELSE c[i - (Len(a) + Len(b))]
    <2>1. a \in Seq(Call \X Object) /\ b \in Seq(Call \X Object) /\ c \in Seq(Call \X Object)
      BY <1>1, <1>3
    <2>2. QED
      BY ONLY <2>1, PlaceOf
  <1>6. \A i \in 1..(Messages + 4) :
          Chan!PopenParent[i] =
            IF i <= 2 THEN a[i] ELSE IF i <= 2 + Messages THEN b[i - 2] ELSE c[i - (2 + Messages)]
    BY <1>1, <1>2, <1>4, <1>5, ChannelAssumption
  <1>7. Chan!PopenParent[1] = a[1] /\ Chan!PopenParent[2] = a[2]
    BY ONLY <1>6, ChannelAssumption
  <1>8. ASSUME NEW i \in 3..(Messages + 2) PROVE Chan!PopenParent[i] = <<"write", "fds">>
    <2>1. i - 2 \in 1..Messages /\ i \in 1..(Messages + 4) /\ ~(i <= 2) /\ i <= 2 + Messages
      BY ChannelAssumption
    <2>2. Chan!PopenParent[i] = b[i - 2]
      BY ONLY <1>6, <2>1
    <2>3. QED
      BY ONLY <1>2, <2>1, <2>2
  <1>9. Chan!PopenParent[Messages + 3] = c[1] /\ Chan!PopenParent[Messages + 4] = c[2]
    <2>1. /\ Messages + 3 \in 1..(Messages + 4) /\ Messages + 4 \in 1..(Messages + 4)
          /\ Messages + 3 - (2 + Messages) = 1 /\ Messages + 4 - (2 + Messages) = 2
          /\ ~(Messages + 3 <= 2) /\ ~(Messages + 3 <= 2 + Messages)
          /\ ~(Messages + 4 <= 2) /\ ~(Messages + 4 <= 2 + Messages)
      BY ChannelAssumption
    <2>2. /\ Chan!PopenParent[Messages + 3] = c[Messages + 3 - (2 + Messages)]
          /\ Chan!PopenParent[Messages + 4] = c[Messages + 4 - (2 + Messages)]
      BY ONLY <1>6, <2>1, ChannelAssumption
    <2>3. QED
      BY ONLY <2>1, <2>2
  <1>10. Len(Chan!PopenParent) = Messages + 4 /\ Chan!PopenParent \in CallSeqs
    BY <1>1, <1>2, <1>4, <1>5, ChannelAssumption DEF CallSeqs
  <1>11. QED
    BY ONLY <1>1, <1>7, <1>8, <1>9, <1>10

LEMMA SortCode ==
  /\ Chan!Sort \in CallSeqs /\ Len(Chan!Sort) = 2
  /\ Chan!Sort[1] = <<"close_w", "fds">> /\ Chan!Sort[2] = <<"read_all", "fds">>
  BY DEF Chan!Sort, CallSeqs, Call, Object

LEMMA SumChildCode ==
  /\ Chan!SumChild \in CallSeqs /\ Len(Chan!SumChild) = 3
  /\ Chan!SumChild[1] = <<"close_r", "fds">> /\ Chan!SumChild[2] = <<"write", "fds">>
  /\ Chan!SumChild[3] = <<"close_w", "fds">>
  BY DEF Chan!SumChild, CallSeqs, Call, Object

LEMMA FifoServerCode ==
  /\ Chan!FifoServer \in CallSeqs /\ Len(Chan!FifoServer) = 10
  /\ Chan!FifoServer[1] = <<"create", "c2s">> /\ Chan!FifoServer[2] = <<"create", "s2c">>
  /\ Chan!FifoServer[3] = <<"open_r", "c2s">> /\ Chan!FifoServer[4] = <<"open_w", "s2c">>
  /\ Chan!FifoServer[5] = <<"receive", "c2s">> /\ Chan!FifoServer[6] = <<"respond", "s2c">>
  /\ Chan!FifoServer[7] = <<"close_r", "c2s">> /\ Chan!FifoServer[8] = <<"close_w", "s2c">>
  /\ Chan!FifoServer[9] = <<"unlink", "c2s">> /\ Chan!FifoServer[10] = <<"unlink", "s2c">>
  BY DEF Chan!FifoServer, CallSeqs, Call, Object

LEMMA QueueCode ==
  /\ Chan!QueueSender \in CallSeqs /\ Len(Chan!QueueSender) = 3
  /\ Chan!QueueSender[1] = <<"create", "mq">> /\ Chan!QueueSender[2] = <<"send", "mq">>
  /\ Chan!QueueSender[3] = <<"close_w", "mq">>
  /\ Chan!QueueReceiver \in CallSeqs /\ Len(Chan!QueueReceiver) = 4
  /\ Chan!QueueReceiver[1] = <<"find_or_exit", "mq">> /\ Chan!QueueReceiver[2] = <<"take", "mq">>
  /\ Chan!QueueReceiver[3] = <<"close_r", "mq">> /\ Chan!QueueReceiver[4] = <<"unlink", "mq">>
  BY DEF Chan!QueueSender, Chan!QueueReceiver, CallSeqs, Call, Object

LEMMA SumParentCode ==
  LET code == Chan!SumParent
  IN  /\ code \in CallSeqs /\ Len(code) = 2 * Children + 3
      /\ \A i \in 1..Children : code[i] = <<"fork_or_exit", i>>
      /\ code[Children + 1] = <<"wait", Children>>
      /\ code[Children + 2] = <<"close_w", "fds">>
      /\ \A i \in (Children + 3)..(2 * Children + 2) : code[i] = <<"read_one", "fds">>
      /\ code[2 * Children + 3] = <<"close_r", "fds">>
  <1> DEFINE f == Chan!Forks
             w == << <<"wait", Children>>, <<"close_w", "fds">> >>
             b == Chan!Times(Children, << <<"read_one", "fds">> >>)
             c == << <<"close_r", "fds">> >>
             a == f \o w
             code == Chan!SumParent
             n == Children
  <1>1. f \in Seq(Call \X Object) /\ Len(f) = n /\ \A i \in 1..n : f[i] = <<"fork_or_exit", i>>
    BY ChannelAssumption DEF Chan!Forks, Call, Object
  <1>2. /\ w \in Seq(Call \X Object) /\ Len(w) = 2
        /\ w[1] = <<"wait", n>> /\ w[2] = <<"close_w", "fds">>
        /\ c \in Seq(Call \X Object) /\ Len(c) = 1 /\ c[1] = <<"close_r", "fds">>
    BY ChannelAssumption DEF Call, Object
  <1>3. /\ b \in Seq({<<"read_one", "fds">>}) /\ Len(b) = n
        /\ \A i \in 1..n : b[i] = <<"read_one", "fds">>
    BY TimesOne, ChannelAssumption
  <1>4. b \in Seq(Call \X Object)
    <2>1. {<<"read_one", "fds">>} \subseteq Call \X Object
      BY DEF Call, Object
    <2>2. QED
      BY <1>3, <2>1, SeqMonotonic
  <1>5. code = a \o b \o c
    BY DEF Chan!SumParent
  <1>6. n \in Nat
    BY ChannelAssumption
  <1> HIDE DEF f, w, b, c, code, n
  <1>7. /\ a \in Seq(Call \X Object) /\ Len(a) = n + 2
        /\ \A i \in 1..(n + 2) : a[i] = IF i <= n THEN f[i] ELSE w[i - n]
    <2>1. f \in Seq(Call \X Object) /\ w \in Seq(Call \X Object)
      BY <1>1, <1>2
    <2>2. /\ f \o w \in Seq(Call \X Object) /\ Len(f \o w) = Len(f) + Len(w)
          /\ \A i \in 1..(Len(f) + Len(w)) :
               (f \o w)[i] = IF i <= Len(f) THEN f[i] ELSE w[i - Len(f)]
      BY ONLY <2>1, ConcatProperties
    <2>3. QED
      BY ONLY <1>1, <1>2, <2>2
  <1> HIDE DEF a
  <1>8. /\ a \o b \o c \in Seq(Call \X Object)
        /\ Len(a \o b \o c) = Len(a) + Len(b) + Len(c)
        /\ \A i \in 1..(Len(a) + Len(b) + Len(c)) :
             (a \o b \o c)[i] =
               IF i <= Len(a) THEN a[i]
               ELSE IF i <= Len(a) + Len(b) THEN b[i - Len(a)] ELSE c[i - (Len(a) + Len(b))]
    <2>1. a \in Seq(Call \X Object) /\ b \in Seq(Call \X Object) /\ c \in Seq(Call \X Object)
      BY <1>2, <1>4, <1>7
    <2>2. QED
      BY ONLY <2>1, PlaceOf
  <1>9. Len(code) = 2 * n + 3 /\ code \in Seq(Call \X Object)
    BY ONLY <1>2, <1>3, <1>5, <1>6, <1>7, <1>8
  <1>10. \A i \in 1..(2 * n + 3) :
          code[i] = IF i <= n + 2 THEN a[i]
                    ELSE IF i <= 2 * n + 2 THEN b[i - (n + 2)] ELSE c[i - (2 * n + 2)]
    <2>1. n + 2 + n = 2 * n + 2
      BY <1>6
    <2>2. QED
      BY ONLY <1>2, <1>3, <1>5, <1>6, <1>7, <1>8, <2>1
  <1>11. ASSUME NEW i \in 1..n PROVE code[i] = <<"fork_or_exit", i>>
    <2>1. code[i] = a[i] /\ a[i] = f[i]
      BY ONLY <1>6, <1>7, <1>10, i \in 1..n
    <2>2. QED
      BY <1>1, <2>1
  <1>12. code[n + 1] = <<"wait", n>> /\ code[n + 2] = <<"close_w", "fds">>
    <2>1. code[n + 1] = a[n + 1] /\ code[n + 2] = a[n + 2]
      BY ONLY <1>6, <1>10
    <2>2. a[n + 1] = w[n + 1 - n] /\ a[n + 2] = w[n + 2 - n] /\ n + 1 - n = 1 /\ n + 2 - n = 2
      BY ONLY <1>6, <1>7
    <2>3. QED
      BY ONLY <1>2, <2>1, <2>2
  <1>13. ASSUME NEW i \in (n + 3)..(2 * n + 2) PROVE code[i] = <<"read_one", "fds">>
    <2>1. code[i] = b[i - (n + 2)] /\ i - (n + 2) \in 1..n
      BY ONLY <1>6, <1>10, i \in (n + 3)..(2 * n + 2)
    <2>2. QED
      BY ONLY <1>3, <2>1
  <1>14. code[2 * n + 3] = <<"close_r", "fds">>
    <2>1. code[2 * n + 3] = c[2 * n + 3 - (2 * n + 2)] /\ 2 * n + 3 - (2 * n + 2) = 1
      BY ONLY <1>6, <1>10
    <2>2. QED
      BY ONLY <1>2, <2>1
  <1>15. QED
    BY <1>9, <1>11, <1>12, <1>13, <1>14 DEF CallSeqs, code, n

LEMMA FifoClientCode ==
  ASSUME NEW n \in Nat
  PROVE  LET code == Chan!FifoClient(n)
         IN  /\ code \in CallSeqs /\ Len(code) = 2 * n + 4
             /\ code[1] = <<"open_w", "c2s">> /\ code[2] = <<"open_r", "s2c">>
             /\ \A i \in 3..(2 * n + 2) :
                  code[i] = IF i % 2 = 1 THEN <<"write", "c2s">> ELSE <<"read", "s2c">>
             /\ code[2 * n + 3] = <<"close_w", "c2s">> /\ code[2 * n + 4] = <<"close_r", "s2c">>
  <1> DEFINE a == << <<"open_w", "c2s">>, <<"open_r", "s2c">> >>
             b == Chan!Times(n, << <<"write", "c2s">>, <<"read", "s2c">> >>)
             c == << <<"close_w", "c2s">>, <<"close_r", "s2c">> >>
             code == Chan!FifoClient(n)
  <1>1. /\ a \in Seq(Call \X Object) /\ Len(a) = 2
        /\ a[1] = <<"open_w", "c2s">> /\ a[2] = <<"open_r", "s2c">>
        /\ c \in Seq(Call \X Object) /\ Len(c) = 2
        /\ c[1] = <<"close_w", "c2s">> /\ c[2] = <<"close_r", "s2c">>
    BY DEF Call, Object
  <1>2. /\ b \in Seq({<<"write", "c2s">>, <<"read", "s2c">>}) /\ Len(b) = 2 * n
        /\ \A i \in 1..(2 * n) :
             b[i] = IF i % 2 = 1 THEN <<"write", "c2s">> ELSE <<"read", "s2c">>
    <2> DEFINE write == <<"write", "c2s">>
               read == <<"read", "s2c">>
    <2> HIDE DEF write, read
    <2>1. /\ Chan!Times(n, <<write, read>>) \in Seq({write, read})
          /\ Len(Chan!Times(n, <<write, read>>)) = 2 * n
          /\ \A i \in 1..(2 * n) :
               /\ i % 2 = 1 => Chan!Times(n, <<write, read>>)[i] = write
               /\ i % 2 # 1 => Chan!Times(n, <<write, read>>)[i] = read
      BY ONLY TimesTwo, n \in Nat
    <2>2. QED
      BY <2>1 DEF write, read
  <1>3. b \in Seq(Call \X Object)
    <2>1. {<<"write", "c2s">>, <<"read", "s2c">>} \subseteq Call \X Object
      BY DEF Call, Object
    <2>2. QED
      BY <1>2, <2>1, SeqMonotonic
  <1>4. code = a \o b \o c
    BY DEF Chan!FifoClient
  <1> HIDE DEF a, b, c, code
  <1>5. /\ a \o b \o c \in Seq(Call \X Object)
        /\ Len(a \o b \o c) = Len(a) + Len(b) + Len(c)
        /\ \A i \in 1..(Len(a) + Len(b) + Len(c)) :
             (a \o b \o c)[i] =
               IF i <= Len(a) THEN a[i]
               ELSE IF i <= Len(a) + Len(b) THEN b[i - Len(a)] ELSE c[i - (Len(a) + Len(b))]
    <2>1. a \in Seq(Call \X Object) /\ b \in Seq(Call \X Object) /\ c \in Seq(Call \X Object)
      BY <1>1, <1>3
    <2>2. QED
      BY ONLY <2>1, PlaceOf
  <1>6. /\ code \in Seq(Call \X Object) /\ Len(code) = 2 * n + 4
        /\ \A i \in 1..(2 * n + 4) :
             code[i] = IF i <= 2 THEN a[i]
                       ELSE IF i <= 2 * n + 2 THEN b[i - 2] ELSE c[i - (2 * n + 2)]
    <2>1. 2 + 2 * n = 2 * n + 2 /\ n \in Nat
      OBVIOUS
    <2>2. QED
      BY ONLY <1>1, <1>2, <1>4, <1>5, <2>1
  <1>7. code[1] = a[1] /\ code[2] = a[2]
    BY ONLY <1>6, n \in Nat
  <1>8. ASSUME NEW i \in 3..(2 * n + 2)
        PROVE  code[i] = IF i % 2 = 1 THEN <<"write", "c2s">> ELSE <<"read", "s2c">>
    <2>1. code[i] = b[i - 2] /\ i - 2 \in 1..(2 * n)
      BY ONLY <1>6, n \in Nat, i \in 3..(2 * n + 2)
    <2>2. b[i - 2] = IF (i - 2) % 2 = 1 THEN <<"write", "c2s">> ELSE <<"read", "s2c">>
      BY ONLY <1>2, <2>1
    <2>3. (i - 2) % 2 = i % 2
      OBVIOUS
    <2>4. QED
      BY ONLY <2>1, <2>2, <2>3
  <1>9. code[2 * n + 3] = c[1] /\ code[2 * n + 4] = c[2]
    <2>1. /\ code[2 * n + 3] = c[2 * n + 3 - (2 * n + 2)]
          /\ code[2 * n + 4] = c[2 * n + 4 - (2 * n + 2)]
      BY ONLY <1>6, n \in Nat
    <2>2. 2 * n + 3 - (2 * n + 2) = 1 /\ 2 * n + 4 - (2 * n + 2) = 2
      OBVIOUS
    <2>3. QED
      BY ONLY <2>1, <2>2
  <1>10. QED
    BY <1>1, <1>6, <1>7, <1>8, <1>9 DEF CallSeqs, code

LEMMA ProgramCodes ==
  /\ program = Chan!Pipe =>
       /\ Chan!Processes = {0, 1} /\ program.forked = {1}
       /\ program.code[0] = Chan!PipeParent /\ program.code[1] = Chan!PipeChild
  /\ program = Chan!Popen =>
       /\ Chan!Processes = {0, 1} /\ program.forked = {1}
       /\ program.code[0] = Chan!PopenParent /\ program.code[1] = Chan!Sort
  /\ program = Chan!Sums =>
       /\ Chan!Processes = 0..Children /\ program.forked = 1..Children
       /\ program.code[0] = Chan!SumParent
       /\ \A c \in 1..Children : program.code[c] = Chan!SumChild
  /\ program = Chan!Fifo =>
       /\ Chan!Processes = {0, 1} /\ program.forked = {}
       /\ program.code[0] = Chan!FifoServer
       /\ program.code[1] = Chan!FifoClient(Requests)
  /\ program = Chan!FifoOfTwo =>
       /\ Chan!Processes = {0, 1, 2} /\ program.forked = {}
       /\ program.code[0] = Chan!FifoServer
       /\ program.code[1] = Chan!FifoClient(Requests)
       /\ program.code[2] = Chan!FifoClient(1)
  /\ program = Chan!Queue =>
       /\ Chan!Processes = {0, 1} /\ program.forked = {}
       /\ program.code[0] = Chan!QueueReceiver /\ program.code[1] = Chan!QueueSender
  <1> USE DEF Chan!Processes
  <1>1. program = Chan!Pipe =>
       /\ Chan!Processes = {0, 1} /\ program.forked = {1}
       /\ program.code[0] = Chan!PipeParent /\ program.code[1] = Chan!PipeChild
    BY DEF Chan!Pipe
  <1>2. program = Chan!Popen =>
       /\ Chan!Processes = {0, 1} /\ program.forked = {1}
       /\ program.code[0] = Chan!PopenParent /\ program.code[1] = Chan!Sort
    BY DEF Chan!Popen
  <1>3. program = Chan!Sums =>
       /\ Chan!Processes = 0..Children /\ program.forked = 1..Children
       /\ program.code[0] = Chan!SumParent
       /\ \A c \in 1..Children : program.code[c] = Chan!SumChild
    BY ChannelAssumption DEF Chan!Sums
  <1>4. program = Chan!Fifo =>
       /\ Chan!Processes = {0, 1} /\ program.forked = {}
       /\ program.code[0] = Chan!FifoServer
       /\ program.code[1] = Chan!FifoClient(Requests)
    BY DEF Chan!Fifo
  <1>5. program = Chan!FifoOfTwo =>
       /\ Chan!Processes = {0, 1, 2} /\ program.forked = {}
       /\ program.code[0] = Chan!FifoServer
       /\ program.code[1] = Chan!FifoClient(Requests)
       /\ program.code[2] = Chan!FifoClient(1)
    BY DEF Chan!FifoOfTwo
  <1>6. program = Chan!Queue =>
       /\ Chan!Processes = {0, 1} /\ program.forked = {}
       /\ program.code[0] = Chan!QueueReceiver /\ program.code[1] = Chan!QueueSender
    BY DEF Chan!Queue
  <1>7. QED
    BY <1>1, <1>2, <1>3, <1>4, <1>5, <1>6

(* The calls of each program's processes.                                  *)
PipeCall(p, i, call, x) ==
  \/ /\ p = 0
     /\ \/ i = 1 /\ call = "fork" /\ x = 1
        \/ i = 2 /\ call = "close_w" /\ x = "fds"
        \/ i = 3 /\ call = "read_all" /\ x = "fds"
        \/ i = 4 /\ call = "close_r" /\ x = "fds"
        \/ i = 5 /\ call = "close_r" /\ x = "fds2"
        \/ i = 6 /\ call = "write" /\ x = "fds2"
        \/ i = 7 /\ call = "close_w" /\ x = "fds2"
        \/ i = 8 /\ call = "wait" /\ x = 1
  \/ /\ p = 1
     /\ \/ i = 1 /\ call = "close_r" /\ x = "fds"
        \/ i \in 2..(Messages + 1) /\ call = "write" /\ x = "fds"
        \/ i = Messages + 2 /\ call = "close_w" /\ x = "fds"
        \/ i = Messages + 3 /\ call = "close_w" /\ x = "fds2"
        \/ i = Messages + 4 /\ call = "read" /\ x = "fds2"
        \/ i = Messages + 5 /\ call = "close_r" /\ x = "fds2"

PopenCall(p, i, call, x) ==
  \/ /\ p = 0
     /\ \/ i = 1 /\ call = "fork_or_exit" /\ x = 1
        \/ i = 2 /\ call = "close_r" /\ x = "fds"
        \/ i \in 3..(Messages + 2) /\ call = "write" /\ x = "fds"
        \/ i = Messages + 3 /\ call = "close_w" /\ x = "fds"
        \/ i = Messages + 4 /\ call = "wait" /\ x = 1
  \/ /\ p = 1
     /\ \/ i = 1 /\ call = "close_w" /\ x = "fds"
        \/ i = 2 /\ call = "read_all" /\ x = "fds"

SumsCall(p, i, call, x) ==
  \/ /\ p = 0
     /\ \/ i \in 1..Children /\ call = "fork_or_exit" /\ x = i
        \/ i = Children + 1 /\ call = "wait" /\ x = Children
        \/ i = Children + 2 /\ call = "close_w" /\ x = "fds"
        \/ i \in (Children + 3)..(2 * Children + 2) /\ call = "read_one" /\ x = "fds"
        \/ i = 2 * Children + 3 /\ call = "close_r" /\ x = "fds"
  \/ /\ p \in 1..Children
     /\ \/ i = 1 /\ call = "close_r" /\ x = "fds"
        \/ i = 2 /\ call = "write" /\ x = "fds"
        \/ i = 3 /\ call = "close_w" /\ x = "fds"

QueueCall(p, i, call, x) ==
  \/ /\ p = 0
     /\ \/ i = 1 /\ call = "find_or_exit" /\ x = "mq"
        \/ i = 2 /\ call = "take" /\ x = "mq"
        \/ i = 3 /\ call = "close_r" /\ x = "mq"
        \/ i = 4 /\ call = "unlink" /\ x = "mq"
  \/ /\ p = 1
     /\ \/ i = 1 /\ call = "create" /\ x = "mq"
        \/ i = 2 /\ call = "send" /\ x = "mq"
        \/ i = 3 /\ call = "close_w" /\ x = "mq"

FifoServerCall(i, call, x) ==
  \/ i = 1 /\ call = "create" /\ x = "c2s"
  \/ i = 2 /\ call = "create" /\ x = "s2c"
  \/ i = 3 /\ call = "open_r" /\ x = "c2s"
  \/ i = 4 /\ call = "open_w" /\ x = "s2c"
  \/ i = 5 /\ call = "receive" /\ x = "c2s"
  \/ i = 6 /\ call = "respond" /\ x = "s2c"
  \/ i = 7 /\ call = "close_r" /\ x = "c2s"
  \/ i = 8 /\ call = "close_w" /\ x = "s2c"
  \/ i = 9 /\ call = "unlink" /\ x = "c2s"
  \/ i = 10 /\ call = "unlink" /\ x = "s2c"

FifoClientCall(n, i, call, x) ==
  \/ i = 1 /\ call = "open_w" /\ x = "c2s"
  \/ i = 2 /\ call = "open_r" /\ x = "s2c"
  \/ i \in 3..(2 * n + 2) /\ i % 2 = 1 /\ call = "write" /\ x = "c2s"
  \/ i \in 3..(2 * n + 2) /\ i % 2 # 1 /\ call = "read" /\ x = "s2c"
  \/ i = 2 * n + 3 /\ call = "close_w" /\ x = "c2s"
  \/ i = 2 * n + 4 /\ call = "close_r" /\ x = "s2c"

IsFifo == program \in {Chan!Fifo, Chan!FifoOfTwo}
Asks(c) == IF c = 1 THEN Requests ELSE 1

FifoCall(p, i, call, x) ==
  \/ p = 0 /\ FifoServerCall(i, call, x)
  \/ p \in {1, 2} /\ FifoClientCall(Asks(p), i, call, x)

LEMMA PipeCalls ==
  ASSUME program = Chan!Pipe, NEW p \in Chan!Processes, NEW i \in DOMAIN program.code[p]
  PROVE  PipeCall(p, i, program.code[p][i][1], program.code[p][i][2])
  <1>1. CASE p = 0
    <2>1. program.code[p] = Chan!PipeParent
      BY <1>1, ProgramCodes
    <2>2. DOMAIN Chan!PipeParent = 1..8
      BY PipeParentCode DEF CallSeqs
    <2>3. QED
      BY <1>1, <2>1, <2>2, PipeParentCode DEF PipeCall
  <1>2. CASE p = 1
    <2> DEFINE code == Chan!PipeChild
    <2>1. program.code[p] = code
      BY <1>2, ProgramCodes
    <2>2. /\ DOMAIN code = 1..(Messages + 5) /\ Messages \in Nat
          /\ code[1] = <<"close_r", "fds">>
          /\ \A j \in 2..(Messages + 1) : code[j] = <<"write", "fds">>
          /\ code[Messages + 2] = <<"close_w", "fds">>
          /\ code[Messages + 3] = <<"close_w", "fds2">>
          /\ code[Messages + 4] = <<"read", "fds2">>
          /\ code[Messages + 5] = <<"close_r", "fds2">>
      BY PipeChildCode, ChannelAssumption DEF CallSeqs
    <2> HIDE DEF code
    <2>3. \/ i = 1 \/ i \in 2..(Messages + 1) \/ i = Messages + 2 \/ i = Messages + 3
          \/ i = Messages + 4 \/ i = Messages + 5
      BY ONLY <2>1, <2>2, i \in DOMAIN program.code[p]
    <2>4. QED
      BY ONLY <1>2, <2>1, <2>2, <2>3 DEF PipeCall
  <1>3. QED
    BY <1>1, <1>2, ProgramCodes

LEMMA PopenCalls ==
  ASSUME program = Chan!Popen, NEW p \in Chan!Processes, NEW i \in DOMAIN program.code[p]
  PROVE  PopenCall(p, i, program.code[p][i][1], program.code[p][i][2])
  <1>1. CASE p = 0
    <2> DEFINE code == Chan!PopenParent
    <2>1. program.code[p] = code
      BY <1>1, ProgramCodes
    <2>2. /\ DOMAIN code = 1..(Messages + 4) /\ Messages \in Nat
          /\ code[1] = <<"fork_or_exit", 1>> /\ code[2] = <<"close_r", "fds">>
          /\ \A j \in 3..(Messages + 2) : code[j] = <<"write", "fds">>
          /\ code[Messages + 3] = <<"close_w", "fds">>
          /\ code[Messages + 4] = <<"wait", 1>>
      BY PopenParentCode, ChannelAssumption DEF CallSeqs
    <2> HIDE DEF code
    <2>3. \/ i = 1 \/ i = 2 \/ i \in 3..(Messages + 2) \/ i = Messages + 3 \/ i = Messages + 4
      BY ONLY <2>1, <2>2, i \in DOMAIN program.code[p]
    <2>4. QED
      BY ONLY <1>1, <2>1, <2>2, <2>3 DEF PopenCall
  <1>2. CASE p = 1
    <2>1. program.code[p] = Chan!Sort
      BY <1>2, ProgramCodes
    <2>2. DOMAIN Chan!Sort = 1..2
      BY SortCode DEF CallSeqs
    <2>3. QED
      BY <1>2, <2>1, <2>2, SortCode DEF PopenCall
  <1>3. QED
    BY <1>1, <1>2, ProgramCodes

LEMMA SumsCalls ==
  ASSUME program = Chan!Sums, NEW p \in Chan!Processes, NEW i \in DOMAIN program.code[p]
  PROVE  SumsCall(p, i, program.code[p][i][1], program.code[p][i][2])
  <1>1. CASE p = 0
    <2> DEFINE code == Chan!SumParent
               n == Children
    <2>1. program.code[p] = code
      BY <1>1, ProgramCodes
    <2>2. /\ DOMAIN code = 1..(2 * n + 3) /\ n \in Nat
          /\ \A j \in 1..n : code[j] = <<"fork_or_exit", j>>
          /\ code[n + 1] = <<"wait", n>> /\ code[n + 2] = <<"close_w", "fds">>
          /\ \A j \in (n + 3)..(2 * n + 2) : code[j] = <<"read_one", "fds">>
          /\ code[2 * n + 3] = <<"close_r", "fds">>
      BY SumParentCode, ChannelAssumption DEF CallSeqs
    <2> HIDE DEF code, n
    <2>3. \/ i \in 1..n \/ i = n + 1 \/ i = n + 2
          \/ i \in (n + 3)..(2 * n + 2) \/ i = 2 * n + 3
      BY ONLY <2>1, <2>2, i \in DOMAIN program.code[p]
    <2>4. QED
      BY ONLY <1>1, <2>1, <2>2, <2>3 DEF SumsCall, n
  <1>2. CASE p \in 1..Children
    <2>1. program.code[p] = Chan!SumChild
      BY <1>2, ProgramCodes
    <2>2. DOMAIN Chan!SumChild = 1..3
      BY SumChildCode DEF CallSeqs
    <2>3. QED
      BY <1>2, <2>1, <2>2, SumChildCode DEF SumsCall
  <1>3. QED
    BY <1>1, <1>2, ProgramCodes, ChannelAssumption

LEMMA QueueCalls ==
  ASSUME program = Chan!Queue, NEW p \in Chan!Processes, NEW i \in DOMAIN program.code[p]
  PROVE  QueueCall(p, i, program.code[p][i][1], program.code[p][i][2])
  <1>1. DOMAIN Chan!QueueReceiver = 1..4 /\ DOMAIN Chan!QueueSender = 1..3
    BY QueueCode DEF CallSeqs
  <1>2. CASE p = 0
    BY <1>1, <1>2, QueueCode, ProgramCodes DEF QueueCall
  <1>3. CASE p = 1
    BY <1>1, <1>3, QueueCode, ProgramCodes DEF QueueCall
  <1>4. QED
    BY <1>2, <1>3, ProgramCodes

LEMMA FifoClientCalls ==
  ASSUME NEW n \in Nat, NEW i \in DOMAIN Chan!FifoClient(n)
  PROVE  FifoClientCall(n, i, Chan!FifoClient(n)[i][1], Chan!FifoClient(n)[i][2])
  <1> DEFINE code == Chan!FifoClient(n)
  <1>1. /\ code \in CallSeqs /\ Len(code) = 2 * n + 4
        /\ code[1] = <<"open_w", "c2s">> /\ code[2] = <<"open_r", "s2c">>
        /\ \A j \in 3..(2 * n + 2) :
             code[j] = IF j % 2 = 1 THEN <<"write", "c2s">> ELSE <<"read", "s2c">>
        /\ code[2 * n + 3] = <<"close_w", "c2s">> /\ code[2 * n + 4] = <<"close_r", "s2c">>
    BY FifoClientCode
  <1>2. i \in DOMAIN code
    OBVIOUS
  <1> HIDE DEF code
  <1>3. DOMAIN code = 1..(2 * n + 4)
    BY ONLY <1>1 DEF CallSeqs
  <1>4. \/ i = 1 \/ i = 2 \/ i \in 3..(2 * n + 2) \/ i = 2 * n + 3 \/ i = 2 * n + 4
    BY ONLY <1>2, <1>3, n \in Nat
  <1>5. FifoClientCall(n, i, code[i][1], code[i][2])
    BY ONLY <1>1, <1>4 DEF FifoClientCall
  <1>6. QED
    BY ONLY <1>5 DEF code

LEMMA FifoCalls ==
  ASSUME IsFifo, NEW p \in Chan!Processes, NEW i \in DOMAIN program.code[p]
  PROVE  FifoCall(p, i, program.code[p][i][1], program.code[p][i][2])
  <1>1. CASE p = 0
    <2>1. program.code[p] = Chan!FifoServer
      BY <1>1, ProgramCodes DEF IsFifo
    <2>2. DOMAIN Chan!FifoServer = 1..10
      BY FifoServerCode DEF CallSeqs
    <2>3. FifoServerCall(i, program.code[p][i][1], program.code[p][i][2])
      BY <2>1, <2>2, FifoServerCode DEF FifoServerCall
    <2>4. QED
      BY <1>1, <2>3 DEF FifoCall
  <1>2. CASE p # 0
    <2>1. p \in {1, 2} /\ program.code[p] = Chan!FifoClient(Asks(p)) /\ Asks(p) \in Nat
      BY <1>2, ProgramCodes, ChannelAssumption DEF IsFifo, Asks
    <2> DEFINE n == Asks(p)
    <2>2. n \in Nat /\ i \in DOMAIN Chan!FifoClient(n)
      BY <2>1
    <2> HIDE DEF n
    <2>3. FifoClientCall(n, i, Chan!FifoClient(n)[i][1], Chan!FifoClient(n)[i][2])
      BY ONLY <2>2, FifoClientCalls
    <2>4. QED
      BY ONLY <2>1, <2>3 DEF FifoCall, n
  <1>3. QED
    BY <1>1, <1>2

(* What all programs have in common: the parent forks child c by its call  *)
(* c, and who answers goes back from there to an earlier call.             *)
ForksInTurn ==
  \A p \in Chan!Processes : \A i \in DOMAIN program.code[p] :
    program.code[p][i][1] \in {"fork", "fork_or_exit"} => p = 0 /\ program.code[p][i][2] = i

GoesOn ==
  \A p \in Chan!Processes : \A i \in DOMAIN program.code[p] :
    program.code[p][i][1] = "respond" => i = 6 /\ program.forked = {}

Common ==
  /\ 0 \in Chan!Processes /\ Chan!Processes \subseteq Nat
  /\ program.forked \subseteq Chan!Processes \ {0}
  /\ \A p \in Chan!Processes : program.code[p] \in CallSeqs
  /\ ForksInTurn /\ GoesOn

LEMMA ProgramShape ==
  ASSUME program \in Chan!Programs
  PROVE  Common
  <1> USE DEF ForksInTurn, GoesOn
  <1>1. CASE program = Chan!Pipe
    <2>1. ForksInTurn /\ GoesOn
      BY <1>1, PipeCalls DEF PipeCall
    <2>2. QED
      <3>1. /\ Chan!Processes = {0, 1} /\ program.forked = {1}
            /\ program.code[0] \in CallSeqs /\ program.code[1] \in CallSeqs
        BY <1>1, ProgramCodes, PipeParentCode, PipeChildCode
      <3>2. QED
        BY <2>1, <3>1 DEF Common
  <1>2. CASE program = Chan!Popen
    <2>1. ForksInTurn /\ GoesOn
      BY <1>2, PopenCalls DEF PopenCall
    <2>2. QED
      BY <1>2, <2>1, ProgramCodes, PopenParentCode, SortCode DEF Common
  <1>3. CASE program = Chan!Sums
    <2>1. 0..Children = {0} \cup 1..Children
      BY ChannelAssumption
    <2>2. \A p \in Chan!Processes : program.code[p] \in {Chan!SumParent, Chan!SumChild}
      BY <1>3, <2>1, ProgramCodes
    <2>3. \A p \in Chan!Processes : program.code[p] \in CallSeqs
      BY <2>2, SumParentCode, SumChildCode
    <2>4. ForksInTurn /\ GoesOn
      BY <1>3, SumsCalls DEF SumsCall
    <2>5. QED
      BY <1>3, <2>1, <2>3, <2>4, ProgramCodes, ChannelAssumption DEF Common
  <1>4. CASE IsFifo
    <2>1. /\ Chan!FifoClient(Requests) \in CallSeqs /\ Chan!FifoClient(1) \in CallSeqs
          /\ Chan!FifoServer \in CallSeqs
      BY FifoClientCode, FifoServerCode, ChannelAssumption
    <2>2. program.forked = {}
      BY <1>4, ProgramCodes DEF IsFifo
    <2>3. ForksInTurn /\ GoesOn
      BY <1>4, <2>2, FifoCalls DEF FifoCall, FifoServerCall, FifoClientCall
    <2>4. QED
      BY <1>4, <2>1, <2>2, <2>3, ProgramCodes DEF Common, IsFifo
  <1>5. CASE program = Chan!Queue
    <2>1. ForksInTurn /\ GoesOn
      BY <1>5, QueueCalls DEF QueueCall
    <2>2. QED
      BY <1>5, <2>1, ProgramCodes, QueueCode DEF Common
  <1>6. QED
    BY <1>1, <1>2, <1>3, <1>4, <1>5 DEF Chan!Programs, IsFifo

-----------------------------------------------------------------------------
(* Type correctness.                                                       *)
LEMMA DropTypes ==
  ASSUME NEW r \in [Chan!Channels -> SUBSET Chan!Processes],
         NEW w \in [Chan!Channels -> SUBSET Chan!Processes],
         Chan!TypeOK, Chan!Drop(r, w)
  PROVE  content' \in [Chan!Channels -> Seq(Chan!Processes \X Nat)]
  <1>1. <<>> \in Seq(Chan!Processes \X Nat)
    OBVIOUS
  <1>2. QED
    BY <1>1 DEF Chan!TypeOK, Chan!Drop

LEMMA ChanLeaveTypes ==
  ASSUME Chan!TypeOK, NEW p \in Chan!Processes, NEW how \in {"exited", "failed", "killed"},
         Chan!Leave(p, how)
  PROVE  Chan!TypeOK' /\ program' = program
  <1>1. program' = program
    BY DEF Chan!Leave
  <1>2. /\ readers' \in [Chan!Channels -> SUBSET Chan!Processes]
        /\ writers' \in [Chan!Channels -> SUBSET Chan!Processes]
    BY DEF Chan!TypeOK, Chan!Leave
  <1>3. content' \in [Chan!Channels -> Seq(Chan!Processes \X Nat)]
    BY <1>2, DropTypes DEF Chan!Leave
  <1>4. QED
    BY <1>1, <1>2, <1>3 DEF Chan!TypeOK, Chan!Leave, Chan!Processes

LEMMA ChanReturnTypes ==
  ASSUME Chan!TypeOK, NEW p \in Chan!Processes, Chan!Return(p)
  PROVE  /\ program' = program
         /\ chanpc' \in [Chan!Processes -> Nat \ {0}]
         /\ chanstate' = chanstate
  BY DEF Chan!TypeOK, Chan!Return

LEMMA WrittenTypes ==
  ASSUME Chan!TypeOK, NEW p \in Chan!Processes, Chan!Written(p), Common,
         NEW call, NEW x, Chan!Calls(p, call, x)
  PROVE  /\ program' = program
         /\ chanpc' \in [Chan!Processes -> Nat \ {0}]
         /\ UNCHANGED <<chanstate, there, readers, writers, taken>>
  <1>1. chanpc[p] \in Nat \ {0} /\ chanpc[p] \in DOMAIN program.code[p]
    BY DEF Chan!TypeOK, Chan!Calls
  <1>2. program.code[p][chanpc[p]][1] = "respond" => chanpc[p] = 6
    BY <1>1 DEF Common, GoesOn
  <1>3. QED
    BY <1>1, <1>2 DEF Chan!TypeOK, Chan!Written, Chan!held

LEMMA OpenEndTypes ==
  ASSUME Chan!TypeOK, NEW p \in Chan!Processes, NEW ch, NEW peers,
         Chan!OpenEnd(p, ch, peers)
  PROVE  /\ chanpc' \in [Chan!Processes -> Nat \ {0}]
         /\ chanstate' \in [Chan!Processes ->
              {"absent", "running", "opening", "exited", "failed", "killed"}]
  BY DEF Chan!TypeOK, Chan!OpenEnd

LEMMA ChanStepTypes ==
  ASSUME Chan!TypeOK, Common, [Chan!Next]_Chan!vars
  PROVE  Chan!TypeOK' /\ program' = program
  <1> DEFINE Messages2 == Chan!Processes \X Nat
  <1> USE DEF Chan!held, Chan!data
  <1>1. CASE UNCHANGED Chan!vars
    BY <1>1 DEF Chan!TypeOK, Chan!vars, Chan!Processes
  <1>2. ASSUME NEW p \in Chan!Processes, Chan!Fork(p)
        PROVE  Chan!TypeOK' /\ program' = program
    <2>1. program' = program
      BY <1>2 DEF Chan!Fork
    <2>2. chanstate' \in [Chan!Processes ->
              {"absent", "running", "opening", "exited", "failed", "killed"}]
      BY <1>2 DEF Chan!Fork, Chan!TypeOK
    <2>3. /\ readers' \in [Chan!Channels -> SUBSET Chan!Processes]
          /\ writers' \in [Chan!Channels -> SUBSET Chan!Processes]
      BY <1>2 DEF Chan!Fork, Chan!TypeOK, Common
    <2>4. QED
      BY <1>2, <2>1, <2>2, <2>3 DEF Chan!Fork, Chan!TypeOK, Chan!Processes
  <1>3. ASSUME NEW p \in Chan!Processes, Chan!ForkFails(p)
        PROVE  Chan!TypeOK' /\ program' = program
    <2>1. CASE Chan!Leave(p, "failed")
      BY <2>1, ChanLeaveTypes
    <2>2. CASE Chan!Return(p) /\ UNCHANGED <<there, Chan!held, Chan!data>>
      BY <2>2, ChanReturnTypes DEF Chan!TypeOK, Chan!Processes
    <2>3. QED
      BY <1>3, <2>1, <2>2 DEF Chan!ForkFails
  <1>4. ASSUME NEW p \in Chan!Processes, Chan!Wait(p) \/ Chan!OpenFails(p) \/ Chan!ReadFails(p)
        PROVE  Chan!TypeOK' /\ program' = program
    <2>1. Chan!Return(p) /\ UNCHANGED <<there, Chan!held, Chan!data>>
      BY <1>4 DEF Chan!Wait, Chan!OpenFails, Chan!ReadFails
    <2>2. QED
      BY <2>1, ChanReturnTypes DEF Chan!TypeOK, Chan!Processes
  <1>5. ASSUME NEW p \in Chan!Processes,
               Chan!Exit(p) \/ Chan!Kill(p) \/ Chan!WriteToNobody(p)
        PROVE  Chan!TypeOK' /\ program' = program
    BY <1>5, ChanLeaveTypes DEF Chan!Exit, Chan!Kill, Chan!WriteToNobody
  <1>6. ASSUME NEW p \in Chan!Processes, Chan!Create(p)
        PROVE  Chan!TypeOK' /\ program' = program
    <2>1. /\ there' \subseteq Chan!Named
          /\ writers' \in [Chan!Channels -> SUBSET Chan!Processes]
      BY <1>6 DEF Chan!Create, Chan!TypeOK, Chan!Channels
    <2>2. Chan!Return(p) /\ UNCHANGED <<readers, Chan!data>>
      BY <1>6 DEF Chan!Create
    <2>3. QED
      BY <2>1, <2>2, ChanReturnTypes DEF Chan!TypeOK, Chan!Processes
  <1>7. ASSUME NEW p \in Chan!Processes, Chan!Unlink(p)
        PROVE  Chan!TypeOK' /\ program' = program
    <2>1. there' \subseteq Chan!Named
      BY <1>7 DEF Chan!Unlink, Chan!TypeOK
    <2>2. Chan!Return(p) /\ UNCHANGED <<Chan!held, Chan!data>>
      BY <1>7 DEF Chan!Unlink
    <2>3. QED
      BY <2>1, <2>2, ChanReturnTypes DEF Chan!TypeOK, Chan!Processes
  <1>8. ASSUME NEW p \in Chan!Processes, Chan!Open(p)
        PROVE  Chan!TypeOK' /\ program' = program
    <2>1. /\ readers' \in [Chan!Channels -> SUBSET Chan!Processes]
          /\ writers' \in [Chan!Channels -> SUBSET Chan!Processes]
      <3>1. /\ readers \in [Chan!Channels -> SUBSET Chan!Processes]
            /\ writers \in [Chan!Channels -> SUBSET Chan!Processes]
        BY DEF Chan!TypeOK
      <3>2. \/ \E ch : readers' = [readers EXCEPT ![ch] = @ \cup {p}] /\ writers' = writers
            \/ \E ch : writers' = [writers EXCEPT ![ch] = @ \cup {p}] /\ readers' = readers
        BY <1>8 DEF Chan!Open
      <3>3. QED
        BY ONLY <1>8, <3>1, <3>2
    <2>2. \E ch, peers : Chan!OpenEnd(p, ch, peers)
      BY <1>8 DEF Chan!Open
    <2>3. UNCHANGED <<program, there, Chan!data>>
      BY <1>8 DEF Chan!Open
    <2>4. QED
      BY <2>1, <2>2, <2>3, OpenEndTypes DEF Chan!TypeOK, Chan!Processes
  <1>9. ASSUME NEW p \in Chan!Processes, Chan!Find(p)
        PROVE  Chan!TypeOK' /\ program' = program
    <2>1. CASE Chan!Leave(p, "failed")
      BY <2>1, ChanLeaveTypes
    <2>2. CASE /\ readers' = [readers EXCEPT !["mq"] = @ \cup {p}]
               /\ Chan!Return(p) /\ UNCHANGED <<there, writers, Chan!data>>
      BY <2>2, ChanReturnTypes DEF Chan!TypeOK, Chan!Processes
    <2>3. QED
      BY <1>9, <2>1, <2>2 DEF Chan!Find
  <1>10. ASSUME NEW p \in Chan!Processes, Chan!Close(p)
        PROVE  Chan!TypeOK' /\ program' = program
    <2>1. /\ readers' \in [Chan!Channels -> SUBSET Chan!Processes]
          /\ writers' \in [Chan!Channels -> SUBSET Chan!Processes]
      BY <1>10 DEF Chan!Close, Chan!TypeOK
    <2>2. Chan!Return(p) /\ UNCHANGED <<there, sent, taken>>
      BY <1>10 DEF Chan!Close
    <2>3. content' \in [Chan!Channels -> Seq(Chan!Processes \X Nat)]
      BY <1>10, <2>1, DropTypes DEF Chan!Close
    <2>4. QED
      BY <2>1, <2>2, <2>3, ChanReturnTypes DEF Chan!TypeOK, Chan!Processes
  <1>11. ASSUME NEW p \in Chan!Processes, Chan!Write(p)
         PROVE  Chan!TypeOK' /\ program' = program
    <2>1. PICK ch \in Chan!Channels :
            /\ Chan!CallsWrite(p, ch)
            /\ content' = [content EXCEPT ![ch] = Append(@, <<p, sent[p] + 1>>)]
            /\ sent' = [sent EXCEPT ![p] = @ + 1]
            /\ Chan!Written(p)
      BY <1>11 DEF Chan!Write
    <2>2. PICK call, x : Chan!Calls(p, call, x)
      BY <2>1 DEF Chan!CallsWrite
    <2>3. <<p, sent[p] + 1>> \in Messages2 /\ content[ch] \in Seq(Messages2)
      BY DEF Chan!TypeOK
    <2>4. Append(content[ch], <<p, sent[p] + 1>>) \in Seq(Messages2)
      BY ONLY <2>3, AppendProperties
    <2>5. content' \in [Chan!Channels -> Seq(Messages2)]
      BY <2>1, <2>4 DEF Chan!TypeOK
    <2>6. sent' \in [Chan!Processes -> Nat]
      BY <2>1 DEF Chan!TypeOK
    <2>7. QED
      BY <2>1, <2>2, <2>5, <2>6, WrittenTypes DEF Chan!TypeOK, Chan!Processes
  <1>12. ASSUME NEW p \in Chan!Processes, Chan!WriteFails(p)
         PROVE  Chan!TypeOK' /\ program' = program
    <2>1. PICK call, x : Chan!Calls(p, call, x)
      BY <1>12 DEF Chan!WriteFails, Chan!CallsWrite
    <2>2. Chan!Written(p) /\ UNCHANGED <<content, sent>>
      BY <1>12 DEF Chan!WriteFails
    <2>3. QED
      BY <2>1, <2>2, WrittenTypes DEF Chan!TypeOK, Chan!Processes
  <1>13. ASSUME NEW p \in Chan!Processes, Chan!Read(p)
         PROVE  Chan!TypeOK' /\ program' = program
    <2>1. PICK ch \in Chan!Channels, one \in BOOLEAN, goes \in BOOLEAN :
            /\ content[ch] # <<>>
            /\ taken' = [taken EXCEPT
                 ![p] = @ \o (IF one THEN <<Head(content[ch])>> ELSE content[ch])]
            /\ content' = [content EXCEPT ![ch] = IF one THEN Tail(@) ELSE <<>>]
            /\ chanpc' = [chanpc EXCEPT ![p] = IF goes THEN @ ELSE @ + 1]
            /\ UNCHANGED <<program, chanstate, there, readers, writers, sent>>
      BY <1>13 DEF Chan!Read
    <2>2. content[ch] \in Seq(Messages2) /\ taken[p] \in Seq(Messages2)
      BY DEF Chan!TypeOK
    <2> HIDE DEF Messages2
    <2>3. Tail(content[ch]) \in Seq(Messages2) /\ Head(content[ch]) \in Messages2
      BY ONLY <2>1, <2>2, HeadTailProperties
    <2>4. /\ taken[p] \o <<Head(content[ch])>> \in Seq(Messages2)
          /\ taken[p] \o content[ch] \in Seq(Messages2)
      <3>1. <<Head(content[ch])>> \in Seq(Messages2)
        BY ONLY <2>3
      <3>2. QED
        BY ONLY <2>2, <3>1, ConcatProperties
    <2>5. taken' \in [Chan!Processes -> Seq(Messages2)]
      BY <2>1, <2>4 DEF Chan!TypeOK, Messages2
    <2>6. content' \in [Chan!Channels -> Seq(Messages2)]
      BY <2>1, <2>3 DEF Chan!TypeOK, Messages2
    <2>7. chanpc' \in [Chan!Processes -> Nat \ {0}]
      <3>1. \/ chanpc' = [chanpc EXCEPT ![p] = @]
            \/ chanpc' = [chanpc EXCEPT ![p] = @ + 1]
        BY ONLY <2>1
      <3>2. chanpc \in [Chan!Processes -> Nat \ {0}]
        BY DEF Chan!TypeOK
      <3>3. QED
        BY ONLY <3>1, <3>2
    <2>8. QED
      BY <2>1, <2>5, <2>6, <2>7 DEF Chan!TypeOK, Chan!Processes, Messages2
  <1>14. ASSUME NEW p \in Chan!Processes, Chan!ReadEnd(p)
         PROVE  Chan!TypeOK' /\ program' = program
    <2>1. PICK one \in BOOLEAN, leaves \in BOOLEAN :
            /\ taken' = IF ~one THEN taken
                        ELSE [taken EXCEPT
                          ![p] = Append(@, IF @ = <<>> THEN Chan!Nothing ELSE @[Len(@)])]
            /\ chanpc' = [chanpc EXCEPT ![p] = IF leaves THEN @ + 2 ELSE @ + 1]
            /\ UNCHANGED <<program, chanstate, there, readers, writers, content, sent>>
      BY <1>14 DEF Chan!ReadEnd
    <2>2. taken[p] \in Seq(Messages2) /\ Chan!Nothing \in Messages2
      BY DEF Chan!TypeOK, Common, Chan!Nothing
    <2> DEFINE last == IF taken[p] = <<>> THEN Chan!Nothing ELSE taken[p][Len(taken[p])]
    <2> HIDE DEF Messages2
    <2>3. last \in Messages2
      BY <2>2
    <2>4. Append(taken[p], last) \in Seq(Messages2)
      BY <2>2, <2>3, AppendProperties
    <2>5. taken' \in [Chan!Processes -> Seq(Messages2)]
      BY <2>1, <2>4 DEF Chan!TypeOK, Messages2
    <2>6. chanpc' \in [Chan!Processes -> Nat \ {0}]
      BY <2>1 DEF Chan!TypeOK
    <2>7. QED
      BY <2>1, <2>5, <2>6 DEF Chan!TypeOK, Chan!Processes, Messages2
  <1>15. QED
    BY <1>1, <1>2, <1>3, <1>4, <1>5, <1>6, <1>7, <1>8, <1>9, <1>10, <1>11, <1>12, <1>13, <1>14
       DEF Chan!Next, Chan!Step

LEMMA ChanInitTypes == Chan!Init => Chan!TypeOK
  <1> SUFFICES ASSUME Chan!Init PROVE Chan!TypeOK
    OBVIOUS
  <1>1. program \in Chan!Programs
    BY DEF Chan!Init
  <1>2. Common
    BY <1>1, ProgramShape
  <1>3. /\ readers \in [Chan!Channels -> SUBSET Chan!Processes]
        /\ writers \in [Chan!Channels -> SUBSET Chan!Processes]
    BY <1>2 DEF Chan!Init, Common
  <1>4. there \subseteq Chan!Named
    BY DEF Chan!Init, Chan!Named
  <1>5. QED
    BY <1>1, <1>2, <1>3, <1>4 DEF Chan!Init, Chan!TypeOK

(* Homework1 and ipc_code: the ends are held by processes of the program,  *)
(* and what is in a channel or was read is one of their messages.          *)
THEOREM ChannelsTypeCorrect == Chan!Spec => []Chan!TypeOK
  <1>1. Chan!TypeOK /\ [Chan!Next]_Chan!vars => Chan!TypeOK'
    <2>1. Chan!TypeOK => Common
      BY ProgramShape DEF Chan!TypeOK
    <2>2. QED
      BY <2>1, ChanStepTypes
  <1>2. QED
    BY <1>1, ChanInitTypes, PTL DEF Chan!Spec

-----------------------------------------------------------------------------
(* Nothing is lost while no process was killed or failed and no fork did:  *)
(* child c is forked by call c of its parent.                              *)
Unharmed ==
  \A p \in Chan!Processes :
    \/ chanstate[p] \in {"running", "opening", "exited"}
    \/ chanstate[p] = "absent" /\ chanpc[0] <= p

ForkRight ==
  /\ \A c \in program.forked : chanpc[0] <= c => chanstate[c] = "absent"
  /\ \A p \in Chan!Processes : chanstate[p] = "absent" => p \in program.forked

(* Only a running process goes on, and only the parent starts another.     *)
Going(q) ==
  chanstate'[q] # chanstate[q] =>
    /\ chanstate'[q] # "absent"
    /\ \/ chanstate[q] \in {"running", "opening"}
       \/ q \in program.forked /\ chanpc[0] = q /\ chanpc'[0] = q + 1

GoingOn ==
  /\ \A q \in Chan!Processes : Going(q)
  /\ chanpc'[0] >= chanpc[0] \/ program.forked = {}

LEMMA LeaveGoes ==
  ASSUME Chan!TypeOK, Common, NEW p \in Chan!Processes,
         NEW how \in {"exited", "failed", "killed"},
         chanstate[p] \in {"running", "opening"}, Chan!Leave(p, how)
  PROVE  GoingOn
  BY DEF Chan!TypeOK, Common, Chan!Leave, GoingOn, Going

LEMMA ReturnGoes ==
  ASSUME Chan!TypeOK, Common, NEW p \in Chan!Processes, Chan!Return(p)
  PROVE  GoingOn
  BY DEF Chan!TypeOK, Common, Chan!Return, GoingOn, Going

LEMMA NextGoes ==
  ASSUME Chan!TypeOK, Common, Chan!Next
  PROVE  GoingOn
  <1> PICK p \in Chan!Processes : Chan!Step(p) \/ Chan!ForkFails(p) \/ Chan!Kill(p)
    BY DEF Chan!Next
  <1>1. CASE Chan!Fork(p)
    <2>1. PICK c \in program.forked :
            /\ Chan!Calls(p, "fork", c) \/ Chan!Calls(p, "fork_or_exit", c)
            /\ chanstate' = [chanstate EXCEPT ![c] = "running"]
            /\ chanpc' = [chanpc EXCEPT ![p] = @ + 1]
      BY <1>1 DEF Chan!Fork
    <2>2. p = 0 /\ chanpc[0] = c
      BY <2>1 DEF Chan!Calls, Common, ForksInTurn
    <2>3. QED
      BY <2>1, <2>2 DEF Chan!TypeOK, Common, GoingOn, Going
  <1>2. CASE Chan!ForkFails(p) \/ Chan!Find(p)
    BY <1>2, LeaveGoes, ReturnGoes DEF Chan!ForkFails, Chan!Find, Chan!Calls
  <1>3. CASE \/ Chan!Wait(p) \/ Chan!OpenFails(p) \/ Chan!ReadFails(p) \/ Chan!Create(p)
             \/ Chan!Unlink(p) \/ Chan!Close(p)
    BY <1>3, ReturnGoes
       DEF Chan!Wait, Chan!OpenFails, Chan!ReadFails, Chan!Create, Chan!Unlink, Chan!Close
  <1>4. CASE Chan!Exit(p) \/ Chan!Kill(p) \/ Chan!WriteToNobody(p)
    BY <1>4, LeaveGoes
       DEF Chan!Exit, Chan!Kill, Chan!WriteToNobody, Chan!CallsWrite, Chan!Calls
  <1>5. CASE Chan!Open(p)
    <2>1. PICK ch, peers : Chan!OpenEnd(p, ch, peers) /\ chanstate[p] = "running"
      BY <1>5 DEF Chan!Open, Chan!Calls
    <2>2. \A q \in Chan!Processes : Going(q)
      BY <2>1 DEF Chan!OpenEnd, Chan!TypeOK, Going
    <2>3. chanpc'[0] >= chanpc[0]
      BY <2>1 DEF Chan!OpenEnd, Chan!TypeOK, Common
    <2>4. QED
      BY <2>2, <2>3 DEF GoingOn
  <1>6. CASE Chan!Write(p) \/ Chan!WriteFails(p)
    <2>1. PICK call, x : Chan!Calls(p, call, x)
      BY <1>6 DEF Chan!Write, Chan!WriteFails, Chan!CallsWrite
    <2>2. Chan!Written(p)
      BY <1>6 DEF Chan!Write, Chan!WriteFails
    <2>3. program.code[p][chanpc[p]][1] = "respond" => program.forked = {}
      BY <2>1 DEF Chan!Calls, Common, GoesOn
    <2>4. QED
      BY <2>2, <2>3 DEF Chan!Written, Chan!TypeOK, Common, GoingOn, Going
  <1>7. CASE Chan!Read(p) \/ Chan!ReadEnd(p)
    <2>1. UNCHANGED chanstate
      BY <1>7 DEF Chan!Read, Chan!ReadEnd
    <2>2. \/ chanpc' = [chanpc EXCEPT ![p] = @]
          \/ chanpc' = [chanpc EXCEPT ![p] = @ + 1]
          \/ chanpc' = [chanpc EXCEPT ![p] = @ + 2]
      BY <1>7 DEF Chan!Read, Chan!ReadEnd
    <2>3. chanpc'[0] >= chanpc[0]
      <3>1. chanpc \in [Chan!Processes -> Nat \ {0}] /\ 0 \in Chan!Processes
        BY DEF Chan!TypeOK, Common
      <3>2. QED
        BY ONLY <2>2, <3>1
    <2>4. QED
      BY <2>1, <2>3 DEF GoingOn, Going
  <1>8. QED
    BY <1>1, <1>2, <1>3, <1>4, <1>5, <1>6, <1>7 DEF Chan!Step

LEMMA ForkRightStep ==
  ASSUME Chan!TypeOK, Chan!TypeOK', Common, ForkRight, program' = program, GoingOn
  PROVE  ForkRight'
  <1>1. Chan!Processes' = Chan!Processes
    BY DEF Chan!Processes
  <1>2. ASSUME NEW c \in program.forked, chanpc'[0] <= c
        PROVE  chanstate'[c] = "absent"
    <2>1. chanpc[0] \in Nat /\ c \in Nat /\ c \in Chan!Processes /\ chanpc'[0] >= chanpc[0]
      BY DEF Chan!TypeOK, Common, GoingOn
    <2>2. chanpc'[0] \in Nat
      BY <1>1 DEF Chan!TypeOK, Common
    <2>3. chanpc[0] <= c
      BY ONLY <1>2, <2>1, <2>2
    <2>4. chanstate[c] = "absent"
      BY <2>3 DEF ForkRight
    <2>5. QED
      BY <1>2, <2>1, <2>4 DEF GoingOn, Going
  <1>3. ASSUME NEW p \in Chan!Processes, chanstate'[p] = "absent"
        PROVE  p \in program.forked
    BY <1>3 DEF GoingOn, Going, ForkRight
  <1>4. QED
    BY <1>1, <1>2, <1>3 DEF ForkRight

LEMMA UnharmedBefore ==
  ASSUME Chan!TypeOK, Chan!TypeOK', Common, ForkRight, program' = program, GoingOn, Unharmed'
  PROVE  Unharmed
  <1>1. Chan!Processes' = Chan!Processes
    BY DEF Chan!Processes
  <1>2. ASSUME NEW p \in Chan!Processes,
               chanstate[p] \notin {"running", "opening", "exited"}
        PROVE  chanstate[p] = "absent" /\ chanpc[0] <= p
    <2>1. /\ chanpc[0] \in Nat /\ chanpc'[0] \in Nat /\ p \in Nat
          /\ chanstate[p] \in {"absent", "failed", "killed"}
      BY <1>1, <1>2 DEF Chan!TypeOK, Common
    <2>2. \/ chanstate'[p] \in {"running", "opening", "exited"}
          \/ chanstate'[p] = "absent" /\ chanpc'[0] <= p
      <3>1. p \in Chan!Processes'
        BY <1>1
      <3>2. QED
        BY ONLY <3>1, Unharmed' DEF Unharmed
    <2>3. CASE chanstate'[p] = chanstate[p]
      <3>1. chanstate[p] = "absent" /\ chanpc'[0] <= p
        BY <2>1, <2>2, <2>3
      <3>2. program.forked # {}
        BY <3>1 DEF ForkRight
      <3>3. chanpc'[0] >= chanpc[0]
        BY <3>2 DEF GoingOn
      <3>4. QED
        BY ONLY <2>1, <3>1, <3>3
    <2>4. CASE chanstate'[p] # chanstate[p]
      <3>1. p \in program.forked /\ chanpc[0] = p
        BY <1>2, <2>4 DEF GoingOn, Going
      <3>2. chanstate[p] = "absent"
        BY <2>1, <3>1 DEF ForkRight
      <3>3. QED
        BY <2>1, <3>1, <3>2
    <2>5. QED
      BY <2>3, <2>4
  <1>3. QED
    BY <1>2 DEF Unharmed

(* Then every step is one of these.                                        *)
Regular(p) ==
  \/ Chan!Fork(p) \/ Chan!Wait(p) \/ Chan!Exit(p) \/ Chan!Create(p) \/ Chan!Unlink(p)
  \/ Chan!Open(p) \/ Chan!OpenFails(p) \/ Chan!Close(p)
  \/ Chan!Find(p) /\ "mq" \in there
  \/ Chan!Write(p) \/ Chan!WriteFails(p) \/ Chan!Read(p) \/ Chan!ReadEnd(p)
  \/ Chan!ReadFails(p)

LEMMA RegularStep ==
  ASSUME Chan!TypeOK, Common, ForkRight, Unharmed', program' = program, Chan!Next
  PROVE  \E p \in Chan!Processes : Regular(p)
  <1>1. Chan!Processes' = Chan!Processes
    BY DEF Chan!Processes
  <1> PICK p \in Chan!Processes : Chan!Step(p) \/ Chan!ForkFails(p) \/ Chan!Kill(p)
    BY DEF Chan!Next
  <1>2. ASSUME NEW how \in {"killed", "failed"}, Chan!Leave(p, how)
        PROVE  FALSE
    <2>1. chanstate'[p] = how
      BY <1>2 DEF Chan!Leave, Chan!TypeOK
    <2>2. QED
      BY <1>1, <2>1 DEF Unharmed
  <1>3. ~Chan!Kill(p) /\ ~Chan!WriteToNobody(p)
    BY <1>2 DEF Chan!Kill, Chan!WriteToNobody
  <1>4. ~(Chan!Find(p) /\ "mq" \notin there)
    BY <1>2 DEF Chan!Find
  <1>5. ASSUME Chan!ForkFails(p) PROVE FALSE
    <2>1. PICK c \in program.forked : Chan!Calls(p, "fork", c) /\ Chan!Return(p)
      BY <1>2, <1>5 DEF Chan!ForkFails
    <2>2. p = 0 /\ chanpc[0] = c
      BY <2>1 DEF Chan!Calls, Common, ForksInTurn
    <2>3. /\ c \in Chan!Processes /\ c \in Nat /\ c # 0
          /\ chanpc'[0] = c + 1 /\ chanstate'[c] = chanstate[c]
      BY <2>1, <2>2 DEF Chan!Return, Chan!TypeOK, Common
    <2>4. chanstate[c] = "absent"
      BY <2>2, <2>3 DEF ForkRight
    <2>5. ~(chanpc'[0] <= c)
      BY ONLY <2>3
    <2>6. QED
      BY <1>1, <2>3, <2>4, <2>5 DEF Unharmed
  <1>6. QED
    BY <1>3, <1>4, <1>5 DEF Chan!Step, Regular

-----------------------------------------------------------------------------
(* The messages.  The channel that each process writes to:                 *)
Out ==
  [p \in Chan!Processes |->
     IF program = Chan!Queue THEN "mq"
     ELSE IF IsFifo THEN (IF p = 0 THEN "s2c" ELSE "c2s")
     ELSE IF program = Chan!Pipe /\ p = 0 THEN "fds2" ELSE "fds"]

LEMMA ProgramsDiffer ==
  /\ program \in {Chan!Pipe, Chan!Popen, Chan!Sums} => program # Chan!Queue /\ ~IsFifo
  /\ IsFifo => program # Chan!Queue
  /\ program \in {Chan!Popen, Chan!Sums} => program # Chan!Pipe
  <1>1. /\ Chan!Pipe.pipes = {"fds", "fds2"}
        /\ Chan!Popen.pipes = {"fds"} /\ Chan!Sums.pipes = {"fds"}
        /\ Chan!Fifo.pipes = {} /\ Chan!FifoOfTwo.pipes = {} /\ Chan!Queue.pipes = {}
    BY DEF Chan!Pipe, Chan!Popen, Chan!Sums, Chan!Fifo, Chan!FifoOfTwo, Chan!Queue
  <1>2. "fds" \in {"fds"} /\ "fds2" \notin {"fds"} /\ "fds" \in {"fds", "fds2"}
    OBVIOUS
  <1>3. IsFifo => program # Chan!Queue
    <2>1. Chan!FifoServer[1] # Chan!QueueReceiver[1]
      BY FifoServerCode, QueueCode
    <2>2. QED
      BY <2>1, ProgramCodes DEF IsFifo
  <1>4. QED
    BY <1>1, <1>2, <1>3 DEF IsFifo

LEMMA WritesOut ==
  ASSUME program \in Chan!Programs, NEW p \in Chan!Processes, NEW ch, Chan!CallsWrite(p, ch)
  PROVE  Out[p] = ch
  <1> DEFINE i == chanpc[p]
  <1>1. /\ i \in DOMAIN program.code[p]
        /\ program.code[p][i][1] \in {"write", "respond", "send"}
        /\ program.code[p][i][2] = ch
    BY DEF Chan!CallsWrite, Chan!Calls
  <1> HIDE DEF i
  <1>2. CASE program = Chan!Pipe
    BY <1>1, <1>2, PipeCalls, ProgramsDiffer DEF PipeCall, Out
  <1>3. CASE program = Chan!Popen
    BY <1>1, <1>3, PopenCalls, ProgramsDiffer DEF PopenCall, Out
  <1>4. CASE program = Chan!Sums
    BY <1>1, <1>4, SumsCalls, ProgramsDiffer DEF SumsCall, Out
  <1>5. CASE IsFifo
    <2>1. FifoCall(p, i, program.code[p][i][1], program.code[p][i][2])
      BY <1>1, <1>5, FifoCalls
    <2>2. CASE p = 0 /\ FifoServerCall(i, program.code[p][i][1], program.code[p][i][2])
      BY <1>1, <1>5, <2>2, ProgramsDiffer DEF FifoServerCall, Out
    <2>3. CASE p \in {1, 2} /\ FifoClientCall(Asks(p), i, program.code[p][i][1], program.code[p][i][2])
      BY <1>1, <1>5, <2>3, ProgramsDiffer DEF FifoClientCall, Out
    <2>4. QED
      BY <2>1, <2>2, <2>3 DEF FifoCall
  <1>6. CASE program = Chan!Queue
    BY <1>1, <1>6, QueueCalls, ProgramsDiffer DEF QueueCall, Out
  <1>7. QED
    BY <1>2, <1>3, <1>4, <1>5, <1>6 DEF Chan!Programs, IsFifo

Before(m, n) == m[1] = n[1] => m[2] < n[2]

(* Messages are where they were sent to, or with who read them,            *)
Placed ==
  /\ \A ch \in Chan!Channels : \A i \in DOMAIN content[ch] :
       content[ch][i][2] \in 1..sent[content[ch][i][1]] /\ Out[content[ch][i][1]] = ch
  /\ \A q \in Chan!Processes : \A i \in DOMAIN taken[q] :
       taken[q][i][2] \in 1..sent[taken[q][i][1]]

(* once and in the order in which each sender wrote them.                  *)
InOrder ==
  /\ \A ch \in Chan!Channels : \A i, j \in DOMAIN content[ch] :
       i < j => Before(content[ch][i], content[ch][j])
  /\ \A q \in Chan!Processes : \A i, j \in DOMAIN taken[q] :
       i < j => Before(taken[q][i], taken[q][j])
  /\ \A q \in Chan!Processes, ch \in Chan!Channels :
       \A i \in DOMAIN taken[q], j \in DOMAIN content[ch] : Before(taken[q][i], content[ch][j])
  /\ \A q, r \in Chan!Processes : \A i \in DOMAIN taken[q], j \in DOMAIN taken[r] :
       q # r => taken[q][i] # taken[r][j]

(* What a client sends to the FIFO's server at its end is lost with the    *)
(* FIFO; everything else is somewhere.                                     *)
LateOnes ==
  {p \in Chan!Processes :
     program = Chan!FifoOfTwo /\ p # 0 /\ chanpc[0] >= 7 /\ taken[p] = <<>>}

Kept ==
  \A p \in Chan!Processes : \A k \in 1..sent[p] :
    \/ \E q \in Chan!Processes : \E i \in DOMAIN taken[q] : taken[q][i] = <<p, k>>
    \/ \E i \in DOMAIN content[Out[p]] : content[Out[p]][i] = <<p, k>>
    \/ p \in LateOnes

Accounted == Placed /\ InOrder /\ Kept

(* What a step does to them.                                               *)
Wrote(p, ch) ==
  /\ content' = [content EXCEPT ![ch] = Append(@, <<p, sent[p] + 1>>)]
  /\ sent' = [sent EXCEPT ![p] = @ + 1]
  /\ taken' = taken

Took(p, ch, n) ==
  /\ sent' = sent
  /\ \A q \in Chan!Processes : q # p => taken'[q] = taken[q]
  /\ \A c \in Chan!Channels : c # ch => content'[c] = content[c]
  /\ Len(taken'[p]) = Len(taken[p]) + n
  /\ Len(content'[ch]) = Len(content[ch]) - n
  /\ \A i \in 1..Len(taken[p]) : taken'[p][i] = taken[p][i]
  /\ \A i \in 1..n : taken'[p][Len(taken[p]) + i] = content[ch][i]
  /\ \A i \in 1..Len(content'[ch]) : content'[ch][i] = content[ch][n + i]

Dropped ==
  /\ sent' = sent /\ taken' = taken
  /\ \A ch \in Chan!Channels : content'[ch] \in {content[ch], <<>>}

LEMMA MessageTypes ==
  ASSUME Chan!TypeOK
  PROVE  /\ \A ch \in Chan!Channels :
              /\ content[ch] \in Seq(Chan!Processes \X Nat)
              /\ Len(content[ch]) \in Nat /\ DOMAIN content[ch] = 1..Len(content[ch])
              /\ \A i \in DOMAIN content[ch] :
                   /\ content[ch][i][1] \in Chan!Processes /\ content[ch][i][2] \in Nat
                   /\ content[ch][i] = <<content[ch][i][1], content[ch][i][2]>>
         /\ \A q \in Chan!Processes :
              /\ taken[q] \in Seq(Chan!Processes \X Nat)
              /\ Len(taken[q]) \in Nat /\ DOMAIN taken[q] = 1..Len(taken[q])
              /\ \A i \in DOMAIN taken[q] :
                   /\ taken[q][i][1] \in Chan!Processes /\ taken[q][i][2] \in Nat
                   /\ taken[q][i] = <<taken[q][i][1], taken[q][i][2]>>
         /\ sent \in [Chan!Processes -> Nat]
  <1>1. ASSUME NEW P, NEW t \in Seq(P \X Nat)
        PROVE  /\ Len(t) \in Nat /\ DOMAIN t = 1..Len(t)
               /\ \A i \in DOMAIN t : /\ t[i][1] \in P /\ t[i][2] \in Nat
                                      /\ t[i] = <<t[i][1], t[i][2]>>
    <2>1. Len(t) \in Nat /\ DOMAIN t = 1..Len(t) /\ \A i \in DOMAIN t : t[i] \in P \X Nat
      OBVIOUS
    <2>2. QED
      BY ONLY <2>1
  <1>2. /\ \A ch \in Chan!Channels : content[ch] \in Seq(Chan!Processes \X Nat)
        /\ \A q \in Chan!Processes : taken[q] \in Seq(Chan!Processes \X Nat)
        /\ sent \in [Chan!Processes -> Nat]
    BY DEF Chan!TypeOK
  <1>3. QED
    BY ONLY <1>1, <1>2

LEMMA OutSame ==
  program' = program => Out' = Out /\ Chan!Processes' = Chan!Processes
  BY DEF Out, Chan!Processes, IsFifo

LEMMA ReadTook ==
  ASSUME Chan!TypeOK, NEW p \in Chan!Processes, NEW ch \in Chan!Channels, NEW one \in BOOLEAN,
         content[ch] # <<>>,
         taken' = [taken EXCEPT
           ![p] = @ \o (IF one THEN <<Head(content[ch])>> ELSE content[ch])],
         content' = [content EXCEPT ![ch] = IF one THEN Tail(@) ELSE <<>>],
         sent' = sent
  PROVE  Took(p, ch, IF one THEN 1 ELSE Len(content[ch]))
  <1> DEFINE M == Chan!Processes \X Nat
             s == content[ch]
             t == taken[p]
  <1>1. s \in Seq(M) /\ t \in Seq(M) /\ s # <<>>
    BY DEF Chan!TypeOK
  <1>2. /\ \A q \in Chan!Processes : q # p => taken'[q] = taken[q]
        /\ \A c \in Chan!Channels : c # ch => content'[c] = content[c]
        /\ taken'[p] = t \o (IF one THEN <<Head(s)>> ELSE s)
        /\ content'[ch] = IF one THEN Tail(s) ELSE <<>>
    BY DEF Chan!TypeOK
  <1> HIDE DEF M
  <1>3. CASE one
    <2>1. taken'[p] = t \o <<Head(s)>> /\ content'[ch] = Tail(s)
      BY <1>2, <1>3
    <2> HIDE DEF s, t
    <2>2. /\ Len(t \o <<Head(s)>>) = Len(t) + 1
          /\ \A i \in 1..Len(t) : (t \o <<Head(s)>>)[i] = t[i]
          /\ (t \o <<Head(s)>>)[Len(t) + 1] = s[1]
      BY ONLY <1>1
    <2>3. /\ Len(Tail(s)) = Len(s) - 1
          /\ \A i \in 1..Len(Tail(s)) : Tail(s)[i] = s[1 + i]
      BY ONLY <1>1
    <2>4. /\ Len(taken'[p]) = Len(t) + 1 /\ Len(content'[ch]) = Len(s) - 1
          /\ \A i \in 1..Len(t) : taken'[p][i] = t[i]
          /\ taken'[p][Len(t) + 1] = s[1]
          /\ \A i \in 1..Len(content'[ch]) : content'[ch][i] = s[1 + i]
      BY ONLY <2>1, <2>2, <2>3
    <2>5. \A i \in 1..1 : taken'[p][Len(t) + i] = s[i]
      BY ONLY <2>4
    <2>6. Took(p, ch, 1)
      BY <1>2, <2>4, <2>5 DEF Took, s, t
    <2>7. QED
      BY <1>3, <2>6
  <1>4. CASE ~one
    <2>1. taken'[p] = t \o s /\ content'[ch] = <<>>
      BY <1>2, <1>4
    <2> HIDE DEF s, t
    <2>2. /\ Len(t \o s) = Len(t) + Len(s)
          /\ \A i \in 1..Len(t) : (t \o s)[i] = t[i]
          /\ \A i \in 1..Len(s) : (t \o s)[Len(t) + i] = s[i]
      BY ONLY <1>1
    <2>3. Len(s) - Len(s) = 0 /\ Len(<<>>) = 0
      BY ONLY <1>1
    <2>4. /\ Len(taken'[p]) = Len(t) + Len(s) /\ Len(content'[ch]) = Len(s) - Len(s)
          /\ \A i \in 1..Len(t) : taken'[p][i] = t[i]
          /\ \A i \in 1..Len(s) : taken'[p][Len(t) + i] = s[i]
          /\ \A i \in 1..Len(content'[ch]) : content'[ch][i] = s[Len(s) + i]
      BY ONLY <2>1, <2>2, <2>3
    <2>5. Took(p, ch, Len(s))
      BY <1>2, <2>4 DEF Took, s, t
    <2>6. QED
      BY <1>4, <2>5 DEF s
  <1>5. QED
    BY <1>3, <1>4

LEMMA WroteContent ==
  ASSUME Chan!TypeOK, NEW p \in Chan!Processes, NEW ch \in Chan!Channels, Wrote(p, ch)
  PROVE  /\ Len(content'[ch]) = Len(content[ch]) + 1
         /\ \A i \in 1..Len(content[ch]) : content'[ch][i] = content[ch][i]
         /\ content'[ch][Len(content[ch]) + 1] = <<p, sent[p] + 1>>
         /\ \A c \in Chan!Channels : c # ch => content'[c] = content[c]
         /\ sent'[p] = sent[p] + 1
         /\ \A q \in Chan!Processes : q # p => sent'[q] = sent[q]
  <1> DEFINE s == content[ch]
             m == <<p, sent[p] + 1>>
  <1>1. content'[ch] = Append(s, m)
    BY DEF Wrote, Chan!TypeOK
  <1>2. s \in Seq(Chan!Processes \X Nat) /\ m \in Chan!Processes \X Nat
    BY DEF Chan!TypeOK
  <1> HIDE DEF s, m
  <1>3. /\ Len(Append(s, m)) = Len(s) + 1
        /\ \A i \in 1..Len(s) : Append(s, m)[i] = s[i]
        /\ Append(s, m)[Len(s) + 1] = m
    BY ONLY <1>2, AppendProperties
  <1>4. /\ Len(content'[ch]) = Len(s) + 1
        /\ \A i \in 1..Len(s) : content'[ch][i] = s[i]
        /\ content'[ch][Len(s) + 1] = m
    BY ONLY <1>1, <1>3
  <1>5. QED
    BY <1>4 DEF Wrote, Chan!TypeOK, s, m

(* The place in a channel, or the new one.                                 *)
LEMMA WrotePlaces ==
  ASSUME Chan!TypeOK, Chan!TypeOK', program' = program,
         NEW p \in Chan!Processes, NEW ch \in Chan!Channels, Wrote(p, ch),
         NEW c \in Chan!Channels, NEW i \in DOMAIN content'[c]
  PROVE  \/ i \in DOMAIN content[c] /\ content'[c][i] = content[c][i]
         \/ c = ch /\ i = Len(content[ch]) + 1 /\ content'[c][i] = <<p, sent[p] + 1>>
  <1>1. DOMAIN content'[c] = 1..Len(content'[c])
    BY DEF Chan!TypeOK
  <1>2. DOMAIN content[c] = 1..Len(content[c]) /\ Len(content[c]) \in Nat
    BY MessageTypes
  <1>3. QED
    BY <1>1, <1>2, WroteContent

LEMMA WroteAccounted ==
  ASSUME Chan!TypeOK, Chan!TypeOK', program' = program, Accounted,
         NEW p \in Chan!Processes, NEW ch \in Chan!Channels, Out[p] = ch,
         Wrote(p, ch), LateOnes \subseteq LateOnes'
  PROVE  Accounted'
  <1> USE DEF Accounted
  <1>1. Out' = Out /\ Chan!Processes' = Chan!Processes /\ taken' = taken
    BY OutSame DEF Wrote
  <1> DEFINE m == <<p, sent[p] + 1>>
             n == Len(content[ch]) + 1
  <1>2. /\ \A q \in Chan!Processes : sent[q] \in Nat /\ sent'[q] \in Nat /\ sent'[q] >= sent[q]
        /\ sent'[p] = sent[p] + 1
    BY WroteContent, MessageTypes
  <1>3. \A c \in Chan!Channels : \A i \in DOMAIN content'[c] :
          \/ i \in DOMAIN content[c] /\ content'[c][i] = content[c][i]
          \/ c = ch /\ i = n /\ content'[c][i] = m
    BY WrotePlaces
  <1>4. /\ \A c \in Chan!Channels : \A i \in DOMAIN content[c] :
             /\ content[c][i][1] \in Chan!Processes /\ content[c][i][2] \in Nat
             /\ content[c][i][2] \in 1..sent[content[c][i][1]] /\ Out[content[c][i][1]] = c
        /\ \A q \in Chan!Processes : \A i \in DOMAIN taken[q] :
             /\ taken[q][i][1] \in Chan!Processes /\ taken[q][i][2] \in Nat
             /\ taken[q][i][2] \in 1..sent[taken[q][i][1]]
    BY MessageTypes DEF Placed
  <1>5. m[1] = p /\ m[2] = sent[p] + 1 /\ n = Len(content[ch]) + 1
    OBVIOUS
  <1> HIDE DEF m, n
  <1>6. Placed'
    <2>1. ASSUME NEW c \in Chan!Channels, NEW i \in DOMAIN content'[c]
          PROVE  content'[c][i][2] \in 1..sent'[content'[c][i][1]] /\ Out[content'[c][i][1]] = c
      <3>1. CASE i \in DOMAIN content[c] /\ content'[c][i] = content[c][i]
        BY <1>2, <1>4, <3>1
      <3>2. CASE c = ch /\ content'[c][i] = m
        BY <1>2, <1>5, <3>2
      <3>3. QED
        BY <1>3, <3>1, <3>2
    <2>2. ASSUME NEW q \in Chan!Processes, NEW i \in DOMAIN taken[q]
          PROVE  taken[q][i][2] \in 1..sent'[taken[q][i][1]]
      BY <1>2, <1>4
    <2>3. QED
      BY <1>1, <2>1, <2>2 DEF Placed
  <1>7. InOrder'
    <2>1. ASSUME NEW c \in Chan!Channels, NEW i \in DOMAIN content'[c],
                 NEW j \in DOMAIN content'[c], i < j
          PROVE  Before(content'[c][i], content'[c][j])
      <3>1. CASE j \in DOMAIN content[c] /\ content'[c][j] = content[c][j]
        <4>1. i # n \/ c # ch
          BY <1>5, <2>1, <3>1, MessageTypes
        <4>2. i \in DOMAIN content[c] /\ content'[c][i] = content[c][i]
          BY <1>3, <4>1
        <4>3. QED
          BY <2>1, <3>1, <4>2 DEF InOrder
      <3>2. CASE c = ch /\ j = n /\ content'[c][j] = m
        <4>1. i \in DOMAIN content[c] /\ content'[c][i] = content[c][i]
          <5>1. i # n
            BY <2>1, <3>2, <1>5, MessageTypes
          <5>2. QED
            BY <1>3, <5>1
        <4>2. content[c][i][1] = p => content[c][i][2] < sent[p] + 1
          BY <1>2, <1>4, <4>1
        <4>3. QED
          BY <1>5, <3>2, <4>1, <4>2 DEF Before
      <3>3. QED
        BY <1>3, <3>1, <3>2
    <2>2. ASSUME NEW q \in Chan!Processes, NEW c \in Chan!Channels,
                 NEW i \in DOMAIN taken[q], NEW j \in DOMAIN content'[c]
          PROVE  Before(taken[q][i], content'[c][j])
      <3>1. CASE j \in DOMAIN content[c] /\ content'[c][j] = content[c][j]
        BY <3>1 DEF InOrder
      <3>2. CASE content'[c][j] = m
        <4>1. taken[q][i][1] = p => taken[q][i][2] < sent[p] + 1
          BY <1>2, <1>4
        <4>2. QED
          BY <1>5, <3>2, <4>1 DEF Before
      <3>3. QED
        BY <1>3, <3>1, <3>2
    <2>3. QED
      BY <1>1, <2>1, <2>2 DEF InOrder, Before
  <1>8. Kept'
    <2>1. ASSUME NEW q \in Chan!Processes, NEW k \in 1..sent'[q]
          PROVE  \/ \E r \in Chan!Processes : \E i \in DOMAIN taken[r] : taken[r][i] = <<q, k>>
                 \/ \E i \in DOMAIN content'[Out[q]] : content'[Out[q]][i] = <<q, k>>
                 \/ q \in LateOnes'
      <3>1. CASE k \in 1..sent[q]
        <4>1. CASE \E i \in DOMAIN content[Out[q]] : content[Out[q]][i] = <<q, k>>
          <5>1. Out[q] \in Chan!Channels
            BY DEF Out, Chan!Channels, Chan!Named
          <5>2. \A i \in DOMAIN content[Out[q]] :
                  i \in DOMAIN content'[Out[q]] /\ content'[Out[q]][i] = content[Out[q]][i]
            <6>1. /\ DOMAIN content[Out[q]] = 1..Len(content[Out[q]])
                  /\ DOMAIN content'[Out[q]] = 1..Len(content'[Out[q]])
                  /\ Len(content[Out[q]]) \in Nat
              BY <5>1 DEF Chan!TypeOK
            <6>2. QED
              BY <5>1, <6>1, WroteContent
          <5>3. QED
            BY <4>1, <5>2
        <4>2. QED
          BY <3>1, <4>1 DEF Kept
      <3>2. CASE k \notin 1..sent[q]
        <4>1. q = p /\ k = sent[p] + 1
          BY <1>2, <3>2, WroteContent
        <4>2. n \in DOMAIN content'[ch] /\ content'[ch][n] = <<p, sent[p] + 1>>
          <5>1. DOMAIN content'[ch] = 1..Len(content'[ch]) /\ Len(content[ch]) \in Nat
            BY DEF Chan!TypeOK
          <5>2. QED
            BY <1>5, <5>1, WroteContent
        <4>3. QED
          BY <4>1, <4>2
      <3>3. QED
        BY <3>1, <3>2
    <2>2. QED
      BY <1>1, <2>1 DEF Kept
  <1>9. QED
    BY <1>6, <1>7, <1>8

(* A message that a process has, it had or has just taken.                 *)
LEMMA TookPlaces ==
  ASSUME Chan!TypeOK, Chan!TypeOK', program' = program,
         NEW p \in Chan!Processes, NEW ch \in Chan!Channels, NEW n \in 0..Len(content[ch]),
         Took(p, ch, n)
  PROVE  /\ \A q \in Chan!Processes : \A i \in DOMAIN taken'[q] :
              \/ i \in DOMAIN taken[q] /\ taken'[q][i] = taken[q][i]
              \/ /\ q = p /\ i > Len(taken[p]) /\ i - Len(taken[p]) \in DOMAIN content[ch]
                 /\ i - Len(taken[p]) <= n /\ taken'[q][i] = content[ch][i - Len(taken[p])]
         /\ \A c \in Chan!Channels : \A i \in DOMAIN content'[c] :
              \/ c # ch /\ i \in DOMAIN content[c] /\ content'[c][i] = content[c][i]
              \/ c = ch /\ n + i \in DOMAIN content[ch] /\ content'[c][i] = content[ch][n + i]
  <1>1. /\ \A q \in Chan!Processes :
             /\ DOMAIN taken[q] = 1..Len(taken[q]) /\ Len(taken[q]) \in Nat
             /\ DOMAIN taken'[q] = 1..Len(taken'[q])
        /\ \A c \in Chan!Channels :
             /\ DOMAIN content[c] = 1..Len(content[c]) /\ Len(content[c]) \in Nat
             /\ DOMAIN content'[c] = 1..Len(content'[c])
    BY DEF Chan!TypeOK, Chan!Processes
  <1>2. ASSUME NEW q \in Chan!Processes, NEW i \in DOMAIN taken'[q]
        PROVE  \/ i \in DOMAIN taken[q] /\ taken'[q][i] = taken[q][i]
               \/ /\ q = p /\ i > Len(taken[p]) /\ i - Len(taken[p]) \in DOMAIN content[ch]
                  /\ i - Len(taken[p]) <= n /\ taken'[q][i] = content[ch][i - Len(taken[p])]
    <2>1. CASE q # p
      BY <2>1 DEF Took
    <2>2. CASE q = p /\ i <= Len(taken[p])
      BY <1>1, <2>2 DEF Took
    <2>3. CASE q = p /\ i > Len(taken[p])
      <3> DEFINE j == i - Len(taken[p])
      <3>1. j \in 1..n /\ Len(taken[p]) + j = i /\ j \in DOMAIN content[ch]
        BY <1>1, <2>3 DEF Took
      <3>2. taken'[p][Len(taken[p]) + j] = content[ch][j]
        BY <3>1 DEF Took
      <3>3. QED
        BY <2>3, <3>1, <3>2
    <2>4. QED
      BY <1>1, <2>1, <2>2, <2>3
  <1>3. ASSUME NEW c \in Chan!Channels, NEW i \in DOMAIN content'[c]
        PROVE  \/ c # ch /\ i \in DOMAIN content[c] /\ content'[c][i] = content[c][i]
               \/ c = ch /\ n + i \in DOMAIN content[ch] /\ content'[c][i] = content[ch][n + i]
    <2>1. CASE c # ch
      BY <2>1 DEF Took
    <2>2. CASE c = ch
      <3>1. /\ Len(content[ch]) \in Nat /\ DOMAIN content[ch] = 1..Len(content[ch])
            /\ i \in 1..Len(content'[ch]) /\ Len(content'[ch]) = Len(content[ch]) - n
        BY <1>1, <2>2 DEF Took
      <3>2. n + i \in DOMAIN content[ch]
        BY <3>1
      <3>3. content'[ch][i] = content[ch][n + i]
        BY <3>1 DEF Took
      <3>4. QED
        BY <2>2, <3>2, <3>3
    <2>3. QED
      BY <2>1, <2>2
  <1>4. QED
    BY <1>2, <1>3

LEMMA TookAccounted ==
  ASSUME Chan!TypeOK, Chan!TypeOK', program' = program, Accounted,
         NEW p \in Chan!Processes, NEW ch \in Chan!Channels, NEW n \in 0..Len(content[ch]),
         Took(p, ch, n), LateOnes \subseteq LateOnes'
  PROVE  Accounted'
  <1> USE DEF Accounted
  <1>1. Out' = Out /\ Chan!Processes' = Chan!Processes /\ sent' = sent
    BY OutSame DEF Took
  <1> DEFINE len == Len(taken[p])
             all == content[ch]
  <1>2. /\ \A q \in Chan!Processes : \A i \in DOMAIN taken'[q] :
              \/ i \in DOMAIN taken[q] /\ taken'[q][i] = taken[q][i]
              \/ /\ q = p /\ i > len /\ i - len \in DOMAIN all
                 /\ i - len <= n /\ taken'[q][i] = all[i - len]
        /\ \A c \in Chan!Channels : \A i \in DOMAIN content'[c] :
              \/ c # ch /\ i \in DOMAIN content[c] /\ content'[c][i] = content[c][i]
              \/ c = ch /\ n + i \in DOMAIN all /\ content'[c][i] = all[n + i]
    BY TookPlaces
  <1>3. /\ \A c \in Chan!Channels : \A i \in DOMAIN content[c] :
             /\ content[c][i][1] \in Chan!Processes /\ content[c][i][2] \in Nat
             /\ content[c][i][2] \in 1..sent[content[c][i][1]] /\ Out[content[c][i][1]] = c
        /\ \A q \in Chan!Processes : \A i \in DOMAIN taken[q] :
             /\ taken[q][i][1] \in Chan!Processes /\ taken[q][i][2] \in Nat
             /\ taken[q][i][2] \in 1..sent[taken[q][i][1]]
    BY MessageTypes DEF Placed
  <1>4. /\ \A c \in Chan!Channels : \A i \in DOMAIN content'[c] : i \in Nat \ {0}
        /\ \A q \in Chan!Processes : \A i \in DOMAIN taken'[q] : i \in Nat \ {0}
        /\ len \in Nat /\ n \in Nat /\ Len(all) \in Nat
        /\ DOMAIN taken[p] = 1..len /\ DOMAIN all = 1..Len(all)
    <2>1. /\ \A c \in Chan!Channels : content'[c] \in Seq(Chan!Processes \X Nat)
          /\ \A q \in Chan!Processes : taken'[q] \in Seq(Chan!Processes \X Nat)
      BY <1>1 DEF Chan!TypeOK
    <2>2. /\ \A c \in Chan!Channels : \A i \in DOMAIN content'[c] : i \in Nat \ {0}
          /\ \A q \in Chan!Processes : \A i \in DOMAIN taken'[q] : i \in Nat \ {0}
      BY <2>1
    <2>3. /\ len \in Nat /\ n \in Nat /\ Len(all) \in Nat
          /\ DOMAIN taken[p] = 1..len /\ DOMAIN all = 1..Len(all)
      BY MessageTypes
    <2>4. QED
      BY <2>2, <2>3
  <1>5. all = content[ch]
    OBVIOUS
  <1> HIDE DEF len, all
  <1>6. Placed'
    <2>1. ASSUME NEW c \in Chan!Channels, NEW i \in DOMAIN content'[c]
          PROVE  content'[c][i][2] \in 1..sent[content'[c][i][1]] /\ Out[content'[c][i][1]] = c
      BY <1>2, <1>3, <1>5
    <2>2. ASSUME NEW q \in Chan!Processes, NEW i \in DOMAIN taken'[q]
          PROVE  taken'[q][i][2] \in 1..sent[taken'[q][i][1]]
      BY <1>2, <1>3, <1>5
    <2>3. QED
      BY <1>1, <2>1, <2>2 DEF Placed
  <1>7. InOrder'
    <2>1. ASSUME NEW c \in Chan!Channels, NEW i \in DOMAIN content'[c],
                 NEW j \in DOMAIN content'[c], i < j
          PROVE  Before(content'[c][i], content'[c][j])
      <3>1. CASE c # ch
        BY <1>2, <2>1, <3>1 DEF InOrder
      <3>2. CASE c = ch
        <4>1. /\ n + i \in DOMAIN all /\ content'[c][i] = all[n + i]
              /\ n + j \in DOMAIN all /\ content'[c][j] = all[n + j]
          BY <1>2, <3>2
        <4>2. n + i < n + j
          BY <1>4, <2>1
        <4>3. QED
          BY <1>5, <4>1, <4>2 DEF InOrder
      <3>3. QED
        BY <3>1, <3>2
    <2>2. ASSUME NEW q \in Chan!Processes, NEW i \in DOMAIN taken'[q],
                 NEW j \in DOMAIN taken'[q], i < j
          PROVE  Before(taken'[q][i], taken'[q][j])
      <3>1. CASE /\ i \in DOMAIN taken[q] /\ taken'[q][i] = taken[q][i]
                 /\ j \in DOMAIN taken[q] /\ taken'[q][j] = taken[q][j]
        BY <2>2, <3>1 DEF InOrder
      <3>2. CASE /\ i \in DOMAIN taken[q] /\ taken'[q][i] = taken[q][i]
                 /\ q = p /\ j - len \in DOMAIN all /\ taken'[q][j] = all[j - len]
        BY <1>5, <3>2 DEF InOrder
      <3>3. CASE /\ q = p /\ i - len \in DOMAIN all /\ taken'[q][i] = all[i - len]
                 /\ j - len \in DOMAIN all /\ taken'[q][j] = all[j - len]
        <4>1. i - len < j - len
          BY <1>4, <2>2
        <4>2. QED
          BY <1>5, <3>3, <4>1 DEF InOrder
      <3>4. CASE /\ q = p /\ i > len
                 /\ j \in DOMAIN taken[q]
        BY <1>4, <2>2, <3>4
      <3>5. QED
        BY <1>2, <3>1, <3>2, <3>3, <3>4
    <2>3. ASSUME NEW q \in Chan!Processes, NEW c \in Chan!Channels,
                 NEW i \in DOMAIN taken'[q], NEW j \in DOMAIN content'[c]
          PROVE  Before(taken'[q][i], content'[c][j])
      <3>1. PICK j2 \in DOMAIN content[c] :
              content'[c][j] = content[c][j2] /\ (c = ch => j2 = n + j)
        BY <1>2, <1>5
      <3>2. CASE i \in DOMAIN taken[q] /\ taken'[q][i] = taken[q][i]
        BY <3>1, <3>2 DEF InOrder
      <3>3. CASE /\ i - len \in DOMAIN all /\ i - len <= n /\ taken'[q][i] = all[i - len]
        <4>1. CASE c = ch
          <5>1. i - len < j2
            BY <1>4, <3>1, <3>3, <4>1
          <5>2. QED
            BY <1>5, <3>1, <3>3, <4>1, <5>1 DEF InOrder
        <4>2. CASE c # ch
          <5>1. Out[content[c][j2][1]] = c /\ Out[all[i - len][1]] = ch
            BY <1>3, <1>5, <3>3
          <5>2. QED
            BY <3>1, <3>3, <4>2, <5>1 DEF Before
        <4>3. QED
          BY <4>1, <4>2
      <3>4. QED
        BY <1>2, <3>2, <3>3
    <2>4. ASSUME NEW r \in Chan!Processes, NEW i \in DOMAIN taken'[p],
                 NEW j \in DOMAIN taken'[r], p # r
          PROVE  taken'[p][i] # taken'[r][j]
      <3>1. j \in DOMAIN taken[r] /\ taken'[r][j] = taken[r][j]
        BY <1>2, <2>4
      <3>2. CASE i \in DOMAIN taken[p] /\ taken'[p][i] = taken[p][i]
        BY <2>4, <3>1, <3>2 DEF InOrder
      <3>3. CASE i - len \in DOMAIN all /\ taken'[p][i] = all[i - len]
        <4>1. Before(taken[r][j], all[i - len])
          BY <1>5, <3>1, <3>3 DEF InOrder
        <4>2. taken[r][j][2] \in Nat
          BY <1>3, <3>1
        <4>3. QED
          BY <3>1, <3>3, <4>1, <4>2 DEF Before
      <3>4. QED
        BY <1>2, <3>2, <3>3
    <2>5. ASSUME NEW q \in Chan!Processes, NEW r \in Chan!Processes,
                 NEW i \in DOMAIN taken'[q], NEW j \in DOMAIN taken'[r], q # r
          PROVE  taken'[q][i] # taken'[r][j]
      <3>1. CASE q = p \/ r = p
        BY <2>4, <2>5, <3>1
      <3>2. CASE q # p /\ r # p
        BY <1>2, <2>5, <3>2 DEF InOrder
      <3>3. QED
        BY <3>1, <3>2
    <2>6. QED
      BY <1>1, <2>1, <2>2, <2>3, <2>5 DEF InOrder, Before
  <1>8. Kept'
    <2>1. ASSUME NEW q \in Chan!Processes, NEW k \in 1..sent[q]
          PROVE  \/ \E r \in Chan!Processes : \E i \in DOMAIN taken'[r] : taken'[r][i] = <<q, k>>
                 \/ \E i \in DOMAIN content'[Out[q]] : content'[Out[q]][i] = <<q, k>>
                 \/ q \in LateOnes'
      <3> DEFINE m == <<q, k>>
      <3>1. /\ \A r \in Chan!Processes : DOMAIN taken'[r] = 1..Len(taken'[r])
            /\ \A r \in Chan!Processes : DOMAIN taken[r] = 1..Len(taken[r])
            /\ \A c \in Chan!Channels : DOMAIN content'[c] = 1..Len(content'[c])
        BY <1>1 DEF Chan!TypeOK
      <3> HIDE DEF m
      <3>2. ASSUME NEW r \in Chan!Processes, NEW i \in DOMAIN taken[r], taken[r][i] = m
            PROVE  \E i2 \in DOMAIN taken'[r] : taken'[r][i2] = m
        <4>1. CASE r # p
          BY <3>2, <4>1 DEF Took
        <4>2. CASE r = p
          <5>1. i \in 1..len /\ i \in DOMAIN taken'[p]
            BY <1>4, <3>1, <4>2 DEF Took, len
          <5>2. taken'[p][i] = taken[p][i]
            BY <5>1 DEF Took, len
          <5>3. QED
            BY <3>2, <4>2, <5>1, <5>2
        <4>3. QED
          BY <4>1, <4>2
      <3>3. ASSUME NEW i \in DOMAIN content[Out[q]], content[Out[q]][i] = m
            PROVE  \/ \E r \in Chan!Processes : \E i2 \in DOMAIN taken'[r] : taken'[r][i2] = m
                   \/ \E i2 \in DOMAIN content'[Out[q]] : content'[Out[q]][i2] = m
        <4>1. Out[q] \in Chan!Channels
          BY DEF Out, Chan!Channels, Chan!Named
        <4>2. CASE Out[q] # ch
          BY <3>3, <4>1, <4>2 DEF Took
        <4>3. CASE Out[q] = ch /\ i <= n
          <5>1. i \in 1..n /\ len + i \in DOMAIN taken'[p]
            BY <1>4, <1>5, <3>1, <4>3 DEF Took, len
          <5>2. taken'[p][len + i] = content[ch][i]
            BY <5>1 DEF Took, len
          <5>3. QED
            BY <3>3, <4>3, <5>1, <5>2
        <4>4. CASE Out[q] = ch /\ i > n
          <5>1. i - n \in 1..Len(content'[ch]) /\ n + (i - n) = i
            BY <1>4, <1>5, <4>4 DEF Took
          <5>2. content'[ch][i - n] = content[ch][n + (i - n)]
            BY <5>1 DEF Took
          <5>3. i - n \in DOMAIN content'[Out[q]]
            BY <3>1, <4>4, <5>1
          <5>4. QED
            BY <3>3, <4>4, <5>1, <5>2, <5>3
        <4>5. QED
          BY <1>4, <1>5, <4>2, <4>3, <4>4
      <3>4. QED
        BY <3>2, <3>3 DEF Kept, m
    <2>2. \A q \in Chan!Processes : \A k \in 1..sent[q] :
            \/ \E r \in Chan!Processes : \E i \in DOMAIN taken'[r] : taken'[r][i] = <<q, k>>
            \/ \E i \in DOMAIN content'[Out[q]] : content'[Out[q]][i] = <<q, k>>
            \/ q \in LateOnes'
      BY <2>1
    <2>3. QED
      BY ONLY <1>1, <2>2 DEF Kept
  <1>9. QED
    BY <1>6, <1>7, <1>8

(* What was in a channel that is gone came late.                           *)
LEMMA DroppedAccounted ==
  ASSUME Chan!TypeOK, Chan!TypeOK', program' = program, Accounted, Dropped,
         LateOnes \subseteq LateOnes',
         \A ch \in Chan!Channels : content'[ch] # content[ch] =>
           \A i \in DOMAIN content[ch] : content[ch][i][1] \in LateOnes'
  PROVE  Accounted'
  <1> USE DEF Accounted
  <1>1. Out' = Out /\ Chan!Processes' = Chan!Processes /\ sent' = sent /\ taken' = taken
    BY OutSame DEF Dropped
  <1>2. \A ch \in Chan!Channels : \A i \in DOMAIN content'[ch] :
          i \in DOMAIN content[ch] /\ content'[ch][i] = content[ch][i]
    BY DEF Dropped
  <1>3. Placed'
    BY <1>1, <1>2 DEF Placed
  <1>4. InOrder'
    BY <1>1, <1>2 DEF InOrder, Before
  <1>5. Kept'
    <2>1. ASSUME NEW q \in Chan!Processes, NEW k \in 1..sent[q],
                 NEW i \in DOMAIN content[Out[q]], content[Out[q]][i] = <<q, k>>
          PROVE  \/ i \in DOMAIN content'[Out[q]] /\ content'[Out[q]][i] = <<q, k>>
                 \/ q \in LateOnes'
      <3>1. Out[q] \in Chan!Channels
        BY DEF Out, Chan!Channels, Chan!Named
      <3>2. QED
        BY <2>1, <3>1
    <2>2. \A q \in Chan!Processes : \A k \in 1..sent[q] :
            \/ \E r \in Chan!Processes : \E i \in DOMAIN taken[r] : taken[r][i] = <<q, k>>
            \/ \E i \in DOMAIN content'[Out[q]] : content'[Out[q]][i] = <<q, k>>
            \/ q \in LateOnes'
      BY <2>1 DEF Kept
    <2>3. \A q \in Chan!Processes : \A k \in 1..sent[q] :
            \/ \E r \in Chan!Processes : \E i \in DOMAIN taken'[r] : taken'[r][i] = <<q, k>>
            \/ \E i \in DOMAIN content'[Out[q]] : content'[Out[q]][i] = <<q, k>>
            \/ q \in LateOnes'
      BY ONLY <1>1, <2>2
    <2>4. QED
      BY ONLY <1>1, <2>3 DEF Kept
  <1>6. QED
    BY <1>3, <1>4, <1>5

(* Who has exited was at its end, and stays there.                         *)
ExitedAtEnd ==
  \A p \in Chan!Processes :
    chanstate[p] = "exited" => chanpc[p] > Len(program.code[p])

LEMMA ReturnStays ==
  ASSUME Chan!TypeOK, NEW p \in Chan!Processes, NEW d, chanstate[p] = "running",
         chanpc' = [chanpc EXCEPT ![p] = d], chanstate' = chanstate
  PROVE  \A q \in Chan!Processes : chanstate'[q] = "exited" =>
           chanpc'[q] = chanpc[q] /\ chanstate[q] = "exited"
  BY DEF Chan!TypeOK

LEMMA ExitedStep ==
  ASSUME Chan!TypeOK, Common, ExitedAtEnd, program' = program,
         NEW p \in Chan!Processes, Regular(p)
  PROVE  ExitedAtEnd'
  <1>1. Chan!Processes' = Chan!Processes
    BY DEF Chan!Processes
  <1> DEFINE Stays(q) == chanpc'[q] = chanpc[q] /\ chanstate[q] = "exited"
             Ends(q) == chanpc'[q] = chanpc[q] /\ chanpc[q] > Len(program.code[q])
  <1>2. ASSUME \A q \in Chan!Processes : chanstate'[q] = "exited" => Stays(q) \/ Ends(q)
        PROVE  ExitedAtEnd'
    BY <1>1, <1>2 DEF ExitedAtEnd
  <1>3. CASE Chan!Exit(p)
    <2>1. \A q \in Chan!Processes : chanstate'[q] = "exited" => Stays(q) \/ Ends(q)
      BY <1>3 DEF Chan!Exit, Chan!Leave, Chan!TypeOK
    <2>2. QED
      BY <1>2, <2>1
  <1>4. ASSUME Chan!Return(p), chanstate[p] = "running" PROVE ExitedAtEnd'
    <2>1. \A q \in Chan!Processes : chanstate'[q] = "exited" => Stays(q)
      BY <1>4, ReturnStays DEF Chan!Return
    <2>2. QED
      BY <1>2, <2>1
  <1>5. CASE \/ Chan!Wait(p) \/ Chan!Create(p) \/ Chan!Unlink(p) \/ Chan!OpenFails(p)
             \/ Chan!Close(p) \/ Chan!ReadFails(p)
    BY <1>4, <1>5
       DEF Chan!Wait, Chan!Create, Chan!Unlink, Chan!OpenFails, Chan!Close, Chan!ReadFails,
           Chan!CallsRead, Chan!Calls
  <1>6. CASE Chan!Find(p) /\ "mq" \in there
    BY <1>4, <1>6 DEF Chan!Find, Chan!Calls
  <1>7. CASE Chan!Fork(p)
    <2>1. PICK c \in program.forked :
            /\ Chan!Calls(p, "fork", c) \/ Chan!Calls(p, "fork_or_exit", c)
            /\ chanstate' = [chanstate EXCEPT ![c] = "running"]
            /\ chanpc' = [chanpc EXCEPT ![p] = @ + 1]
      BY <1>7 DEF Chan!Fork
    <2>2. chanstate[p] = "running" /\ c \in Chan!Processes
      BY <2>1 DEF Chan!Calls, Common
    <2>3. \A q \in Chan!Processes : chanstate'[q] = "exited" => Stays(q)
      BY <2>1, <2>2 DEF Chan!TypeOK
    <2>4. QED
      BY <1>2, <2>3
  <1>8. CASE Chan!Open(p)
    <2>1. PICK ch, peers : Chan!OpenEnd(p, ch, peers) /\ chanstate[p] = "running"
      BY <1>8 DEF Chan!Open, Chan!Calls
    <2>2. \A q \in Chan!Processes : chanstate'[q] = "exited" => Stays(q)
      BY <2>1 DEF Chan!OpenEnd, Chan!TypeOK
    <2>3. QED
      BY <1>2, <2>2
  <1>9. CASE Chan!Write(p) \/ Chan!WriteFails(p) \/ Chan!Read(p) \/ Chan!ReadEnd(p)
    <2>1. chanstate[p] = "running" /\ chanstate' = chanstate
      BY <1>9 DEF Chan!Write, Chan!WriteFails, Chan!Read, Chan!ReadEnd, Chan!CallsRead,
                  Chan!CallsWrite, Chan!Calls, Chan!Written
    <2>2. \E d : chanpc' = [chanpc EXCEPT ![p] = d]
      BY <1>9 DEF Chan!Write, Chan!WriteFails, Chan!Read, Chan!ReadEnd, Chan!Written
    <2>3. \A q \in Chan!Processes : chanstate'[q] = "exited" => Stays(q)
      BY <2>1, <2>2, ReturnStays
    <2>4. QED
      BY <1>2, <2>3
  <1>10. QED
    BY <1>3, <1>5, <1>6, <1>7, <1>8, <1>9 DEF Regular

(* A channel that is gone is held by nobody and is not a queue.            *)
Gone(ch) == ch # "mq" /\ readers'[ch] = {} /\ writers'[ch] = {}

DroppedOnly(p) ==
  /\ Chan!Close(p) \/ Chan!Exit(p)
  /\ Dropped /\ \A ch \in Chan!Channels : content'[ch] # content[ch] => Gone(ch)

LEMMA ReadMoves ==
  ASSUME Chan!TypeOK, NEW p \in Chan!Processes, Chan!Read(p)
  PROVE  \E ch \in Chan!Channels : \E call \in Chan!ReadCalls :
           \E n \in Nat \ {0} :
             /\ n \in 1..Len(content[ch])
             /\ Chan!Calls(p, call, ch) /\ p \in readers[ch] /\ Took(p, ch, n)
             /\ n = IF call \in {"read_one", "take"} THEN 1 ELSE Len(content[ch])
             /\ chanpc' = IF call = "read_all" THEN chanpc ELSE [chanpc EXCEPT ![p] = @ + 1]
             /\ UNCHANGED <<program, chanstate, there, readers, writers, sent>>
  <1>1. PICK ch \in Chan!Channels :
          /\ Chan!CallsRead(p, ch) /\ p \in readers[ch] /\ content[ch] # <<>>
          /\ LET one == Chan!Calls(p, "read_one", ch) \/ Chan!Calls(p, "take", ch)
             IN  /\ taken' = [taken EXCEPT
                      ![p] = @ \o (IF one THEN <<Head(content[ch])>> ELSE content[ch])]
                 /\ content' = [content EXCEPT ![ch] = IF one THEN Tail(@) ELSE <<>>]
          /\ chanpc' = [chanpc EXCEPT ![p] = IF Chan!Calls(p, "read_all", ch) THEN @ ELSE @ + 1]
          /\ UNCHANGED <<program, chanstate, there, readers, writers, sent>>
    BY DEF Chan!Read, Chan!held
  <1>2. PICK call \in Chan!ReadCalls : Chan!Calls(p, call, ch)
    BY <1>1 DEF Chan!CallsRead
  <1>3. \A c \in Chan!ReadCalls : Chan!Calls(p, c, ch) <=> c = call
    BY <1>2 DEF Chan!Calls
  <1> DEFINE one == call \in {"read_one", "take"}
             n == IF one THEN 1 ELSE Len(content[ch])
  <1>4. one \in BOOLEAN /\ (one <=> Chan!Calls(p, "read_one", ch) \/ Chan!Calls(p, "take", ch))
    BY <1>3 DEF Chan!ReadCalls
  <1>5. Took(p, ch, n)
    <2>1. /\ taken' = [taken EXCEPT
                ![p] = @ \o (IF one THEN <<Head(content[ch])>> ELSE content[ch])]
          /\ content' = [content EXCEPT ![ch] = IF one THEN Tail(@) ELSE <<>>]
      <3>1. CASE one
        BY <1>1, <1>4, <3>1
      <3>2. CASE ~one
        BY <1>1, <1>4, <3>2
      <3>3. QED
        BY <3>1, <3>2
    <2> HIDE DEF one
    <2>2. QED
      BY <1>1, <1>4, <2>1, ReadTook
  <1>6. /\ n \in 1..Len(content[ch]) /\ n \in Nat \ {0}
        /\ n = IF call \in {"read_one", "take"} THEN 1 ELSE Len(content[ch])
    BY <1>1, MessageTypes
  <1>7. chanpc' = IF call = "read_all" THEN chanpc ELSE [chanpc EXCEPT ![p] = @ + 1]
    <2>1. CASE call = "read_all"
      BY <1>1, <1>2, <2>1 DEF Chan!TypeOK
    <2>2. CASE call # "read_all"
      BY <1>1, <1>3, <2>2 DEF Chan!ReadCalls
    <2>3. QED
      BY <2>1, <2>2
  <1> HIDE DEF n, one
  <1>8. QED
    BY <1>1, <1>2, <1>5, <1>6, <1>7

LEMMA DataStep ==
  ASSUME Chan!TypeOK, NEW p \in Chan!Processes, Regular(p)
  PROVE  \/ UNCHANGED <<content, sent, taken>>
         \/ DroppedOnly(p)
         \/ \E ch \in Chan!Channels : Chan!CallsWrite(p, ch) /\ Wrote(p, ch)
         \/ \E ch \in Chan!Channels : \E n \in 1..Len(content[ch]) :
              Chan!CallsRead(p, ch) /\ p \in readers[ch] /\ Took(p, ch, n)
         \/ \E ch \in Chan!Channels :
              Chan!ReadEnd(p) /\ Chan!Calls(p, "read_one", ch) /\ content[ch] = <<>>
  <1> USE DEF Chan!data, Chan!held
  <1>1. CASE \/ Chan!Fork(p) \/ Chan!Wait(p) \/ Chan!Create(p) \/ Chan!Unlink(p)
             \/ Chan!Open(p) \/ Chan!OpenFails(p) \/ Chan!ReadFails(p)
    BY <1>1 DEF Chan!Fork, Chan!Wait, Chan!Create, Chan!Unlink, Chan!Open, Chan!OpenFails,
                Chan!ReadFails
  <1>2. CASE Chan!Find(p) /\ "mq" \in there
    BY <1>2 DEF Chan!Find
  <1>3. CASE Chan!WriteFails(p)
    BY <1>3 DEF Chan!WriteFails, Chan!Written
  <1>4. CASE Chan!Close(p) \/ Chan!Exit(p)
    <2>1. /\ sent' = sent /\ taken' = taken
          /\ content' = [ch \in Chan!Channels |->
               IF ch # "mq" /\ readers'[ch] = {} /\ writers'[ch] = {}
               THEN <<>> ELSE content[ch]]
      BY <1>4 DEF Chan!Close, Chan!Exit, Chan!Leave, Chan!Drop
    <2>2. Dropped
      BY <2>1 DEF Dropped
    <2>3. \A ch \in Chan!Channels : content'[ch] # content[ch] => Gone(ch)
      BY <2>1 DEF Gone
    <2>4. QED
      BY <1>4, <2>2, <2>3 DEF DroppedOnly
  <1>5. CASE Chan!Write(p)
    BY <1>5 DEF Chan!Write, Chan!Written, Wrote
  <1>6. CASE Chan!Read(p)
    BY <1>6, ReadMoves DEF Chan!CallsRead
  <1>7. CASE Chan!ReadEnd(p)
    <2>1. PICK ch \in Chan!Channels :
            /\ content[ch] = <<>>
            /\ ~Chan!Calls(p, "read_one", ch) => taken' = taken
            /\ UNCHANGED <<content, sent>>
      BY <1>7 DEF Chan!ReadEnd
    <2>2. QED
      BY <1>7, <2>1
  <1>8. QED
    BY <1>1, <1>2, <1>3, <1>4, <1>5, <1>6, <1>7 DEF Regular

LEMMA AccountedStep ==
  ASSUME Chan!TypeOK, Chan!TypeOK', program' = program, Accounted,
         NEW p \in Chan!Processes, Regular(p), LateOnes \subseteq LateOnes',
         \A ch \in Chan!Channels : Chan!Calls(p, "read_one", ch) => content[ch] # <<>>,
         DroppedOnly(p) => \A ch \in Chan!Channels : Gone(ch) =>
           \A i \in DOMAIN content[ch] : content[ch][i][1] \in LateOnes'
  PROVE  Accounted'
  <1>1. CASE UNCHANGED <<content, sent, taken>>
    <2>1. Dropped /\ \A ch \in Chan!Channels : content'[ch] = content[ch]
      BY <1>1 DEF Dropped
    <2>2. QED
      BY <2>1, DroppedAccounted
  <1>2. CASE DroppedOnly(p)
    <2>1. Dropped /\ \A ch \in Chan!Channels : content'[ch] # content[ch] =>
            \A i \in DOMAIN content[ch] : content[ch][i][1] \in LateOnes'
      BY <1>2 DEF DroppedOnly
    <2>2. QED
      BY <2>1, DroppedAccounted
  <1>3. ASSUME NEW ch \in Chan!Channels, Chan!CallsWrite(p, ch), Wrote(p, ch)
        PROVE  Accounted'
    BY <1>3, WritesOut, WroteAccounted DEF Chan!TypeOK
  <1>4. ASSUME NEW ch \in Chan!Channels, NEW n \in 1..Len(content[ch]), Took(p, ch, n)
        PROVE  Accounted'
    <2>1. n \in 0..Len(content[ch])
      BY MessageTypes
    <2>2. QED
      BY <1>4, <2>1, TookAccounted
  <1>5. QED
    BY <1>1, <1>2, <1>3, <1>4, DataStep

-----------------------------------------------------------------------------
(* The queue: one message is sent, and the receiver takes one.             *)
QueueRight ==
  /\ sent[0] = 0 /\ sent[1] <= 1
  /\ chanpc[1] <= 2 => sent[1] = 0
  /\ chanpc[0] = 2 => 0 \in readers["mq"]
  /\ chanpc[0] >= 3 => taken[0] # <<>>

LEMMA QueueStep ==
  ASSUME Chan!TypeOK, program = Chan!Queue, program' = program, QueueRight,
         NEW p \in Chan!Processes, Regular(p)
  PROVE  QueueRight'
  <1> USE DEF Chan!held, Chan!data
  <1>1. \A call, x : Chan!Calls(p, call, x) => QueueCall(p, chanpc[p], call, x)
    BY QueueCalls DEF Chan!Calls
  <1>2. /\ Chan!Processes = {0, 1} /\ program.forked = {}
        /\ chanpc \in [{0, 1} -> Nat \ {0}] /\ sent \in [{0, 1} -> Nat]
        /\ readers \in [Chan!Channels -> SUBSET {0, 1}] /\ "mq" \in Chan!Channels
    BY ProgramCodes DEF Chan!TypeOK, Chan!Channels, Chan!Named
  <1>3. CASE Chan!Fork(p) \/ Chan!Wait(p)
    BY <1>2, <1>3 DEF Chan!Fork, Chan!Wait
  <1>4. CASE Chan!Open(p) \/ Chan!OpenFails(p)
    BY <1>1, <1>4 DEF Chan!Open, Chan!OpenFails, QueueCall
  <1>5. CASE Chan!Exit(p)
    <2>1. chanpc[0] = 2 => p # 0
      <3>1. chanpc[p] > Len(program.code[p])
        BY <1>5 DEF Chan!Exit
      <3>2. Len(program.code[0]) = 4
        BY ProgramCodes, QueueCode
      <3>3. ~(2 > 4)
        OBVIOUS
      <3>4. QED
        BY ONLY <3>1, <3>2, <3>3
    <2>2. QED
      BY <1>2, <1>5, <2>1 DEF Chan!Exit, Chan!Leave, QueueRight
  <1>6. CASE Chan!Create(p)
    <2>1. p = 1 /\ chanpc[p] = 1
      BY <1>1, <1>6 DEF Chan!Create, QueueCall
    <2>2. QED
      BY <1>2, <1>6, <2>1 DEF Chan!Create, Chan!Return, QueueRight
  <1>7. CASE Chan!Unlink(p)
    <2>1. p = 0 /\ chanpc[p] = 4
      BY <1>1, <1>7 DEF Chan!Unlink, QueueCall
    <2>2. QED
      BY <1>2, <1>7, <2>1 DEF Chan!Unlink, Chan!Return, QueueRight
  <1>8. CASE Chan!Find(p) /\ "mq" \in there
    <2>1. p = 0 /\ chanpc[p] = 1
      BY <1>1, <1>8 DEF Chan!Find, QueueCall
    <2>2. QED
      BY <1>2, <1>8, <2>1 DEF Chan!Find, Chan!Return, QueueRight
  <1>9. CASE Chan!Close(p)
    <2>1. chanpc[p] = 3
      BY <1>1, <1>9 DEF Chan!Close, QueueCall
    <2>2. Chan!Return(p) /\ UNCHANGED <<sent, taken>>
      BY <1>9 DEF Chan!Close
    <2>3. chanpc[0] = 2 => readers' = readers
      BY <1>1, <1>2, <1>9, <2>1 DEF Chan!Close, QueueCall
    <2>4. QED
      BY <1>2, <2>1, <2>2, <2>3 DEF Chan!Return, QueueRight
  <1>10. CASE Chan!Write(p) \/ Chan!WriteFails(p)
    <2>1. p = 1 /\ chanpc[p] = 2 /\ program.code[p][chanpc[p]][1] # "respond"
      BY <1>1, <1>10, QueueCode, ProgramCodes
         DEF Chan!Write, Chan!WriteFails, Chan!CallsWrite, QueueCall
    <2>2. /\ chanpc' = [chanpc EXCEPT ![p] = @ + 1] /\ UNCHANGED <<readers, taken>>
          /\ sent' = sent \/ sent' = [sent EXCEPT ![p] = @ + 1]
      BY <1>10, <2>1 DEF Chan!Write, Chan!WriteFails, Chan!Written
    <2>3. QED
      BY <1>2, <2>1, <2>2 DEF QueueRight
  <1>11. CASE Chan!Read(p)
    <2>1. PICK ch \in Chan!Channels, call \in Chan!ReadCalls, n \in Nat \ {0} :
            /\ Chan!Calls(p, call, ch) /\ Took(p, ch, n)
            /\ chanpc' = IF call = "read_all" THEN chanpc ELSE [chanpc EXCEPT ![p] = @ + 1]
            /\ sent' = sent
      BY <1>11, ReadMoves
    <2>2. p = 0 /\ chanpc[p] = 2 /\ call = "take"
      BY <1>1, <2>1 DEF Chan!ReadCalls, QueueCall
    <2>3. chanpc'[1] = chanpc[1] /\ chanpc'[0] # 2
      BY <1>2, <2>1, <2>2
    <2>4. taken'[0] # <<>>
      <3>1. n > 0 /\ Len(taken[0]) \in Nat /\ Len(taken'[0]) = Len(taken[0]) + n
        BY <1>2, <2>1, <2>2, MessageTypes DEF Took
      <3>2. QED
        BY <3>1
    <2>5. QED
      BY <2>1, <2>3, <2>4 DEF QueueRight
  <1>12. CASE Chan!ReadEnd(p) \/ Chan!ReadFails(p)
    BY <1>1, <1>12
       DEF Chan!ReadEnd, Chan!ReadFails, Chan!CallsRead, Chan!ReadCalls, QueueCall, QueueRight
  <1>13. QED
    BY <1>3, <1>4, <1>5, <1>6, <1>7, <1>8, <1>9, <1>10, <1>11, <1>12 DEF Regular

(* Who wrote what is in a channel.                                         *)
LEMMA SomeSender ==
  ASSUME Chan!TypeOK, Placed, NEW ch \in Chan!Channels, content[ch] # <<>>
  PROVE  \E p \in Chan!Processes : Out[p] = ch /\ sent[p] >= 1
  <1>1. 1 \in DOMAIN content[ch]
    <2>1. content[ch] \in Seq(Chan!Processes \X Nat) /\ content[ch] # <<>>
      BY MessageTypes
    <2>2. QED
      BY ONLY <2>1
  <1> DEFINE p == content[ch][1][1]
  <1>2. /\ content[ch][1][2] \in 1..sent[p] /\ Out[p] = ch
        /\ p \in Chan!Processes /\ sent[p] \in Nat
    BY <1>1, MessageTypes DEF Placed
  <1>3. QED
    BY <1>2

(* A read_all or a read takes all there is.                                *)
LEMMA TookAll ==
  ASSUME Chan!TypeOK, Chan!TypeOK', NEW p \in Chan!Processes, NEW ch \in Chan!Channels,
         Took(p, ch, Len(content[ch]))
  PROVE  content'[ch] = <<>>
  <1>1. content'[ch] \in Seq(Chan!Processes' \X Nat)
    BY DEF Chan!TypeOK
  <1>2. Len(content'[ch]) = 0
    BY MessageTypes DEF Took
  <1>3. QED
    BY ONLY <1>1, <1>2, EmptySeq

LEMMA QueueLosesNothing ==
  ASSUME Chan!TypeOK, program = Chan!Queue, Placed,
         NEW ch \in Chan!Channels, Gone(ch)
  PROVE  content[ch] = <<>>
  BY SomeSender, ProgramsDiffer DEF Gone, Out

-----------------------------------------------------------------------------
(* popen: sort has its end until it exits, and has seen all there is.      *)
PopenRight ==
  /\ chanpc[0] = 1 => 0 \in readers["fds"] /\ chanstate[1] = "absent"
  /\ chanpc[0] >= 2 /\ chanstate[1] # "exited" => 1 \in readers["fds"]
  /\ chanpc[1] >= 3 => content["fds"] = <<>> /\ writers["fds"] = {}
  /\ chanstate[1] = "absent" => chanpc[1] = 1

LEMMA PopenStep ==
  ASSUME Chan!TypeOK, Chan!TypeOK', program = Chan!Popen, program' = program, PopenRight,
         NEW p \in Chan!Processes, Regular(p)
  PROVE  PopenRight'
  <1> USE DEF Chan!held, Chan!data
  <1>1. \A call, x : Chan!Calls(p, call, x) =>
          PopenCall(p, chanpc[p], call, x) /\ chanstate[p] = "running"
    BY PopenCalls DEF Chan!Calls
  <1>2. /\ Chan!Processes = {0, 1} /\ program.forked = {1} /\ Messages \in Nat
        /\ chanpc \in [{0, 1} -> Nat \ {0}]
        /\ chanstate \in [{0, 1} -> {"absent", "running", "opening", "exited", "failed", "killed"}]
        /\ readers \in [Chan!Channels -> SUBSET {0, 1}]
        /\ writers \in [Chan!Channels -> SUBSET {0, 1}] /\ "fds" \in Chan!Channels
    BY ProgramCodes, ChannelAssumption DEF Chan!TypeOK, Chan!Channels
  <1>3. CASE Chan!Fork(p)
    <2>1. p = 0 /\ chanpc[p] = 1
      BY <1>1, <1>2, <1>3 DEF Chan!Fork, PopenCall
    <2>2. /\ chanpc' = [chanpc EXCEPT ![0] = 2] /\ chanstate'[1] = "running"
          /\ 1 \in readers'["fds"] /\ chanpc[1] = 1
      BY <1>2, <1>3, <2>1 DEF Chan!Fork, PopenRight
    <2>3. QED
      BY <1>2, <2>2 DEF PopenRight
  <1>4. CASE Chan!Wait(p)
    <2>1. p = 0 /\ chanpc[p] # 1
      BY <1>1, <1>2, <1>4 DEF Chan!Wait, PopenCall
    <2>2. QED
      BY <1>2, <1>4, <2>1 DEF Chan!Wait, Chan!Return, PopenRight
  <1>5. CASE Chan!Exit(p)
    <2>1. /\ chanstate' = [chanstate EXCEPT ![p] = "exited"] /\ chanpc' = chanpc
          /\ readers'["fds"] = readers["fds"] \ {p} /\ writers'["fds"] \subseteq writers["fds"]
          /\ content["fds"] = <<>> => content'["fds"] = <<>>
          /\ chanstate[p] = "running"
      BY <1>2, <1>5 DEF Chan!Exit, Chan!Leave, Chan!Drop
    <2>2. p = 0 => chanpc[0] # 1
      BY <1>5, ProgramCodes, PopenParentCode, ChannelAssumption DEF Chan!Exit
    <2>3. QED
      BY <1>2, <2>1, <2>2 DEF PopenRight
  <1>6. CASE Chan!Create(p) \/ Chan!Unlink(p) \/ Chan!Open(p) \/ Chan!OpenFails(p) \/ Chan!Find(p)
    BY <1>1, <1>6
       DEF Chan!Create, Chan!Unlink, Chan!Open, Chan!OpenFails, Chan!Find, PopenCall
  <1>7. CASE Chan!Close(p)
    <2>1. /\ chanpc' = [chanpc EXCEPT ![p] = @ + 1] /\ chanstate' = chanstate
          /\ chanstate[p] = "running"
          /\ writers'["fds"] \subseteq writers["fds"]
          /\ content["fds"] = <<>> => content'["fds"] = <<>>
      BY <1>1, <1>2, <1>7 DEF Chan!Close, Chan!Return, Chan!Drop
    <2>2. /\ p = 0 => chanpc[0] # 1
          /\ p = 1 => chanpc[1] = 1 /\ readers' = readers
          /\ 1 \in readers["fds"] => 1 \in readers'["fds"]
      BY <1>1, <1>2, <1>7 DEF Chan!Close, PopenCall
    <2>3. QED
      BY <1>2, <2>1, <2>2 DEF PopenRight
  <1>8. CASE Chan!Write(p) \/ Chan!WriteFails(p)
    <2>1. PICK call \in {"write", "respond", "send"}, ch \in Chan!Channels :
            Chan!Calls(p, call, ch) /\ (Chan!Write(p) => p \in writers[ch])
      <3>1. CASE Chan!Write(p)
        BY <3>1 DEF Chan!Write, Chan!CallsWrite
      <3>2. CASE Chan!WriteFails(p) /\ ~Chan!Write(p)
        BY <3>2 DEF Chan!WriteFails, Chan!CallsWrite
      <3>3. QED
        BY <1>8, <3>1, <3>2
    <2>2. p = 0 /\ chanpc[0] # 1 /\ call = "write" /\ ch = "fds"
      BY <1>1, <2>1 DEF PopenCall
    <2>3. chanpc' = [chanpc EXCEPT ![0] = @ + 1] /\ UNCHANGED <<chanstate, readers, writers>>
      BY <1>8, <2>1, <2>2 DEF Chan!Write, Chan!WriteFails, Chan!Written, Chan!Calls
    <2>4. chanpc[1] >= 3 => content' = content
      BY <1>8, <2>1, <2>2 DEF Chan!WriteFails, PopenRight
    <2>5. QED
      BY <1>2, <2>2, <2>3, <2>4 DEF PopenRight
  <1>9. CASE Chan!Read(p)
    <2>1. PICK ch \in Chan!Channels, call \in Chan!ReadCalls :
            /\ Chan!Calls(p, call, ch)
            /\ chanpc' = IF call = "read_all" THEN chanpc ELSE [chanpc EXCEPT ![p] = @ + 1]
            /\ UNCHANGED <<chanstate, readers, writers>>
      BY <1>9, ReadMoves
    <2>2. p = 1 /\ call = "read_all" /\ chanpc[1] = 2
      BY <1>1, <2>1 DEF PopenCall, Chan!ReadCalls
    <2>3. QED
      BY <2>1, <2>2 DEF PopenRight
  <1>10. CASE Chan!ReadEnd(p)
    <2>1. PICK ch \in Chan!Channels, call \in Chan!ReadCalls :
            /\ Chan!Calls(p, call, ch) /\ content[ch] = <<>> /\ writers[ch] = {}
            /\ UNCHANGED <<chanstate, readers, writers, content>>
      BY <1>10 DEF Chan!ReadEnd, Chan!CallsRead
    <2>2. p = 1 /\ ch = "fds" /\ chanstate[1] = "running"
      BY <1>1, <2>1 DEF PopenCall, Chan!ReadCalls
    <2>3. chanpc'[0] = chanpc[0]
      BY <1>2, <1>10, <2>2 DEF Chan!ReadEnd
    <2>4. QED
      BY <2>1, <2>2, <2>3 DEF PopenRight
  <1>11. ~Chan!ReadFails(p)
    <2>1. ASSUME Chan!ReadFails(p) PROVE p = 1 /\ 1 \notin readers["fds"]
      BY <1>1, <2>1 DEF Chan!ReadFails, Chan!CallsRead, Chan!ReadCalls, PopenCall
    <2>2. ASSUME Chan!ReadFails(p) PROVE chanstate[1] = "running"
      BY <1>1, <2>1, <2>2 DEF Chan!ReadFails, Chan!CallsRead
    <2>3. chanpc[0] \in Nat \ {0}
      BY <1>2
    <2>4. QED
      BY <2>1, <2>2, <2>3 DEF PopenRight
  <1>12. QED
    BY <1>3, <1>4, <1>5, <1>6, <1>7, <1>8, <1>9, <1>10, <1>11 DEF Regular

LEMMA PopenLosesNothing ==
  ASSUME Chan!TypeOK, program = Chan!Popen, PopenRight, Placed, ExitedAtEnd,
         NEW p \in Chan!Processes, Chan!Close(p) \/ Chan!Exit(p),
         NEW ch \in Chan!Channels, Gone(ch)
  PROVE  content[ch] = <<>>
  <1> SUFFICES ASSUME content[ch] # <<>> PROVE FALSE
    OBVIOUS
  <1>1. ch = "fds"
    BY SomeSender, ProgramsDiffer DEF Out
  <1>2. /\ Chan!Processes = {0, 1} /\ chanpc \in [{0, 1} -> Nat \ {0}]
        /\ readers \in [Chan!Channels -> SUBSET {0, 1}]
    BY ProgramCodes DEF Chan!TypeOK
  <1>3. Len(program.code[1]) = 2 /\ Len(program.code[0]) = Messages + 4 /\ Messages \in Nat
    BY ProgramCodes, SortCode, PopenParentCode, ChannelAssumption
  <1>4. chanpc[1] <= 2
    BY <1>1, <1>2 DEF PopenRight
  <1>5. chanstate[1] # "exited"
    <2>1. chanstate[1] = "exited" => chanpc[1] > Len(program.code[1])
      BY <1>2 DEF ExitedAtEnd
    <2>2. chanpc[1] \in Nat
      BY <1>2
    <2>3. QED
      BY ONLY <1>3, <1>4, <2>1, <2>2
  <1>6. chanpc[0] # 1 \/ p # 0
    <2>1. ASSUME p = 0, chanpc[0] = 1 PROVE FALSE
      <3>1. \A call, x : Chan!Calls(p, call, x) => call = "fork_or_exit"
        BY <2>1, PopenCalls, ChannelAssumption DEF Chan!Calls, PopenCall
      <3>2. QED
        BY <1>3, <2>1, <3>1 DEF Chan!Close, Chan!Exit
    <2>2. QED
      BY <2>1
  <1>7. chanstate[p] = "running"
    BY DEF Chan!Close, Chan!Exit, Chan!Calls
  <1>8. 1 \in readers["fds"]
    BY <1>2, <1>5, <1>6, <1>7 DEF PopenRight
  <1>9. 1 \in readers'["fds"]
    <2>1. CASE Chan!Exit(p)
      <3>1. chanpc[p] > Len(program.code[p])
        BY <2>1 DEF Chan!Exit
      <3>2. p # 1
        <4>1. chanpc[1] \in Nat /\ ~(chanpc[1] > Len(program.code[1]))
          BY <1>2, <1>3, <1>4
        <4>2. QED
          BY ONLY <3>1, <4>1
      <3>3. readers'["fds"] = readers["fds"] \ {p}
        BY <1>1, <2>1 DEF Chan!Exit, Chan!Leave
      <3>4. QED
        BY <1>8, <3>2, <3>3
    <2>2. CASE Chan!Close(p)
      <3>1. ASSUME NEW x, Chan!Calls(p, "close_r", x) PROVE p # 1
        BY <3>1, PopenCalls DEF Chan!Calls, PopenCall
      <3>2. QED
        BY <1>1, <1>2, <1>8, <2>2, <3>1 DEF Chan!Close
    <2>3. QED
      BY <2>1, <2>2
  <1>10. QED
    BY <1>1, <1>9 DEF Gone

-----------------------------------------------------------------------------
(* pipe.c: the parent has the end of fds that it reads from, and then has  *)
(* seen its end; so has the child of fds2, from which it reads once.       *)
PipeRight ==
  /\ chanpc[0] <= 4 => 0 \in readers["fds"]
  /\ chanpc[0] = 1 => 0 \in readers["fds2"] /\ chanstate[1] = "absent"
  /\ chanpc[0] >= 4 => content["fds"] = <<>> /\ writers["fds"] = {}
  /\ chanpc[0] >= 2 /\ chanpc[1] <= Messages + 5 => 1 \in readers["fds2"]
  /\ chanpc[1] >= Messages + 5 =>
       content["fds2"] = <<>> /\ (writers["fds2"] = {} \/ chanpc[0] >= 7)
  /\ chanpc[0] <= 6 => sent[0] = 0
  /\ chanstate[1] = "absent" => chanpc[1] = 1

LEMMA PipeStep ==
  ASSUME Chan!TypeOK, Chan!TypeOK', program = Chan!Pipe, program' = program, PipeRight, Placed,
         NEW p \in Chan!Processes, Regular(p)
  PROVE  PipeRight'
  <1> USE DEF Chan!held, Chan!data
  <1>1. \A call, x : Chan!Calls(p, call, x) =>
          PipeCall(p, chanpc[p], call, x) /\ chanstate[p] = "running"
    BY PipeCalls DEF Chan!Calls
  <1>2. /\ Chan!Processes = {0, 1} /\ program.forked = {1} /\ Messages \in Nat
        /\ chanpc \in [{0, 1} -> Nat \ {0}]
        /\ chanstate \in [{0, 1} -> {"absent", "running", "opening", "exited", "failed", "killed"}]
        /\ readers \in [Chan!Channels -> SUBSET {0, 1}]
        /\ writers \in [Chan!Channels -> SUBSET {0, 1}]
        /\ sent \in [{0, 1} -> Nat]
        /\ "fds" \in Chan!Channels /\ "fds2" \in Chan!Channels
    BY ProgramCodes, ChannelAssumption DEF Chan!TypeOK, Chan!Channels
  <1>3. CASE Chan!Fork(p)
    <2>1. p = 0 /\ chanpc[0] = 1
      BY <1>1, <1>2, <1>3 DEF Chan!Fork, PipeCall
    <2>2. /\ chanpc' = [chanpc EXCEPT ![0] = 2] /\ chanstate'[1] = "running"
          /\ 1 \in readers'["fds2"] /\ 0 \in readers'["fds"] /\ chanpc[1] = 1 /\ sent' = sent
      BY <1>2, <1>3, <2>1 DEF Chan!Fork, PipeRight
    <2>3. QED
      BY <1>2, <2>1, <2>2 DEF PipeRight
  <1>4. CASE Chan!Wait(p)
    <2>1. p = 0 /\ chanpc[0] = 8
      BY <1>1, <1>2, <1>4 DEF Chan!Wait, PipeCall
    <2>2. QED
      BY <1>2, <1>4, <2>1 DEF Chan!Wait, Chan!Return, PipeRight
  <1>5. CASE Chan!Exit(p)
    <2>1. /\ chanstate' = [chanstate EXCEPT ![p] = "exited"] /\ chanpc' = chanpc /\ sent' = sent
          /\ chanstate[p] = "running"
      BY <1>2, <1>5 DEF Chan!Exit, Chan!Leave
    <2>2. \A ch \in {"fds", "fds2"} :
            /\ readers'[ch] = readers[ch] \ {p} /\ writers'[ch] \subseteq writers[ch]
            /\ content[ch] = <<>> => content'[ch] = <<>>
      BY <1>2, <1>5 DEF Chan!Exit, Chan!Leave, Chan!Drop
    <2>3. /\ p = 0 => chanpc[0] > 8
          /\ p = 1 => chanpc[1] > Messages + 5
      BY <1>5, ProgramCodes, PipeParentCode, PipeChildCode DEF Chan!Exit
    <2>4. \A q \in {0, 1} : chanpc[q] \in Nat
      BY <1>2
    <2>5. QED
      BY <1>2, <2>1, <2>2, <2>3, <2>4 DEF PipeRight
  <1>6. CASE Chan!Create(p) \/ Chan!Unlink(p) \/ Chan!Open(p) \/ Chan!OpenFails(p) \/ Chan!Find(p)
    BY <1>1, <1>6
       DEF Chan!Create, Chan!Unlink, Chan!Open, Chan!OpenFails, Chan!Find, PipeCall
  <1>7. CASE Chan!Close(p)
    <2>1. /\ chanpc' = [chanpc EXCEPT ![p] = @ + 1] /\ chanstate' = chanstate /\ sent' = sent
          /\ chanstate[p] = "running"
      BY <1>1, <1>7 DEF Chan!Close, Chan!Return
    <2>2. \A ch \in {"fds", "fds2"} :
            /\ writers'[ch] \subseteq writers[ch]
            /\ content[ch] = <<>> => content'[ch] = <<>>
      BY <1>2, <1>7 DEF Chan!Close, Chan!Drop
    <2>3. PICK call \in {"close_r", "close_w"}, ch \in Chan!Channels :
            /\ Chan!Calls(p, call, ch)
            /\ call = "close_w" => readers' = readers
            /\ call = "close_r" => readers' = [readers EXCEPT ![ch] = @ \ {p}]
      BY <1>7 DEF Chan!Close
    <2>4. PipeCall(p, chanpc[p], call, ch)
      BY <1>1, <2>3
    <2>5. CASE p = 0
      <3>1. chanpc[0] \in {2, 4, 5, 7} /\ chanpc'[0] = chanpc[0] + 1 /\ chanpc'[1] = chanpc[1]
        BY <1>2, <2>1, <2>3, <2>4, <2>5 DEF PipeCall
      <3>2. /\ chanpc[0] # 4 => readers'["fds"] = readers["fds"]
            /\ readers["fds2"] \ {0} \subseteq readers'["fds2"]
        BY <1>2, <2>3, <2>4, <2>5 DEF PipeCall
      <3>3. QED
        BY <2>1, <2>2, <3>1, <3>2 DEF PipeRight
    <2>6. CASE p = 1
      <3>1. /\ chanpc'[1] = chanpc[1] + 1 /\ chanpc'[0] = chanpc[0]
            /\ chanpc[1] \in Nat /\ chanpc[0] \in Nat
        BY <1>2, <2>1, <2>6
      <3>2. /\ readers["fds"] \ {1} \subseteq readers'["fds"]
            /\ chanpc[1] # Messages + 5 => readers'["fds2"] = readers["fds2"]
        BY <1>2, <2>3, <2>4, <2>6 DEF PipeCall
      <3>3. chanpc[1] # Messages + 4
        BY <1>2, <2>3, <2>4, <2>6 DEF PipeCall
      <3>4. QED
        BY <1>2, <2>1, <2>2, <2>6, <3>1, <3>2, <3>3 DEF PipeRight
    <2>7. QED
      BY <1>2, <2>5, <2>6
  <1>8. CASE Chan!Write(p) \/ Chan!WriteFails(p)
    <2>1. PICK call \in {"write", "respond", "send"}, ch \in Chan!Channels :
            /\ Chan!Calls(p, call, ch)
            /\ \/ UNCHANGED <<content, sent>>
               \/ /\ p \in writers[ch] /\ sent' = [sent EXCEPT ![p] = @ + 1]
                  /\ \A c \in Chan!Channels : c # ch => content'[c] = content[c]
      <3>1. CASE Chan!Write(p)
        BY <3>1 DEF Chan!Write, Chan!CallsWrite, Chan!TypeOK
      <3>2. CASE Chan!WriteFails(p)
        BY <3>2 DEF Chan!WriteFails, Chan!CallsWrite
      <3>3. QED
        BY <1>8, <3>1, <3>2
    <2>2. call = "write" /\ PipeCall(p, chanpc[p], call, ch)
      BY <1>1, <2>1 DEF PipeCall
    <2>3. chanpc' = [chanpc EXCEPT ![p] = @ + 1] /\ UNCHANGED <<chanstate, readers, writers>>
      BY <1>8, <2>1, <2>2 DEF Chan!Write, Chan!WriteFails, Chan!Written, Chan!Calls
    <2>4. CASE p = 0
      <3>1. chanpc[0] = 6 /\ ch = "fds2" /\ chanpc'[0] = 7 /\ chanpc'[1] = chanpc[1]
        BY <1>2, <2>2, <2>3, <2>4 DEF PipeCall
      <3>2. chanpc[1] >= Messages + 5 => content' = content
        BY <2>1, <2>4, <3>1 DEF PipeRight
      <3>3. content'["fds"] = content["fds"]
        BY <1>2, <2>1, <3>1
      <3>4. QED
        BY <2>3, <3>1, <3>2, <3>3 DEF PipeRight
    <2>5. CASE p = 1
      <3>1. /\ chanpc[1] \in 2..(Messages + 1) /\ ch = "fds"
            /\ chanpc'[1] = chanpc[1] + 1 /\ chanpc'[0] = chanpc[0] /\ sent'[0] = sent[0]
        BY <1>2, <2>1, <2>2, <2>3, <2>5 DEF PipeCall
      <3>2. chanpc[0] >= 4 => content' = content
        BY <2>1, <3>1 DEF PipeRight
      <3>3. chanpc'[1] \in Nat /\ chanpc'[1] <= Messages + 2
        BY <1>2, <3>1
      <3>4. chanstate[1] = "running"
        BY <1>1, <2>1, <2>5
      <3>5. QED
        BY <1>2, <2>3, <3>1, <3>2, <3>3, <3>4 DEF PipeRight
    <2>6. QED
      BY <1>2, <2>4, <2>5
  <1>9. CASE Chan!Read(p)
    <2>1. PICK ch \in Chan!Channels, call \in Chan!ReadCalls, n \in Nat \ {0} :
            /\ n \in 1..Len(content[ch])
            /\ Chan!Calls(p, call, ch) /\ Took(p, ch, n)
            /\ n = IF call \in {"read_one", "take"} THEN 1 ELSE Len(content[ch])
            /\ chanpc' = IF call = "read_all" THEN chanpc ELSE [chanpc EXCEPT ![p] = @ + 1]
            /\ UNCHANGED <<chanstate, readers, writers, sent>>
      BY <1>9, ReadMoves
    <2>2. /\ PipeCall(p, chanpc[p], call, ch) /\ call \in {"read", "read_all"}
          /\ chanstate[p] = "running"
      BY <1>1, <2>1 DEF PipeCall, Chan!ReadCalls
    <2>3. content'[ch] = <<>> /\ content[ch] # <<>>
      <3>1. Took(p, ch, Len(content[ch])) /\ Len(content[ch]) # 0
        BY <2>1, <2>2
      <3>2. QED
        BY <3>1, TookAll
    <2>4. \A c \in Chan!Channels : c # ch => content'[c] = content[c]
      BY <2>1 DEF Took
    <2>5. CASE p = 0
      <3>1. chanpc[0] = 3 /\ ch = "fds" /\ chanpc' = chanpc
        BY <2>1, <2>2, <2>5 DEF PipeCall
      <3>2. content'["fds2"] = content["fds2"]
        BY <1>2, <2>4, <3>1
      <3>3. QED
        BY <2>1, <3>1, <3>2 DEF PipeRight
    <2>6. CASE p = 1
      <3>1. /\ chanpc[1] = Messages + 4 /\ ch = "fds2"
            /\ chanpc'[1] = Messages + 5 /\ chanpc'[0] = chanpc[0]
        BY <1>2, <2>1, <2>2, <2>6 DEF PipeCall
      <3>2. \E q \in Chan!Processes : Out[q] = "fds2" /\ sent[q] >= 1
        BY <2>3, <3>1, SomeSender
      <3>3. sent[0] >= 1
        <4>1. Out[1] # "fds2"
          BY <1>2 DEF Out
        <4>2. QED
          BY <1>2, <3>2, <4>1
      <3>4. chanpc[0] \in Nat /\ chanpc[0] >= 7
        BY <1>2, <3>3 DEF PipeRight
      <3>5. content'["fds"] = content["fds"]
        BY <1>2, <2>4, <3>1
      <3>6. QED
        BY <1>2, <2>1, <2>2, <2>3, <2>6, <3>1, <3>4, <3>5 DEF PipeRight
    <2>7. QED
      BY <1>2, <2>5, <2>6
  <1>10. CASE Chan!ReadEnd(p)
    <2>1. PICK ch \in Chan!Channels, call \in Chan!ReadCalls :
            /\ Chan!Calls(p, call, ch) /\ content[ch] = <<>> /\ writers[ch] = {}
            /\ chanpc' = [chanpc EXCEPT
                            ![p] = IF Chan!Calls(p, "receive", ch) THEN @ + 2 ELSE @ + 1]
            /\ UNCHANGED <<chanstate, readers, writers, content, sent>>
      BY <1>10 DEF Chan!ReadEnd, Chan!CallsRead
    <2>2. /\ PipeCall(p, chanpc[p], call, ch) /\ call \in {"read", "read_all"}
          /\ ~Chan!Calls(p, "receive", ch)
          /\ chanstate[p] = "running"
      BY <1>1, <2>1 DEF PipeCall, Chan!ReadCalls
    <2>3. CASE p = 0
      <3>1. chanpc[0] = 3 /\ ch = "fds" /\ chanpc'[0] = 4 /\ chanpc'[1] = chanpc[1]
        BY <1>2, <2>1, <2>2, <2>3 DEF PipeCall
      <3>2. QED
        BY <2>1, <3>1 DEF PipeRight
    <2>4. CASE p = 1
      <3>1. /\ chanpc[1] = Messages + 4 /\ ch = "fds2"
            /\ chanpc'[1] = Messages + 5 /\ chanpc'[0] = chanpc[0]
        BY <1>2, <2>1, <2>2, <2>4 DEF PipeCall
      <3>2. QED
        BY <1>2, <2>1, <2>2, <2>4, <3>1 DEF PipeRight
    <2>5. QED
      BY <1>2, <2>3, <2>4
  <1>11. ~Chan!ReadFails(p)
    <2>1. SUFFICES ASSUME Chan!ReadFails(p) PROVE FALSE
      OBVIOUS
    <2>2. PICK call \in Chan!ReadCalls, ch \in Chan!Channels :
            Chan!Calls(p, call, ch) /\ p \notin readers[ch]
      BY <2>1 DEF Chan!ReadFails, Chan!CallsRead
    <2>3. PipeCall(p, chanpc[p], call, ch) /\ chanstate[p] = "running"
      BY <1>1, <2>2
    <2>4. CASE p = 0
      <3>1. chanpc[0] = 3 /\ ch = "fds"
        BY <2>2, <2>3, <2>4 DEF PipeCall, Chan!ReadCalls
      <3>2. QED
        BY <2>2, <2>4, <3>1 DEF PipeRight
    <2>5. CASE p = 1
      <3>1. chanpc[1] = Messages + 4 /\ ch = "fds2"
        BY <2>2, <2>3, <2>5 DEF PipeCall, Chan!ReadCalls
      <3>2. chanpc[0] \in Nat \ {0} /\ chanpc[0] # 1
        BY <1>2, <2>3, <2>5 DEF PipeRight
      <3>3. QED
        BY <1>2, <2>2, <2>5, <3>1, <3>2 DEF PipeRight
    <2>6. QED
      BY <1>2, <2>4, <2>5
  <1>12. QED
    BY <1>3, <1>4, <1>5, <1>6, <1>7, <1>8, <1>9, <1>10, <1>11 DEF Regular

LEMMA PipeLosesNothing ==
  ASSUME Chan!TypeOK, program = Chan!Pipe, PipeRight, Placed,
         NEW p \in Chan!Processes, Chan!Close(p) \/ Chan!Exit(p),
         NEW ch \in Chan!Channels, Gone(ch)
  PROVE  content[ch] = <<>>
  <1> SUFFICES ASSUME content[ch] # <<>> PROVE FALSE
    OBVIOUS
  <1>1. PICK q \in Chan!Processes : Out[q] = ch /\ sent[q] >= 1
    BY SomeSender
  <1>2. /\ Chan!Processes = {0, 1} /\ chanpc[0] \in Nat /\ chanpc[1] \in Nat
        /\ Messages \in Nat
        /\ "fds" \in Chan!Channels /\ "fds2" \in Chan!Channels
        /\ Len(program.code[0]) = 8 /\ Len(program.code[1]) = Messages + 5
    BY ProgramCodes, PipeParentCode, PipeChildCode, ChannelAssumption
       DEF Chan!TypeOK, Chan!Channels
  <1>3. ASSUME NEW x, Chan!Calls(p, "close_r", x)
        PROVE  /\ p = 0 /\ x = "fds" => chanpc[0] = 4
               /\ p = 1 /\ x = "fds2" => chanpc[1] = Messages + 5
    BY <1>3, PipeCalls DEF Chan!Calls, PipeCall
  <1>4. ASSUME NEW r \in {0, 1}, NEW c \in Chan!Channels, r \in readers[c],
               chanpc[r] <= Len(program.code[r]),
               p = r => ~Chan!Calls(p, "close_r", c)
        PROVE  r \in readers'[c]
    <2>1. CASE Chan!Exit(p)
      <3>1. chanpc[p] > Len(program.code[p])
        BY <2>1 DEF Chan!Exit
      <3>2. chanpc[r] \in Nat /\ Len(program.code[r]) \in Nat
        BY <1>2
      <3>3. ~(chanpc[r] > Len(program.code[r]))
        BY ONLY <1>4, <3>2
      <3>4. p # r
        BY <3>1, <3>3
      <3>5. readers'[c] = readers[c] \ {p}
        BY <2>1 DEF Chan!Exit, Chan!Leave
      <3>6. QED
        BY <1>4, <3>4, <3>5
    <2>2. CASE Chan!Close(p)
      BY <1>4, <2>2 DEF Chan!Close, Chan!TypeOK
    <2>3. QED
      BY <2>1, <2>2
  <1>5. CASE ch = "fds"
    <2>1. chanpc[0] <= 3 /\ 0 \in readers["fds"]
      BY <1>2, <1>5 DEF PipeRight
    <2>2. p = 0 => ~Chan!Calls(p, "close_r", "fds")
      BY <1>3, <2>1
    <2>3. chanpc[0] <= Len(program.code[0])
      BY ONLY <1>2, <2>1
    <2>4. 0 \in readers'["fds"]
      BY <1>2, <1>4, <2>1, <2>2, <2>3
    <2>5. QED
      BY <1>5, <2>4 DEF Gone
  <1>6. CASE ch = "fds2"
    <2>1. q = 0
      BY <1>1, <1>2, <1>6, ProgramsDiffer DEF Out
    <2>2. chanpc[0] >= 7 /\ chanpc[1] <= Messages + 4
      BY <1>1, <1>2, <1>6, <2>1 DEF PipeRight
    <2>3. 1 \in readers["fds2"]
      BY <1>2, <2>2 DEF PipeRight
    <2>4. p = 1 => ~Chan!Calls(p, "close_r", "fds2")
      BY <1>2, <1>3, <2>2
    <2>5. chanpc[1] <= Len(program.code[1])
      BY ONLY <1>2, <2>2
    <2>6. 1 \in readers'["fds2"]
      BY <1>2, <1>4, <2>3, <2>4, <2>5
    <2>7. QED
      BY <1>6, <2>6 DEF Gone
  <1>7. QED
    BY <1>1, <1>5, <1>6, ProgramsDiffer DEF Out

-----------------------------------------------------------------------------
(* Homework1: a part is written by each child, and the parent reads when   *)
(* all have been, as often as there are children.                          *)
Wrote1 == {c \in 1..Children : sent[c] = 1}

ChildRight(c) ==
  /\ taken[c] = <<>>
  /\ sent[c] = IF chanpc[c] <= 2 THEN 0 ELSE 1
  /\ chanpc[c] <= 2 /\ chanstate[c] # "absent" => c \in writers["fds"]
  /\ chanpc[0] >= Children + 2 => chanstate[c] = "exited"
  /\ chanstate[c] = "absent" => chanpc[c] = 1

SumsRight ==
  /\ chanpc[0] # 1 => Children # 0
  /\ chanpc[0] <= 2 * Children + 3 => 0 \in readers["fds"]
  /\ chanpc[0] <= Children + 2 => 0 \in writers["fds"]
  /\ sent[0] = 0
  /\ chanpc[0] <= Children + 3 => Len(taken[0]) = 0
  /\ chanpc[0] \in (Children + 3)..(2 * Children + 3) =>
       Len(taken[0]) = chanpc[0] - (Children + 3)
  /\ chanpc[0] <= 2 * Children + 3 =>
       Len(taken[0]) + Len(content["fds"]) = Cardinality(Wrote1)
  /\ chanpc[0] >= 2 * Children + 3 => content["fds"] = <<>>
  /\ \A c \in 1..Children : ChildRight(c)

LEMMA SumsShape ==
  ASSUME Chan!TypeOK, program = Chan!Sums
  PROVE  /\ Chan!Processes = 0..Children /\ program.forked = 1..Children /\ Children \in Nat
         /\ 0 \in Chan!Processes /\ \A c \in 1..Children : c \in Chan!Processes /\ c # 0
         /\ \A p \in Chan!Processes : p # 0 => p \in 1..Children
         /\ chanpc \in [Chan!Processes -> Nat \ {0}] /\ sent \in [Chan!Processes -> Nat]
         /\ \A q \in Chan!Processes : chanpc[q] \in Nat \ {0} /\ sent[q] \in Nat
         /\ chanstate \in [Chan!Processes ->
              {"absent", "running", "opening", "exited", "failed", "killed"}]
         /\ readers \in [Chan!Channels -> SUBSET Chan!Processes]
         /\ writers \in [Chan!Channels -> SUBSET Chan!Processes] /\ "fds" \in Chan!Channels
         /\ Len(program.code[0]) = 2 * Children + 3
         /\ \A c \in 1..Children : Len(program.code[c]) = 3
  <1>1. Chan!Processes = 0..Children /\ program.forked = 1..Children /\ Children \in Nat
    BY ProgramCodes, ChannelAssumption
  <1>2. /\ Len(program.code[0]) = 2 * Children + 3
        /\ \A c \in 1..Children : Len(program.code[c]) = 3
    BY ProgramCodes, SumParentCode, SumChildCode
  <1>3. /\ chanpc \in [Chan!Processes -> Nat \ {0}] /\ sent \in [Chan!Processes -> Nat]
        /\ chanstate \in [Chan!Processes ->
             {"absent", "running", "opening", "exited", "failed", "killed"}]
        /\ readers \in [Chan!Channels -> SUBSET Chan!Processes]
        /\ writers \in [Chan!Channels -> SUBSET Chan!Processes] /\ "fds" \in Chan!Channels
    BY DEF Chan!TypeOK, Chan!Channels
  <1>4. \A q \in Chan!Processes : chanpc[q] \in Nat \ {0} /\ sent[q] \in Nat
    BY <1>3
  <1>5. /\ 0 \in Chan!Processes /\ \A c \in 1..Children : c \in Chan!Processes /\ c # 0
        /\ \A p \in Chan!Processes : p # 0 => p \in 1..Children
    BY <1>1
  <1>6. QED
    BY <1>1, <1>2, <1>3, <1>4, <1>5

(* When the parent has waited for its children, all have written.          *)
LEMMA AllWrote ==
  ASSUME Chan!TypeOK, program = Chan!Sums, ExitedAtEnd, chanpc[0] >= Children + 2,
         \A c \in 1..Children : ChildRight(c)
  PROVE  Cardinality(Wrote1) = Children
  <1>1. ASSUME NEW c \in 1..Children PROVE sent[c] = 1
    <2>1. chanstate[c] = "exited" /\ c \in Chan!Processes
      BY SumsShape DEF ChildRight
    <2>2. chanpc[c] > 3 /\ chanpc[c] \in Nat
      BY <2>1, SumsShape DEF ExitedAtEnd
    <2>3. QED
      BY <2>2 DEF ChildRight
  <1>2. Wrote1 = 1..Children
    BY <1>1 DEF Wrote1
  <1>3. QED
    BY <1>2, FS_Interval, ChannelAssumption

(* So there is one part for each read of the parent.                       *)
LEMMA PartForEachRead ==
  ASSUME Chan!TypeOK, program = Chan!Sums, ExitedAtEnd, SumsRight,
         NEW ch \in Chan!Channels, NEW p \in Chan!Processes, Chan!Calls(p, "read_one", ch)
  PROVE  /\ p = 0 /\ ch = "fds" /\ chanpc[0] \in (Children + 3)..(2 * Children + 2)
         /\ content["fds"] # <<>>
  <1>1. p = 0 /\ ch = "fds" /\ chanpc[0] \in (Children + 3)..(2 * Children + 2)
    BY SumsCalls DEF Chan!Calls, SumsCall
  <1>2. Cardinality(Wrote1) = Children
    BY <1>1, AllWrote, ChannelAssumption DEF SumsRight
  <1>3. Len(taken[0]) + Len(content["fds"]) = Children
    <2>1. chanpc[0] <= 2 * Children + 3
      BY <1>1, ChannelAssumption
    <2>2. QED
      BY <1>2, <2>1 DEF SumsRight
  <1>4. Len(taken[0]) = chanpc[0] - (Children + 3)
    BY <1>1, ChannelAssumption DEF SumsRight
  <1>5. content["fds"] # <<>>
    <2>1. Len(content["fds"]) = 0 => FALSE
      BY <1>1, <1>3, <1>4, ChannelAssumption
    <2>2. QED
      BY <2>1
  <1>6. QED
    BY <1>1, <1>5

SumsCounts ==
  /\ sent[0] = 0
  /\ chanpc[0] <= Children + 3 => Len(taken[0]) = 0
  /\ chanpc[0] \in (Children + 3)..(2 * Children + 3) =>
       Len(taken[0]) = chanpc[0] - (Children + 3)
  /\ chanpc[0] <= 2 * Children + 3 =>
       Len(taken[0]) + Len(content["fds"]) = Cardinality(Wrote1)
  /\ chanpc[0] >= 2 * Children + 3 => content["fds"] = <<>>

(* A step that leaves the messages alone, or drops them when the parent    *)
(* has read all.                                                           *)
LEMMA SumsCountsKept ==
  ASSUME Chan!TypeOK, program = Chan!Sums, SumsRight,
         sent' = sent, taken' = taken,
         content'["fds"] # content["fds"] =>
           content'["fds"] = <<>> /\ chanpc[0] >= 2 * Children + 3,
         chanpc'[0] # chanpc[0] => Children # 0,
         chanpc'[0] \in Nat, chanpc'[0] >= chanpc[0],
         \/ chanpc'[0] = chanpc[0]
         \/ chanpc[0] <= Children + 2 /\ chanpc'[0] = chanpc[0] + 1
         \/ chanpc[0] = 2 * Children + 3
  PROVE  SumsCounts'
  <1>1. Wrote1' = Wrote1
    BY DEF Wrote1
  <1>2. Children \in Nat /\ chanpc[0] \in Nat \ {0}
    BY SumsShape
  <1>3. chanpc[0] <= Children + 3 => Len(taken[0]) = 0
    BY DEF SumsRight
  <1>4. /\ chanpc'[0] <= Children + 3 => Len(taken[0]) = 0
        /\ chanpc'[0] \in (Children + 3)..(2 * Children + 3) =>
             Len(taken[0]) = chanpc'[0] - (Children + 3)
    BY <1>2 DEF SumsRight
  <1>5. chanpc'[0] >= 2 * Children + 3 => content'["fds"] = <<>>
    <2>1. CASE chanpc[0] >= 2 * Children + 3
      BY <2>1 DEF SumsRight
    <2>2. CASE chanpc[0] <= 2 * Children + 2
      <3>1. ~(chanpc'[0] >= 2 * Children + 3)
        BY <1>2, <2>2
      <3>2. QED
        BY <3>1
    <2>3. QED
      BY <1>2, <2>1, <2>2
  <1>6. chanpc'[0] <= 2 * Children + 3 =>
          Len(taken[0]) + Len(content'["fds"]) = Cardinality(Wrote1)
    <2>1. chanpc'[0] <= 2 * Children + 3 => content'["fds"] = content["fds"]
      BY <1>2 DEF SumsRight
    <2>2. chanpc'[0] <= 2 * Children + 3 => chanpc[0] <= 2 * Children + 3
      BY <1>2
    <2>3. QED
      BY <2>1, <2>2 DEF SumsRight
  <1>7. QED
    BY <1>1, <1>4, <1>5, <1>6 DEF SumsRight, SumsCounts

LEMMA SumsStep ==
  ASSUME Chan!TypeOK, Chan!TypeOK', program = Chan!Sums, program' = program,
         SumsRight, ExitedAtEnd, ForkRight, Unharmed,
         NEW p \in Chan!Processes, Regular(p)
  PROVE  SumsRight'
  <1> USE DEF Chan!held, Chan!data
  <1>1. \A call, x : Chan!Calls(p, call, x) =>
          SumsCall(p, chanpc[p], call, x) /\ chanstate[p] = "running"
    BY SumsCalls DEF Chan!Calls
  <1>2. /\ Children \in Nat /\ p \in 0..Children
        /\ \A q \in 0..Children : chanpc[q] \in Nat \ {0} /\ sent[q] \in Nat
        /\ program.forked = 1..Children /\ Chan!Processes = 0..Children
        /\ DOMAIN chanpc = 0..Children /\ DOMAIN chanstate = 0..Children
        /\ DOMAIN sent = 0..Children
        /\ Len(program.code[0]) = 2 * Children + 3
        /\ \A c \in 1..Children : Len(program.code[c]) = 3
    BY SumsShape
  <1>3. readers \in [Chan!Channels -> SUBSET Chan!Processes]
    BY DEF Chan!TypeOK
  <1>4. writers \in [Chan!Channels -> SUBSET Chan!Processes] /\ "fds" \in Chan!Channels
    BY DEF Chan!TypeOK, Chan!Channels
  \* The ends of the parent, its counts and its children.
  <1>5. ASSUME chanpc'[0] <= 2 * Children + 3 => 0 \in readers'["fds"],
               chanpc'[0] <= Children + 2 => 0 \in writers'["fds"],
               chanpc'[0] # 1 => Children # 0,
               SumsCounts', \A c \in 1..Children : ChildRight(c)'
        PROVE  SumsRight'
    BY <1>5 DEF SumsRight, SumsCounts
  <1>6. \A c \in 1..Children : ChildRight(c)
    BY DEF SumsRight
  <1>7. CASE Chan!Fork(p)
    <2>1. PICK c \in 1..Children :
            /\ Chan!Calls(p, "fork", c) \/ Chan!Calls(p, "fork_or_exit", c)
            /\ chanstate' = [chanstate EXCEPT ![c] = "running"]
            /\ readers' = [ch \in Chan!Channels |->
                  IF p \in readers[ch] THEN readers[ch] \cup {c} ELSE readers[ch]]
            /\ writers' = [ch \in Chan!Channels |->
                  IF p \in writers[ch] THEN writers[ch] \cup {c} ELSE writers[ch]]
            /\ chanpc' = [chanpc EXCEPT ![p] = @ + 1]
            /\ UNCHANGED <<content, sent, taken>>
      BY <1>2, <1>7 DEF Chan!Fork
    <2>2. p = 0 /\ chanpc[0] = c
      BY <1>1, <2>1 DEF SumsCall
    <2>3. /\ chanpc'[0] = c + 1 /\ \A q \in 1..Children : chanpc'[q] = chanpc[q]
          /\ chanstate'[c] = "running"
          /\ \A q \in 1..Children : q # c => chanstate'[q] = chanstate[q]
      BY <1>2, <2>1, <2>2
    <2>4. 0 \in readers["fds"] /\ 0 \in writers["fds"]
      BY <1>2, <2>2 DEF SumsRight
    <2>5. /\ readers'["fds"] = readers["fds"] \cup {c}
          /\ writers'["fds"] = writers["fds"] \cup {c}
      BY <1>4, <2>1, <2>2, <2>4
    <2>6. SumsCounts'
      BY <1>2, <2>1, <2>2, <2>3, SumsCountsKept
    <2>7. chanstate[c] = "absent" /\ chanpc[c] = 1
      BY <1>2, <1>6, <2>2 DEF ForkRight, ChildRight
    <2>8. ASSUME NEW q \in 1..Children PROVE ChildRight(q)'
      <3>1. /\ ChildRight(q) /\ chanpc'[q] = chanpc[q] /\ taken'[q] = taken[q]
            /\ sent'[q] = sent[q]
        BY <1>6, <2>1, <2>3
      <3>2. ~(chanpc'[0] >= Children + 2)
        BY <1>2, <2>3
      <3>3. q \in writers["fds"] => q \in writers'["fds"]
        BY <2>5
      <3>4. CASE q = c
        BY <2>3, <2>5, <2>7, <3>1, <3>2, <3>4 DEF ChildRight
      <3>5. CASE q # c
        <4>1. chanstate'[q] = chanstate[q]
          BY <2>3, <3>5
        <4>2. QED
          BY <3>1, <3>2, <3>3, <4>1 DEF ChildRight
      <3>6. QED
        BY <3>4, <3>5
    <2>9. QED
      BY <1>2, <1>5, <2>4, <2>5, <2>6, <2>8
  <1>8. CASE Chan!Wait(p)
    <2>1. PICK c \in 1..Children : Chan!Calls(p, "wait", c)
      BY <1>2, <1>8 DEF Chan!Wait
    <2>2. p = 0 /\ chanpc[0] = Children + 1
      BY <1>1, <2>1 DEF SumsCall
    <2>3. /\ chanpc'[0] = Children + 2 /\ \A q \in 1..Children : chanpc'[q] = chanpc[q]
          /\ UNCHANGED <<chanstate, readers, writers, content, sent, taken>>
      BY <1>2, <1>8, <2>2 DEF Chan!Wait, Chan!Return
    <2>4. SumsCounts'
      BY <1>2, <2>1, <2>2, <2>3, SumsCountsKept
    <2>5. ASSUME NEW q \in 1..Children PROVE chanstate[q] = "exited"
      <3>1. q \in Chan!Processes /\ ~(chanpc[0] <= q)
        BY <1>2, <2>2
      <3>2. chanstate[q] \in {"running", "opening", "exited"}
        BY <3>1 DEF Unharmed
      <3>3. chanstate[q] = "absent" \/ Chan!Ended(q)
        BY <1>2, <1>8 DEF Chan!Wait
      <3>4. QED
        BY <3>2, <3>3 DEF Chan!Ended
    <2>6. ASSUME NEW q \in 1..Children PROVE ChildRight(q)'
      BY <1>2, <1>6, <2>3, <2>5 DEF ChildRight
    <2>7. 0 \in readers["fds"] /\ 0 \in writers["fds"]
      <3>1. chanpc[0] <= 2 * Children + 3 /\ chanpc[0] <= Children + 2
        BY <1>2, <2>2
      <3>2. QED
        BY <3>1 DEF SumsRight
    <2>8. Children # 0
      BY <1>2, <2>1
    <2>9. QED
      BY <1>5, <2>3, <2>4, <2>6, <2>7, <2>8
  <1>9. CASE Chan!Exit(p)
    <2>1. /\ chanpc' = chanpc /\ sent' = sent /\ taken' = taken
          /\ readers'["fds"] = readers["fds"] \ {p} /\ writers'["fds"] = writers["fds"] \ {p}
          /\ content'["fds"] = IF readers'["fds"] = {} /\ writers'["fds"] = {}
                               THEN <<>> ELSE content["fds"]
          /\ chanstate[p] = "running" /\ chanpc[p] > Len(program.code[p])
      BY <1>4, <1>9 DEF Chan!Exit, Chan!Leave, Chan!Drop
    <2>2. \A q \in 0..Children :
            /\ q # p => chanstate'[q] = chanstate[q]
            /\ chanstate'[p] = "exited"
      BY <1>2, <1>9 DEF Chan!Exit, Chan!Leave
    <2>3. chanpc[0] <= 2 * Children + 3 => p # 0
      BY <1>2, <2>1
    <2>4. p # 0 => chanpc[p] > 3
      <3>1. p # 0 => p \in 1..Children
        BY <1>2
      <3>2. p # 0 => Len(program.code[p]) = 3
        BY <1>2, <3>1
      <3>3. QED
        BY <2>1, <3>2
    <2>5. chanpc[0] <= 2 * Children + 3 => content'["fds"] = content["fds"]
      BY <2>1, <2>3 DEF SumsRight
    <2>6. SumsCounts'
      BY <1>2, <2>1, <2>5, SumsCountsKept
    <2>7. ASSUME NEW q \in 1..Children PROVE ChildRight(q)'
      <3>1. q \in 0..Children /\ chanpc[q] \in Nat
        BY <1>2
      <3>2. QED
        BY <1>6, <2>1, <2>2, <2>4, <3>1 DEF ChildRight
    <2>8. chanpc[0] <= Children + 2 => chanpc[0] <= 2 * Children + 3
      BY <1>2
    <2>9. QED
      BY <1>5, <2>1, <2>3, <2>6, <2>7, <2>8 DEF SumsRight
  <1>10. CASE Chan!Create(p) \/ Chan!Unlink(p) \/ Chan!Open(p) \/ Chan!OpenFails(p) \/ Chan!Find(p)
    BY <1>1, <1>10
       DEF Chan!Create, Chan!Unlink, Chan!Open, Chan!OpenFails, Chan!Find, SumsCall
  <1>11. CASE Chan!Close(p)
    <2>1. PICK call \in {"close_r", "close_w"}, ch \in Chan!Channels :
            /\ Chan!Calls(p, call, ch)
            /\ call = "close_w" => /\ readers' = readers
                                   /\ writers' = [writers EXCEPT ![ch] = @ \ {p}]
            /\ call = "close_r" => /\ writers' = writers
                                   /\ readers' = [readers EXCEPT ![ch] = @ \ {p}]
      BY <1>11 DEF Chan!Close
    <2>2. /\ UNCHANGED <<chanstate, sent, taken>> /\ chanstate[p] = "running"
          /\ chanpc' = [chanpc EXCEPT ![p] = @ + 1]
          /\ content'["fds"] = IF readers'["fds"] = {} /\ writers'["fds"] = {}
                               THEN <<>> ELSE content["fds"]
      BY <1>1, <1>4, <1>11, <2>1 DEF Chan!Close, Chan!Return, Chan!Drop
    <2>3. SumsCall(p, chanpc[p], call, ch) /\ ch = "fds"
      BY <1>1, <2>1 DEF SumsCall
    <2>4. CASE p = 0
      <3>1. \/ chanpc[0] = Children + 2 /\ call = "close_w"
            \/ chanpc[0] = 2 * Children + 3
        BY <2>1, <2>3, <2>4 DEF SumsCall
      <3>2. /\ chanpc'[0] = chanpc[0] + 1
            /\ \A q \in 1..Children : chanpc'[q] = chanpc[q] /\ chanstate'[q] = chanstate[q]
        BY <1>2, <2>2, <2>4
      <3>3. Children # 0
        BY <1>2, <3>1 DEF SumsRight
      <3>4. \A q \in 1..Children : q \in writers["fds"] => q \in writers'["fds"]
        BY <1>4, <2>1, <2>3, <2>4
      <3>5. ASSUME NEW q \in 1..Children PROVE ChildRight(q)'
        BY <1>2, <1>6, <2>2, <3>1, <3>2, <3>4 DEF ChildRight
      <3>6. CASE chanpc[0] = Children + 2 /\ call = "close_w"
        <4>1. 0 \in readers["fds"] /\ readers' = readers
          BY <1>2, <2>1, <3>6 DEF SumsRight
        <4>2. SumsCounts'
          BY <1>2, <2>2, <3>2, <3>3, <3>6, <4>1, SumsCountsKept
        <4>3. QED
          BY <1>2, <1>5, <3>2, <3>3, <3>5, <3>6, <4>1, <4>2
      <3>7. CASE chanpc[0] = 2 * Children + 3
        <4>1. SumsCounts'
          BY <1>2, <2>2, <3>2, <3>3, <3>7, SumsCountsKept
        <4>2. QED
          BY <1>2, <1>5, <3>2, <3>3, <3>5, <3>7, <4>1
      <3>8. QED
        BY <3>1, <3>6, <3>7
    <2>5. CASE p # 0
      <3>1. p \in 1..Children /\ chanpc[p] \in {1, 3}
        BY <1>2, <2>1, <2>3, <2>5 DEF SumsCall
      <3>2. /\ chanpc'[0] = chanpc[0] /\ chanpc'[p] = chanpc[p] + 1
            /\ \A q \in 1..Children : q # p => chanpc'[q] = chanpc[q]
        BY <1>2, <2>2, <2>5
      <3>3. /\ 0 \in readers["fds"] => 0 \in readers'["fds"]
            /\ 0 \in writers["fds"] => 0 \in writers'["fds"]
            /\ \A q \in 1..Children : q # p /\ q \in writers["fds"] => q \in writers'["fds"]
            /\ chanpc[p] = 1 => writers' = writers
        BY <1>3, <1>4, <2>1, <2>3, <2>5, <3>1 DEF SumsCall
      <3>4. chanpc[0] <= 2 * Children + 3 => 0 \in readers'["fds"]
        BY <3>3 DEF SumsRight
      <3>5. content'["fds"] # content["fds"] =>
              content'["fds"] = <<>> /\ chanpc[0] >= 2 * Children + 3
        BY <1>2, <2>2, <3>4
      <3>6. SumsCounts'
        BY <1>2, <2>2, <3>2, <3>5, SumsCountsKept
      <3>7. ASSUME NEW q \in 1..Children PROVE ChildRight(q)'
        <4>1. CASE q = p
          BY <1>6, <2>2, <3>1, <3>2, <3>3, <4>1 DEF ChildRight
        <4>2. CASE q # p
          BY <1>6, <2>2, <3>2, <3>3, <4>2 DEF ChildRight
        <4>3. QED
          BY <4>1, <4>2
      <3>8. QED
        BY <1>5, <3>2, <3>3, <3>4, <3>6, <3>7 DEF SumsRight
    <2>6. QED
      BY <2>4, <2>5
  <1>12. CASE Chan!Write(p)
    <2>1. PICK ch \in Chan!Channels :
            /\ Chan!CallsWrite(p, ch)
            /\ content' = [content EXCEPT ![ch] = Append(@, <<p, sent[p] + 1>>)]
            /\ sent' = [sent EXCEPT ![p] = @ + 1]
            /\ Chan!Written(p)
      BY <1>12 DEF Chan!Write
    <2>2. /\ p \in 1..Children /\ chanpc[p] = 2 /\ chanstate[p] = "running" /\ ch = "fds"
          /\ Chan!Calls(p, "write", "fds")
      BY <1>1, <2>1 DEF Chan!CallsWrite, SumsCall
    <2>3. /\ chanpc' = [chanpc EXCEPT ![p] = @ + 1]
          /\ UNCHANGED <<chanstate, readers, writers, taken>>
      BY <2>1, <2>2 DEF Chan!Written, Chan!Calls
    <2>4. /\ chanpc'[0] = chanpc[0] /\ chanpc'[p] = 3 /\ sent'[p] = 1 /\ sent'[0] = sent[0]
          /\ \A q \in 1..Children : q # p => chanpc'[q] = chanpc[q] /\ sent'[q] = sent[q]
          /\ sent[p] = 0
      BY <1>2, <1>6, <2>1, <2>2, <2>3 DEF ChildRight
    <2>5. chanpc[0] < Children + 2
      BY <1>2, <1>6, <2>2 DEF ChildRight
    <2>6. Len(content'["fds"]) = Len(content["fds"]) + 1
      BY <2>1, <2>2, <2>3, WroteContent DEF Wrote
    <2>7. Cardinality(Wrote1') = Cardinality(Wrote1) + 1
      <3>1. Wrote1' = Wrote1 \cup {p} /\ p \notin Wrote1
        BY <2>2, <2>4 DEF Wrote1
      <3>2. IsFiniteSet(Wrote1)
        <4>1. IsFiniteSet(1..Children)
          BY <1>2, FS_Interval
        <4>2. QED
          BY <4>1, FS_Subset DEF Wrote1
      <3>3. QED
        BY <3>1, <3>2, FS_AddElement
    <2>8. SumsCounts'
      <3>1. /\ ~(chanpc[0] >= 2 * Children + 3) /\ chanpc[0] <= 2 * Children + 3
            /\ chanpc[0] \notin (Children + 3)..(2 * Children + 3)
        BY <1>2, <2>5
      <3>2. Len(taken[0]) \in Nat /\ Len(content["fds"]) \in Nat
        BY <1>2, <1>4, MessageTypes
      <3>3. Len(taken[0]) + Len(content["fds"]) = Cardinality(Wrote1)
        BY <3>1 DEF SumsRight
      <3>4. Len(taken[0]) + Len(content'["fds"]) = Cardinality(Wrote1')
        <4>1. \A a, b \in Nat : a + (b + 1) = (a + b) + 1
          OBVIOUS
        <4>2. Len(taken[0]) + (Len(content["fds"]) + 1)
                = (Len(taken[0]) + Len(content["fds"])) + 1
          BY <3>2, <4>1
        <4>3. QED
          BY <2>6, <2>7, <3>3, <4>2
      <3>5. QED
        BY <2>3, <2>4, <3>1, <3>4 DEF SumsRight, SumsCounts
    <2>9. ASSUME NEW q \in 1..Children PROVE ChildRight(q)'
      BY <1>6, <2>2, <2>3, <2>4 DEF ChildRight
    <2>10. QED
      BY <1>5, <2>3, <2>4, <2>8, <2>9 DEF SumsRight
  <1>13. ~Chan!WriteFails(p)
    <2>1. SUFFICES ASSUME Chan!WriteFails(p) PROVE FALSE
      OBVIOUS
    <2>2. PICK ch \in Chan!Channels : Chan!CallsWrite(p, ch) /\ p \notin writers[ch]
      BY <2>1 DEF Chan!WriteFails
    <2>3. p \in 1..Children /\ chanpc[p] = 2 /\ chanstate[p] = "running" /\ ch = "fds"
      BY <1>1, <2>2 DEF Chan!CallsWrite, SumsCall
    <2>4. QED
      BY <1>6, <2>2, <2>3 DEF ChildRight
  <1>14. CASE Chan!Read(p)
    <2>1. PICK ch \in Chan!Channels, call \in Chan!ReadCalls, n \in Nat \ {0} :
            /\ n \in 1..Len(content[ch])
            /\ Chan!Calls(p, call, ch) /\ Took(p, ch, n)
            /\ n = IF call \in {"read_one", "take"} THEN 1 ELSE Len(content[ch])
            /\ chanpc' = IF call = "read_all" THEN chanpc ELSE [chanpc EXCEPT ![p] = @ + 1]
            /\ UNCHANGED <<chanstate, readers, writers, sent>>
      BY <1>14, ReadMoves
    <2>2. call = "read_one"
      BY <1>1, <2>1 DEF SumsCall, Chan!ReadCalls
    <2>3. /\ p = 0 /\ ch = "fds" /\ chanpc[0] \in (Children + 3)..(2 * Children + 2)
      BY <2>1, <2>2, PartForEachRead
    <2>4. /\ chanpc'[0] = chanpc[0] + 1
          /\ \A q \in 1..Children : chanpc'[q] = chanpc[q] /\ taken'[q] = taken[q]
          /\ Len(taken'[0]) = Len(taken[0]) + 1
          /\ Len(content'["fds"]) = Len(content["fds"]) - 1
      <3>1. n = 1 /\ chanpc' = [chanpc EXCEPT ![0] = @ + 1]
        BY <2>1, <2>2, <2>3
      <3>2. Took(0, "fds", 1)
        BY <2>1, <2>3, <3>1
      <3>3. QED
        BY <1>2, <3>1, <3>2 DEF Took
    <2>5. Cardinality(Wrote1) = Children /\ Wrote1' = Wrote1
      BY <1>2, <1>6, <2>1, <2>3, AllWrote DEF Wrote1
    <2>6. Len(taken[0]) \in Nat /\ Len(content["fds"]) \in Nat
      BY <1>2, <1>4, MessageTypes
    <2>7. /\ Len(taken[0]) = chanpc[0] - (Children + 3)
          /\ Len(taken[0]) + Len(content["fds"]) = Cardinality(Wrote1)
      <3>1. /\ chanpc[0] <= 2 * Children + 3
            /\ chanpc[0] \in (Children + 3)..(2 * Children + 3)
        BY <1>2, <2>3
      <3>2. QED
        BY <3>1 DEF SumsRight
    <2>8. SumsCounts'
      <3>1. chanpc'[0] = 2 * Children + 3 => Len(content'["fds"]) = 0
        <4>1. Children \in Nat
          BY <1>2
        <4>2. Len(taken[0]) + Len(content["fds"]) = Children
          BY ONLY <2>5, <2>7
        <4>3. chanpc[0] + 1 = 2 * Children + 3 => Len(taken[0]) = Children - 1
          BY ONLY <2>3, <2>7, <4>1
        <4>4. chanpc[0] + 1 = 2 * Children + 3 => Len(content["fds"]) = 1
          <5>1. \A a, b, k \in Nat : a + b = k /\ a = k - 1 => b = 1
            OBVIOUS
          <5>2. QED
            BY <2>6, <4>1, <4>2, <4>3, <5>1
        <4>5. QED
          BY ONLY <2>4, <4>4
      <3>2. content'["fds"] \in Seq(Chan!Processes' \X Nat)
        BY <1>4 DEF Chan!TypeOK
      <3>3. chanpc'[0] = 2 * Children + 3 => content'["fds"] = <<>>
        BY ONLY <3>1, <3>2, EmptySeq
      <3>4. /\ Len(taken'[0]) = chanpc'[0] - (Children + 3)
            /\ Len(taken'[0]) + Len(content'["fds"]) = Cardinality(Wrote1')
            /\ ~(chanpc'[0] <= Children + 3)
            /\ chanpc'[0] >= 2 * Children + 3 => chanpc'[0] = 2 * Children + 3
        <4>1. Children \in Nat
          BY <1>2
        <4>2. Len(taken'[0]) = chanpc'[0] - (Children + 3)
          BY ONLY <2>3, <2>4, <2>6, <2>7, <4>1
        <4>3. Len(taken'[0]) + Len(content'["fds"]) = Cardinality(Wrote1')
          BY ONLY <2>4, <2>5, <2>6, <2>7
        <4>4. ~(chanpc'[0] <= Children + 3)
          BY ONLY <2>3, <2>4, <4>1
        <4>5. chanpc'[0] >= 2 * Children + 3 => chanpc'[0] = 2 * Children + 3
          BY ONLY <2>3, <2>4, <4>1
        <4>6. QED
          BY <4>2, <4>3, <4>4, <4>5
      <3>5. QED
        BY <2>1, <3>3, <3>4 DEF SumsRight, SumsCounts
    <2>9. ASSUME NEW q \in 1..Children PROVE ChildRight(q)'
      <3>1. chanpc[0] >= Children + 2
        BY <1>2, <2>3
      <3>2. QED
        BY <1>6, <2>1, <2>4, <3>1 DEF ChildRight
    <2>10. 0 \in readers["fds"] /\ Children # 0 /\ ~(chanpc'[0] <= Children + 2)
      BY <1>2, <2>3, <2>4 DEF SumsRight
    <2>11. QED
      BY <1>5, <2>1, <2>8, <2>9, <2>10
  <1>15. ~Chan!ReadEnd(p)
    <2>1. SUFFICES ASSUME Chan!ReadEnd(p) PROVE FALSE
      OBVIOUS
    <2>2. PICK ch \in Chan!Channels : Chan!CallsRead(p, ch) /\ content[ch] = <<>>
      BY <2>1 DEF Chan!ReadEnd
    <2>3. Chan!Calls(p, "read_one", ch)
      BY <1>1, <2>2 DEF Chan!CallsRead, Chan!ReadCalls, SumsCall
    <2>4. QED
      BY <2>2, <2>3, PartForEachRead
  <1>16. ~Chan!ReadFails(p)
    <2>1. SUFFICES ASSUME Chan!ReadFails(p) PROVE FALSE
      OBVIOUS
    <2>2. PICK ch \in Chan!Channels : Chan!CallsRead(p, ch) /\ p \notin readers[ch]
      BY <2>1 DEF Chan!ReadFails
    <2>3. Chan!Calls(p, "read_one", ch)
      BY <1>1, <2>2 DEF Chan!CallsRead, Chan!ReadCalls, SumsCall
    <2>4. p = 0 /\ ch = "fds" /\ chanpc[0] <= 2 * Children + 3
      BY <1>2, <2>3, PartForEachRead
    <2>5. QED
      BY <2>2, <2>4 DEF SumsRight
  <1>17. QED
    BY <1>7, <1>8, <1>9, <1>10, <1>11, <1>12, <1>13, <1>14, <1>15, <1>16 DEF Regular

LEMMA SumsLoseNothing ==
  ASSUME Chan!TypeOK, program = Chan!Sums, SumsRight, Placed,
         NEW p \in Chan!Processes, Chan!Close(p) \/ Chan!Exit(p),
         NEW ch \in Chan!Channels, Gone(ch)
  PROVE  content[ch] = <<>>
  <1> SUFFICES ASSUME content[ch] # <<>> PROVE FALSE
    OBVIOUS
  <1>1. ch = "fds"
    BY SomeSender, ProgramsDiffer DEF Out
  <1>2. chanpc[0] < 2 * Children + 3 /\ chanpc[0] \in Nat /\ Children \in Nat
    BY <1>1, SumsShape DEF SumsRight
  <1>3. 0 \in readers["fds"]
    BY <1>2 DEF SumsRight
  <1>4. 0 \in readers'["fds"]
    <2>1. CASE Chan!Exit(p)
      <3>1. chanpc[p] > Len(program.code[p])
        BY <2>1 DEF Chan!Exit
      <3>2. p # 0
        BY <1>2, <3>1, SumsShape
      <3>3. readers'["fds"] = readers["fds"] \ {p}
        BY <1>1, <2>1 DEF Chan!Exit, Chan!Leave
      <3>4. QED
        BY <1>3, <3>2, <3>3
    <2>2. CASE Chan!Close(p)
      <3>1. ASSUME NEW x, Chan!Calls(p, "close_r", x) PROVE p # 0
        BY <1>2, <3>1, SumsCalls DEF Chan!Calls, SumsCall
      <3>2. QED
        BY <1>1, <1>3, <2>2, <3>1 DEF Chan!Close, Chan!TypeOK
    <2>3. QED
      BY <2>1, <2>2
  <1>5. QED
    BY <1>1, <1>4 DEF Gone

-----------------------------------------------------------------------------
(* The FIFO's server has the ends that it opened, and the names are there  *)
(* until it unlinks them.                                                  *)
Clients == Chan!Processes \ {0}

FifoServerRight ==
  /\ chanpc[0] \in 1..11
  /\ chanpc[0] \in 3..10 => "s2c" \in there
  /\ chanpc[0] \in 2..9 => "c2s" \in there
  /\ chanstate[0] = "opening" => chanpc[0] \in {3, 4}
  /\ 0 \in readers["c2s"] <=>
       chanpc[0] \in 4..7 \/ (chanpc[0] = 3 /\ chanstate[0] = "opening")
  /\ 0 \in writers["s2c"] <=>
       chanpc[0] \in 5..8 \/ (chanpc[0] = 4 /\ chanstate[0] = "opening")
  /\ readers["c2s"] \subseteq {0} /\ writers["s2c"] \subseteq {0}
  /\ 0 \notin writers["c2s"] /\ 0 \notin readers["s2c"]
  /\ chanpc[0] <= 4 => Len(taken[0]) = 0 /\ sent[0] = 0
  /\ program = Chan!Fifo /\ chanpc[0] >= 4 => chanpc[1] >= 2

(* A client whose open has returned has met the server; who has sent has   *)
(* the ends of both FIFOs, unless the server is at its end.                *)
FifoClientRight(c) ==
  /\ chanpc[c] <= 3 => Len(taken[c]) = 0 /\ sent[c] = 0
  /\ chanstate[c] = "opening" =>
       \/ chanpc[c] = 1 /\ c \in writers["c2s"]
       \/ chanpc[c] = 2 /\ c \in readers["s2c"]
  /\ c \in writers["c2s"] =>
       \/ chanpc[c] = 1 /\ chanstate[c] = "opening"
       \/ chanpc[c] \in 2..(2 * Asks(c) + 3) /\ chanpc[0] >= 4
  /\ c \in readers["s2c"] =>
       \/ chanpc[c] = 2 /\ chanstate[c] = "opening"
       \/ chanpc[c] >= 3 /\ chanpc[0] >= 5
  /\ c \in writers["c2s"] /\ chanpc[c] >= 3 /\ c \notin readers["s2c"] => chanpc[0] >= 8
  /\ sent[c] > 0 /\ chanpc[c] <= 2 * Asks(c) + 3 => c \in writers["c2s"]
  /\ sent[c] > 0 => chanpc[0] >= 4

(* Until the server has seen the end: requests and responses are counted,  *)
(* and a client reads at least one response for each request.              *)
ReadsNext == {c \in Clients : chanpc[c] \in 4..(2 * Asks(c) + 2) /\ chanpc[c] % 2 # 1}
SentBy == [c \in 1..2 |-> IF c \in Clients THEN sent[c] ELSE 0]
TookBy == [c \in 1..2 |-> IF c \in Clients THEN Len(taken[c]) ELSE 0]

Counted ==
  chanpc[0] <= 6 =>
    /\ Len(taken[0]) + Len(content["c2s"]) = SentBy[1] + SentBy[2]
    /\ TookBy[1] + TookBy[2] + Len(content["s2c"]) = sent[0]
    /\ sent[0] <= Len(taken[0])
    /\ chanpc[0] = 6 => sent[0] < Len(taken[0])
    /\ \A c \in Clients :
         /\ sent[c] <= Len(taken[c]) + 1
         /\ c \notin ReadsNext => sent[c] <= Len(taken[c])

(* Then there is no response left, and who sends comes late.               *)
AfterEnd ==
  chanpc[0] >= 7 =>
    /\ content["s2c"] = <<>>
    /\ writers["c2s"] \subseteq LateOnes
    /\ \A i \in DOMAIN content["c2s"] : content["c2s"][i][1] \in LateOnes

FifoRight ==
  /\ FifoServerRight /\ Counted /\ AfterEnd
  /\ \A c \in Clients : FifoClientRight(c)

LEMMA FifoShape ==
  ASSUME Chan!TypeOK, IsFifo
  PROVE  /\ Clients \subseteq {1, 2} /\ 1 \in Clients /\ 0 \notin Clients
         /\ 0 \in Chan!Processes /\ Chan!Processes = Clients \cup {0}
         /\ program = Chan!Fifo => Clients = {1}
         /\ \A c \in Clients : c \in Chan!Processes /\ c # 0 /\ Asks(c) \in Nat
         /\ program.forked = {}
         /\ chanpc \in [Chan!Processes -> Nat \ {0}] /\ sent \in [Chan!Processes -> Nat]
         /\ chanstate \in [Chan!Processes ->
              {"absent", "running", "opening", "exited", "failed", "killed"}]
         /\ readers \in [Chan!Channels -> SUBSET Chan!Processes]
         /\ writers \in [Chan!Channels -> SUBSET Chan!Processes]
         /\ "c2s" \in Chan!Channels /\ "s2c" \in Chan!Channels
         /\ \A q \in Chan!Processes :
              chanpc[q] \in Nat \ {0} /\ sent[q] \in Nat /\ Len(taken[q]) \in Nat
         /\ Len(content["c2s"]) \in Nat /\ Len(content["s2c"]) \in Nat
         /\ Len(program.code[0]) = 10
         /\ \A c \in Clients : Len(program.code[c]) = 2 * Asks(c) + 4
  <1>1. /\ Chan!Processes = {0, 1} \/ Chan!Processes = {0, 1, 2}
        /\ program = Chan!Fifo => Chan!Processes = {0, 1}
        /\ program.forked = {}
    BY ProgramCodes DEF IsFifo
  <1>2. /\ chanpc \in [Chan!Processes -> Nat \ {0}] /\ sent \in [Chan!Processes -> Nat]
        /\ chanstate \in [Chan!Processes ->
             {"absent", "running", "opening", "exited", "failed", "killed"}]
        /\ readers \in [Chan!Channels -> SUBSET Chan!Processes]
        /\ writers \in [Chan!Channels -> SUBSET Chan!Processes]
        /\ "c2s" \in Chan!Channels /\ "s2c" \in Chan!Channels
    BY DEF Chan!TypeOK, Chan!Channels, Chan!Named
  <1>3. /\ \A q \in Chan!Processes :
             chanpc[q] \in Nat \ {0} /\ sent[q] \in Nat /\ Len(taken[q]) \in Nat
        /\ Len(content["c2s"]) \in Nat /\ Len(content["s2c"]) \in Nat
    BY <1>2, MessageTypes
  <1>4. \A c \in Clients : Asks(c) \in Nat
    BY ChannelAssumption DEF Asks
  <1>5. Len(program.code[0]) = 10
    BY ProgramCodes, FifoServerCode DEF IsFifo
  <1>6. ASSUME NEW c \in Clients PROVE Len(program.code[c]) = 2 * Asks(c) + 4
    <2>1. program.code[c] = Chan!FifoClient(Asks(c))
      BY <1>1, ProgramCodes DEF IsFifo, Asks, Clients
    <2> DEFINE n == Asks(c)
    <2>2. n \in Nat
      BY <1>4
    <2> HIDE DEF n
    <2>3. Len(Chan!FifoClient(n)) = 2 * n + 4
      BY <2>2, FifoClientCode
    <2>4. QED
      BY <2>1, <2>3 DEF n
  <1>7. QED
    BY <1>1, <1>2, <1>3, <1>4, <1>5, <1>6 DEF Clients

LEMMA FifoCallsOf ==
  ASSUME IsFifo, NEW p \in Chan!Processes, NEW call, NEW x, Chan!Calls(p, call, x)
  PROVE  FifoCall(p, chanpc[p], call, x) /\ chanstate[p] = "running"
  BY FifoCalls DEF Chan!Calls

(* What a step leaves as it is.                                            *)
LEMMA ClientKept ==
  ASSUME NEW c \in Clients, FifoClientRight(c),
         chanpc'[c] = chanpc[c], chanstate'[c] = chanstate[c],
         taken'[c] = taken[c], sent'[c] = sent[c],
         c \in writers'["c2s"] <=> c \in writers["c2s"],
         c \in readers'["s2c"] <=> c \in readers["s2c"],
         chanpc[0] >= 4 => chanpc'[0] >= 4,
         chanpc[0] >= 5 => chanpc'[0] >= 5,
         chanpc[0] >= 8 => chanpc'[0] >= 8
  PROVE  FifoClientRight(c)'
  BY DEF FifoClientRight, Asks

LEMMA CountedKept ==
  ASSUME program' = program, Counted, taken' = taken, sent' = sent,
         chanpc'[0] <= 6 => chanpc[0] <= 6, chanpc'[0] = 6 => chanpc[0] = 6,
         chanpc[0] <= 6 => /\ content'["c2s"] = content["c2s"]
                           /\ content'["s2c"] = content["s2c"],
         \A c \in Clients : chanpc[0] <= 6 /\ c \in ReadsNext =>
           c \in ReadsNext' \/ sent[c] <= Len(taken[c])
  PROVE  Counted'
  <1>1. Clients' = Clients /\ SentBy' = SentBy /\ TookBy' = TookBy
    BY DEF Clients, SentBy, TookBy, Chan!Processes
  <1>2. QED
    BY <1>1 DEF Counted

LEMMA LateStays ==
  ASSUME program' = program, chanpc'[0] >= 7,
         \A c \in Clients : taken'[c] = taken[c]
  PROVE  LateOnes \subseteq LateOnes'
  BY OutSame DEF LateOnes, Clients

LEMMA AfterKept ==
  ASSUME program' = program, AfterEnd, chanpc[0] >= 7, chanpc'[0] >= 7,
         \A c \in Clients : taken'[c] = taken[c],
         content'["s2c"] = <<>>, writers'["c2s"] \subseteq writers["c2s"],
         content'["c2s"] = content["c2s"] \/ content'["c2s"] = <<>>
  PROVE  AfterEnd'
  BY LateStays DEF AfterEnd

(* A message is in a FIFO that the server has the end of, until it has     *)
(* seen the end of the requests.                                           *)
LEMMA FifoHeld ==
  ASSUME Chan!TypeOK, IsFifo, FifoRight, chanpc[0] <= 6
  PROVE  /\ content["c2s"] = <<>> \/ 0 \in readers["c2s"]
         /\ content["s2c"] = <<>> \/ 0 \in writers["s2c"]
  <1>1. chanpc[0] \in 1..6
    BY FifoShape DEF FifoRight, FifoServerRight
  <1>2. Len(taken[0]) + Len(content["c2s"]) = SentBy[1] + SentBy[2]
    BY DEF FifoRight, Counted
  <1>3. TookBy[1] + TookBy[2] + Len(content["s2c"]) = sent[0]
    BY DEF FifoRight, Counted
  <1>4. chanpc[0] \in 4..6 => 0 \in readers["c2s"]
    BY DEF FifoRight, FifoServerRight
  <1>5. chanpc[0] \in 5..6 => 0 \in writers["s2c"]
    BY DEF FifoRight, FifoServerRight
  <1>6. chanpc[0] \in 1..3 => content["c2s"] = <<>>
    <2> SUFFICES ASSUME chanpc[0] \in 1..3 PROVE content["c2s"] = <<>>
      OBVIOUS
    <2>1. \A c \in Clients : sent[c] \in Nat /\ ~(sent[c] > 0)
      BY FifoShape DEF FifoRight, FifoClientRight
    <2>2. SentBy[1] = 0 /\ SentBy[2] = 0
      BY <2>1 DEF SentBy
    <2>3. Len(content["c2s"]) = 0
      <3>1. Len(taken[0]) \in Nat /\ Len(content["c2s"]) \in Nat
        BY FifoShape
      <3>2. Len(taken[0]) + Len(content["c2s"]) = 0 + 0
        BY <1>2, <2>2
      <3>3. \A a, k \in Nat : a + k = 0 + 0 => k = 0
        OBVIOUS
      <3>4. QED
        BY <3>1, <3>2, <3>3
    <2>4. QED
      BY <2>3, FifoShape, MessageTypes, EmptySeq
  <1>7. chanpc[0] \in 1..4 => content["s2c"] = <<>>
    <2> SUFFICES ASSUME chanpc[0] \in 1..4 PROVE content["s2c"] = <<>>
      OBVIOUS
    <2>1. sent[0] = 0
      BY DEF FifoRight, FifoServerRight
    <2>2. TookBy[1] \in Nat /\ TookBy[2] \in Nat /\ Len(content["s2c"]) \in Nat
      BY FifoShape DEF TookBy
    <2>3. Len(content["s2c"]) = 0
      BY ONLY <1>3, <2>1, <2>2
    <2>4. QED
      BY <2>3, FifoShape, MessageTypes, EmptySeq
  <1>8. QED
    BY <1>1, <1>4, <1>5, <1>6, <1>7

(* The names.                                                              *)
LEMMA FifoNames ==
  ASSUME Chan!TypeOK, IsFifo, program' = program, FifoRight,
         NEW p \in Chan!Processes, Chan!Create(p) \/ Chan!Unlink(p)
  PROVE  FifoRight'
  <1> USE DEF Chan!held, Chan!data
  <1>1. PICK ch \in Chan!Named :
          \/ /\ Chan!Calls(p, "create", ch) /\ there' = there \cup {ch}
             /\ ch # "mq" => writers' = writers
          \/ /\ Chan!Calls(p, "unlink", ch) /\ there' = there \ {ch}
             /\ writers' = writers
    BY DEF Chan!Create, Chan!Unlink
  <1>2. /\ p = 0 /\ chanstate[0] = "running"
        /\ \/ chanpc[0] = 1 /\ ch = "c2s" /\ there' = there \cup {ch}
           \/ chanpc[0] = 2 /\ ch = "s2c" /\ there' = there \cup {ch}
           \/ chanpc[0] = 9 /\ ch = "c2s" /\ there' = there \ {ch}
           \/ chanpc[0] = 10 /\ ch = "s2c" /\ there' = there \ {ch}
    BY <1>1, FifoCallsOf DEF FifoCall, FifoServerCall, FifoClientCall
  <1>3. /\ chanpc' = [chanpc EXCEPT ![0] = @ + 1] /\ writers' = writers
        /\ UNCHANGED <<chanstate, readers, content, sent, taken>>
    BY <1>1, <1>2 DEF Chan!Create, Chan!Unlink, Chan!Return
  <1>4. /\ chanpc'[0] = chanpc[0] + 1 /\ \A c \in Clients : chanpc'[c] = chanpc[c]
        /\ Clients' = Clients /\ 1 \in Clients
    BY <1>3, FifoShape DEF Clients, Chan!Processes
  <1>5. FifoServerRight'
    BY <1>2, <1>3, <1>4 DEF FifoRight, FifoServerRight
  <1>6. ASSUME NEW c \in Clients PROVE FifoClientRight(c)'
    BY <1>2, <1>3, <1>4, ClientKept DEF FifoRight
  <1>7. Counted'
    <2>1. chanpc'[0] <= 6 => ReadsNext' = ReadsNext
      BY <1>4 DEF ReadsNext, Asks
    <2>2. QED
      BY <1>2, <1>3, <1>4, <2>1, CountedKept DEF FifoRight
  <1>8. AfterEnd'
    <2>1. CASE chanpc[0] <= 2
      BY <1>4, <1>2, <2>1 DEF AfterEnd
    <2>2. CASE chanpc[0] >= 9
      BY <1>3, <1>4, <2>2, AfterKept DEF FifoRight, AfterEnd
    <2>3. QED
      BY <1>2, <2>1, <2>2
  <1>9. QED
    BY <1>4, <1>5, <1>6, <1>7, <1>8 DEF FifoRight

(* The ends.                                                               *)
LEMMA FifoCloses ==
  ASSUME Chan!TypeOK, IsFifo, program' = program, FifoRight,
         NEW p \in Chan!Processes, Chan!Close(p) \/ Chan!Exit(p)
  PROVE  FifoRight'
  <1>1. /\ UNCHANGED <<there, sent, taken>>
        /\ content' = [ch \in Chan!Channels |->
             IF ch # "mq" /\ readers'[ch] = {} /\ writers'[ch] = {}
             THEN <<>> ELSE content[ch]]
        /\ Clients' = Clients
    BY DEF Chan!Close, Chan!Exit, Chan!Leave, Chan!Drop, Clients, Chan!Processes
  <1>2. /\ content'["c2s"] \in {content["c2s"], <<>>}
        /\ content'["s2c"] \in {content["s2c"], <<>>}
        /\ content["c2s"] # <<>> /\ 0 \in readers'["c2s"] => content'["c2s"] = content["c2s"]
        /\ content["s2c"] # <<>> /\ 0 \in writers'["s2c"] => content'["s2c"] = content["s2c"]
    BY <1>1, FifoShape
  \* Who leaves its ends, and which.
  <1>3. CASE p = 0
    <2>1. /\ \/ /\ chanpc[0] = 7 /\ chanpc'[0] = 8 /\ chanstate'[0] = chanstate[0]
                /\ readers'["c2s"] = readers["c2s"] \ {0} /\ writers' = writers
                /\ readers'["s2c"] = readers["s2c"]
             \/ /\ chanpc[0] = 8 /\ chanpc'[0] = 9 /\ chanstate'[0] = chanstate[0]
                /\ writers'["s2c"] = writers["s2c"] \ {0} /\ readers' = readers
                /\ writers'["c2s"] = writers["c2s"]
             \/ /\ chanpc[0] = 11 /\ chanpc'[0] = 11 /\ chanstate'[0] = "exited"
                /\ readers'["c2s"] = readers["c2s"] \ {0} /\ readers'["s2c"] = readers["s2c"] \ {0}
                /\ writers'["c2s"] = writers["c2s"] \ {0} /\ writers'["s2c"] = writers["s2c"] \ {0}
          /\ chanstate[0] = "running"
      <3>1. CASE Chan!Exit(p)
        <4>1. chanpc[0] > 10 /\ chanpc[0] \in 1..11 /\ chanpc' = chanpc
          BY <1>3, <3>1, FifoShape DEF Chan!Exit, Chan!Leave, FifoRight, FifoServerRight
        <4>2. /\ chanstate' = [chanstate EXCEPT ![0] = "exited"] /\ chanstate[0] = "running"
              /\ readers' = [ch \in Chan!Channels |-> readers[ch] \ {0}]
              /\ writers' = [ch \in Chan!Channels |-> writers[ch] \ {0}]
          BY <1>3, <3>1 DEF Chan!Exit, Chan!Leave
        <4>3. /\ 0 \in Chan!Processes /\ "c2s" \in Chan!Channels /\ "s2c" \in Chan!Channels
              /\ DOMAIN chanstate = Chan!Processes
          BY FifoShape
        <4>4. chanpc[0] = 11 /\ chanpc'[0] = 11 /\ chanstate'[0] = "exited"
          BY <4>1, <4>2, <4>3
        <4>5. QED
          BY <4>2, <4>3, <4>4
      <3>2. CASE Chan!Close(p)
        <4>1. PICK ch \in Chan!Channels :
                \/ /\ Chan!Calls(0, "close_r", ch)
                   /\ readers' = [readers EXCEPT ![ch] = @ \ {0}] /\ writers' = writers
                \/ /\ Chan!Calls(0, "close_w", ch)
                   /\ writers' = [writers EXCEPT ![ch] = @ \ {0}] /\ readers' = readers
          BY <1>3, <3>2 DEF Chan!Close
        <4>2. chanpc' = [chanpc EXCEPT ![0] = @ + 1] /\ chanstate' = chanstate
          BY <1>3, <3>2 DEF Chan!Close, Chan!Return
        <4>3. /\ chanstate[0] = "running"
              /\ \/ chanpc[0] = 7 /\ ch = "c2s" /\ Chan!Calls(0, "close_r", ch)
                 \/ chanpc[0] = 8 /\ ch = "s2c" /\ Chan!Calls(0, "close_w", ch)
          <5>1. ASSUME NEW call \in {"close_r", "close_w"}, Chan!Calls(0, call, ch)
                PROVE  FifoServerCall(chanpc[0], call, ch) /\ chanstate[0] = "running"
            <6>1. 0 \in Chan!Processes
              BY FifoShape
            <6>2. FifoCall(0, chanpc[0], call, ch) /\ chanstate[0] = "running"
              BY <5>1, <6>1, FifoCallsOf
            <6>3. QED
              BY <6>2 DEF FifoCall
          <5>2. QED
            BY <4>1, <5>1 DEF FifoServerCall
        <4>4. ~(Chan!Calls(0, "close_r", ch) /\ Chan!Calls(0, "close_w", ch))
          BY DEF Chan!Calls
        <4>5. QED
          BY <4>1, <4>2, <4>3, <4>4, FifoShape
      <3>3. QED
        BY <3>1, <3>2
    <2>2. \A c \in Clients : chanpc'[c] = chanpc[c] /\ chanstate'[c] = chanstate[c]
      BY <1>3, FifoShape DEF Chan!Close, Chan!Exit, Chan!Leave, Chan!Return
    <2>3. FifoServerRight'
      <3>1. FifoServerRight /\ chanpc'[1] = chanpc[1]
        BY <2>2, FifoShape DEF FifoRight
      <3>2. CASE /\ chanpc[0] = 7 /\ chanpc'[0] = 8 /\ chanstate'[0] = chanstate[0]
                 /\ readers'["c2s"] = readers["c2s"] \ {0} /\ writers' = writers
                 /\ readers'["s2c"] = readers["s2c"]
        BY <1>1, <2>1, <3>1, <3>2 DEF FifoServerRight
      <3>3. CASE /\ chanpc[0] = 8 /\ chanpc'[0] = 9 /\ chanstate'[0] = chanstate[0]
                 /\ writers'["s2c"] = writers["s2c"] \ {0} /\ readers' = readers
                 /\ writers'["c2s"] = writers["c2s"]
        BY <1>1, <2>1, <3>1, <3>3 DEF FifoServerRight
      <3>4. CASE /\ chanpc[0] = 11 /\ chanpc'[0] = 11 /\ chanstate'[0] = "exited"
                 /\ readers'["c2s"] = readers["c2s"] \ {0}
                 /\ readers'["s2c"] = readers["s2c"] \ {0}
                 /\ writers'["c2s"] = writers["c2s"] \ {0}
                 /\ writers'["s2c"] = writers["s2c"] \ {0}
        BY <1>1, <2>1, <3>1, <3>4 DEF FifoServerRight
      <3>5. QED
        BY <2>1, <3>2, <3>3, <3>4
    <2>4. ASSUME NEW c \in Clients PROVE FifoClientRight(c)'
      <3>1. /\ c \in writers'["c2s"] <=> c \in writers["c2s"]
            /\ c \in readers'["s2c"] <=> c \in readers["s2c"]
        BY <2>1, FifoShape
      <3>2. /\ chanpc[0] >= 4 => chanpc'[0] >= 4
            /\ chanpc[0] >= 5 => chanpc'[0] >= 5
            /\ chanpc[0] >= 8 => chanpc'[0] >= 8
        BY <2>1
      <3>3. QED
        BY <1>1, <2>2, <3>1, <3>2, ClientKept DEF FifoRight
    <2>5. Counted'
      BY <2>1 DEF Counted
    <2>6. AfterEnd'
      <3>1. chanpc[0] >= 7 /\ chanpc'[0] >= 7 /\ writers'["c2s"] \subseteq writers["c2s"]
        BY <2>1
      <3>2. content["s2c"] = <<>>
        BY <3>1 DEF FifoRight, AfterEnd
      <3>3. \A c \in Clients : taken'[c] = taken[c]
        BY <1>1
      <3>4. QED
        BY <1>2, <3>1, <3>2, <3>3, AfterKept DEF FifoRight
    <2>7. QED
      BY <1>1, <2>3, <2>4, <2>5, <2>6 DEF FifoRight
  <1>4. CASE p # 0
    <2>1. /\ p \in Clients /\ chanstate[p] = "running"
          /\ chanpc[p] >= 2 * Asks(p) + 3 /\ chanpc'[p] >= 2 * Asks(p) + 4
          /\ chanpc'[p] \in Nat
          /\ chanstate'[p] \in {"running", "exited"}
          /\ p \notin writers'["c2s"]
          /\ p \in readers'["s2c"] => p \in readers["s2c"]
      <3>1. p \in Clients /\ Asks(p) \in Nat /\ chanpc[p] \in Nat
        BY <1>4, FifoShape
      <3>2. CASE Chan!Exit(p)
        <4>1. chanpc[p] > 2 * Asks(p) + 4 /\ chanpc' = chanpc
          BY <3>1, <3>2, FifoShape DEF Chan!Exit, Chan!Leave
        <4>2. QED
          BY <3>1, <3>2, <4>1, FifoShape DEF Chan!Exit, Chan!Leave
      <3>3. CASE Chan!Close(p)
        <4>1. PICK ch \in Chan!Channels :
                \/ /\ Chan!Calls(p, "close_r", ch)
                   /\ readers' = [readers EXCEPT ![ch] = @ \ {p}] /\ writers' = writers
                \/ /\ Chan!Calls(p, "close_w", ch)
                   /\ writers' = [writers EXCEPT ![ch] = @ \ {p}] /\ readers' = readers
          BY <3>3 DEF Chan!Close
        <4>2. chanpc'[p] = chanpc[p] + 1 /\ chanstate' = chanstate
          BY <3>3, FifoShape DEF Chan!Close, Chan!Return
        <4>3. CASE /\ Chan!Calls(p, "close_r", ch)
                   /\ readers' = [readers EXCEPT ![ch] = @ \ {p}] /\ writers' = writers
          <5>1. chanpc[p] = 2 * Asks(p) + 4 /\ ch = "s2c" /\ chanstate[p] = "running"
            <6>1. FifoCall(p, chanpc[p], "close_r", ch) /\ chanstate[p] = "running"
              BY <4>3, FifoCallsOf
            <6>2. QED
              BY <1>4, <6>1 DEF FifoCall, FifoClientCall
          <5>2. p \notin writers["c2s"]
            BY <3>1, <5>1 DEF FifoRight, FifoClientRight
          <5>3. /\ chanpc[p] >= 2 * Asks(p) + 3 /\ chanpc'[p] >= 2 * Asks(p) + 4
                /\ chanpc'[p] \in Nat
            BY <3>1, <4>2, <5>1
          <5>4. p \in readers'["s2c"] => p \in readers["s2c"]
            BY <4>3, <5>1, FifoShape
          <5>5. QED
            BY <3>1, <4>2, <4>3, <5>1, <5>2, <5>3, <5>4
        <4>4. CASE /\ Chan!Calls(p, "close_w", ch)
                   /\ writers' = [writers EXCEPT ![ch] = @ \ {p}] /\ readers' = readers
          <5>1. chanpc[p] = 2 * Asks(p) + 3 /\ ch = "c2s" /\ chanstate[p] = "running"
            <6>1. FifoCall(p, chanpc[p], "close_w", ch) /\ chanstate[p] = "running"
              BY <4>4, FifoCallsOf
            <6>2. QED
              BY <1>4, <6>1 DEF FifoCall, FifoClientCall
          <5>2. /\ chanpc[p] >= 2 * Asks(p) + 3 /\ chanpc'[p] >= 2 * Asks(p) + 4
                /\ chanpc'[p] \in Nat
            BY <3>1, <4>2, <5>1
          <5>3. p \notin writers'["c2s"]
            BY <4>4, <5>1, FifoShape
          <5>4. QED
            BY <3>1, <4>2, <4>4, <5>1, <5>2, <5>3
        <4>5. QED
          BY <4>1, <4>3, <4>4
      <3>4. QED
        BY <3>2, <3>3
    <2>2. /\ \A q \in Chan!Processes : q # p =>
               /\ chanpc'[q] = chanpc[q] /\ chanstate'[q] = chanstate[q]
               /\ \A ch \in Chan!Channels :
                    /\ q \in writers'[ch] <=> q \in writers[ch]
                    /\ q \in readers'[ch] <=> q \in readers[ch]
          /\ \A ch \in Chan!Channels :
               readers'[ch] \subseteq readers[ch] /\ writers'[ch] \subseteq writers[ch]
      <3>1. CASE Chan!Exit(p)
        BY <3>1, FifoShape DEF Chan!Exit, Chan!Leave
      <3>2. CASE Chan!Close(p)
        <4>1. PICK ch \in Chan!Channels :
                \/ readers' = [readers EXCEPT ![ch] = @ \ {p}] /\ writers' = writers
                \/ writers' = [writers EXCEPT ![ch] = @ \ {p}] /\ readers' = readers
          BY <3>2 DEF Chan!Close
        <4>2. chanpc' = [chanpc EXCEPT ![p] = @ + 1] /\ chanstate' = chanstate
          BY <3>2 DEF Chan!Close, Chan!Return
        <4>3. DOMAIN readers = Chan!Channels /\ DOMAIN writers = Chan!Channels
          BY FifoShape
        <4>4. \A c \in Chan!Channels :
                /\ readers'[c] \in {readers[c], readers[c] \ {p}}
                /\ writers'[c] \in {writers[c], writers[c] \ {p}}
          BY <4>1, <4>3
        <4>5. \A q \in Chan!Processes : q # p =>
                \A c \in Chan!Channels :
                  /\ q \in writers'[c] <=> q \in writers[c]
                  /\ q \in readers'[c] <=> q \in readers[c]
          BY ONLY <4>4
        <4>6. \A c \in Chan!Channels :
                readers'[c] \subseteq readers[c] /\ writers'[c] \subseteq writers[c]
          BY ONLY <4>4
        <4>7. \A q \in Chan!Processes : q # p =>
                chanpc'[q] = chanpc[q] /\ chanstate'[q] = chanstate[q]
          BY <4>2, FifoShape
        <4>8. QED
          BY <4>5, <4>6, <4>7
      <3>3. QED
        BY <3>1, <3>2
    <2>3. /\ chanpc'[0] = chanpc[0] /\ chanstate'[0] = chanstate[0]
          /\ 0 \in readers'["c2s"] <=> 0 \in readers["c2s"]
          /\ 0 \in writers'["s2c"] <=> 0 \in writers["s2c"]
          /\ 0 \notin writers'["c2s"] /\ 0 \notin readers'["s2c"]
          /\ readers'["c2s"] \subseteq {0} /\ writers'["s2c"] \subseteq {0}
          /\ chanpc'[1] >= chanpc[1]
      <3>1. chanpc'[1] >= chanpc[1]
        <4>1. 1 \in Chan!Processes /\ chanpc[1] \in Nat /\ chanpc \in [Chan!Processes -> Nat \ {0}]
          BY FifoShape
        <4>2. chanpc' = chanpc \/ chanpc' = [chanpc EXCEPT ![p] = @ + 1]
          BY DEF Chan!Close, Chan!Exit, Chan!Return, Chan!Leave
        <4>3. QED
          BY ONLY <4>1, <4>2
      <3>2. QED
        BY <1>4, <2>2, <3>1, FifoShape DEF FifoRight, FifoServerRight
    <2>4. FifoServerRight'
      <3>1. chanpc'[1] \in Nat /\ chanpc[1] \in Nat
        BY <2>1, <2>2, FifoShape
      <3>2. chanpc[1] >= 2 => chanpc'[1] >= 2
        BY <2>3, <3>1
      <3>3. QED
        BY <1>1, <2>3, <3>2 DEF FifoRight, FifoServerRight
    <2>5. ASSUME NEW c \in Clients PROVE FifoClientRight(c)'
      <3>1. CASE c # p
        BY <1>1, <2>2, <2>3, <3>1, FifoShape, ClientKept DEF FifoRight
      <3>2. CASE c = p
        <4>1. /\ p \notin writers'["c2s"] /\ chanstate'[p] # "opening"
              /\ chanpc'[p] > 2 * Asks(p) + 3 /\ chanpc'[p] >= 4
          <5>1. Asks(p) \in Nat
            BY <2>1, FifoShape
          <5>2. \A a, k \in Nat : k >= 2 * a + 4 => k > 2 * a + 3 /\ k >= 4
            OBVIOUS
          <5>3. chanpc'[p] > 2 * Asks(p) + 3 /\ chanpc'[p] >= 4
            BY <2>1, <5>1, <5>2
          <5>4. QED
            BY <2>1, <5>3
        <4>2. p \in readers["s2c"] => chanpc[0] >= 5
          <5>1. FifoClientRight(p) /\ chanstate[p] = "running"
            BY <2>1 DEF FifoRight
          <5>2. p \in readers["s2c"] => chanpc[0] >= 5
            BY <5>1 DEF FifoClientRight
          <5>3. QED
            BY <5>2
        <4>3. sent'[p] > 0 => chanpc'[0] >= 4
          <5>1. FifoClientRight(p) /\ sent'[p] = sent[p]
            BY <1>1, <2>1 DEF FifoRight
          <5>2. sent[p] > 0 => chanpc[0] >= 4
            BY <5>1 DEF FifoClientRight
          <5>3. QED
            BY <2>3, <5>1, <5>2
        <4>4. Asks(p) \in Nat /\ chanpc'[0] >= chanpc[0] /\ chanpc[0] \in Nat /\ chanpc'[0] \in Nat
          BY <2>1, <2>3, FifoShape
        <4>5. p \in readers'["s2c"] => chanpc'[0] >= 5 /\ chanpc'[p] >= 3
          BY <2>1, <4>1, <4>2, <4>4
        <4>6. ~(chanpc'[p] <= 3) /\ ~(chanpc'[p] <= 2 * Asks(p) + 3)
          BY <2>1, <4>1, <4>4
        <4>7. FifoClientRight(p)'
          BY <4>1, <4>3, <4>5, <4>6 DEF FifoClientRight, Asks
        <4>8. QED
          BY <3>2, <4>7
      <3>3. QED
        BY <3>1, <3>2
    <2>6. chanpc[0] <= 6 =>
            content'["c2s"] = content["c2s"] /\ content'["s2c"] = content["s2c"]
      BY <1>2, <2>3, FifoHeld
    <2>7. Counted'
      <3>1. ASSUME NEW c \in Clients, chanpc[0] <= 6, c \in ReadsNext
            PROVE  c \in ReadsNext' \/ sent[c] <= Len(taken[c])
        <4>1. c # p
          BY <2>1, <3>1, FifoShape DEF ReadsNext
        <4>2. QED
          BY <1>1, <2>2, <3>1, <4>1, FifoShape DEF ReadsNext, Asks
      <3>2. QED
        BY <1>1, <2>3, <2>6, <3>1, CountedKept DEF FifoRight
    <2>8. AfterEnd'
      <3>1. CASE chanpc[0] >= 7
        BY <1>1, <1>2, <2>2, <2>3, <3>1, FifoShape, AfterKept DEF FifoRight, AfterEnd
      <3>2. CASE ~(chanpc[0] >= 7)
        BY <2>3, <3>2 DEF AfterEnd
      <3>3. QED
        BY <3>1, <3>2
    <2>9. QED
      BY <1>1, <2>4, <2>5, <2>7, <2>8 DEF FifoRight
  <1>5. QED
    BY <1>3, <1>4

(* open: who waits in it, and who goes on.                                 *)
LEMMA FifoPlaces ==
  ASSUME Chan!TypeOK, IsFifo
  PROVE  /\ program.code[0][3][2] = "c2s" /\ program.code[0][4][2] = "s2c"
         /\ \A c \in Clients :
              program.code[c][1][2] = "c2s" /\ program.code[c][2][2] = "s2c"
  <1>1. program.code[0][3][2] = "c2s" /\ program.code[0][4][2] = "s2c"
    BY ProgramCodes, FifoServerCode DEF IsFifo
  <1>2. ASSUME NEW c \in Clients
        PROVE  program.code[c][1][2] = "c2s" /\ program.code[c][2][2] = "s2c"
    <2> DEFINE n == Asks(c)
    <2>1. program.code[c] = Chan!FifoClient(n)
      BY FifoShape, ProgramCodes DEF IsFifo, Asks
    <2>2. n \in Nat
      BY FifoShape
    <2> HIDE DEF n
    <2>3. /\ Chan!FifoClient(n)[1] = <<"open_w", "c2s">>
          /\ Chan!FifoClient(n)[2] = <<"open_r", "s2c">>
      BY <2>2, FifoClientCode
    <2>4. QED
      BY <2>1, <2>3
  <1>3. QED
    BY <1>1, <1>2

LEMMA OpenEndMoves ==
  ASSUME Chan!TypeOK, NEW p \in Chan!Processes, NEW ch, NEW peers,
         Chan!OpenEnd(p, ch, peers), chanstate[p] = "running"
  PROVE  \A q \in Chan!Processes :
           /\ \/ q \notin peers
              \/ chanstate[q] # "opening"
              \/ program.code[q][chanpc[q]][2] # ch
              \/ q # p /\ chanpc'[q] = chanpc[q] + 1 /\ chanstate'[q] = "running"
           /\ (q \in peers /\ chanstate[q] = "opening" => program.code[q][chanpc[q]][2] # ch)
                /\ q # p => chanpc'[q] = chanpc[q] /\ chanstate'[q] = chanstate[q]
           /\ q = p /\ peers = {} => chanpc'[q] = chanpc[q] /\ chanstate'[q] = "opening"
           /\ q = p /\ peers # {} => chanpc'[q] = chanpc[q] + 1 /\ chanstate'[q] = "running"
  BY DEF Chan!OpenEnd, Chan!TypeOK

LEMMA ServerOpens ==
  ASSUME Chan!TypeOK, IsFifo, program' = program, FifoRight,
         NEW i \in {3, 4}, chanpc[0] = i, chanstate[0] = "running",
         NEW peers, peers = IF i = 3 THEN writers["c2s"] ELSE readers["s2c"],
         Chan!OpenEnd(0, IF i = 3 THEN "c2s" ELSE "s2c", peers),
         readers' = IF i = 3 THEN [readers EXCEPT !["c2s"] = @ \cup {0}] ELSE readers,
         writers' = IF i = 4 THEN [writers EXCEPT !["s2c"] = @ \cup {0}] ELSE writers,
         UNCHANGED <<there, content, sent, taken>>
  PROVE  FifoRight'
  <1>1. Clients' = Clients /\ 1 \in Clients /\ 0 \in Chan!Processes /\ 0 \notin Clients
    BY FifoShape DEF Clients, Chan!Processes
  <1>2. /\ readers'["s2c"] = readers["s2c"] /\ writers'["c2s"] = writers["c2s"]
        /\ readers'["c2s"] = IF i = 3 THEN readers["c2s"] \cup {0} ELSE readers["c2s"]
        /\ writers'["s2c"] = IF i = 4 THEN writers["s2c"] \cup {0} ELSE writers["s2c"]
    BY FifoShape
  <1>3. ASSUME NEW q \in peers
        PROVE  /\ q \in Clients /\ chanpc[q] = i - 2 /\ chanstate[q] = "opening"
               /\ program.code[q][chanpc[q]][2] = IF i = 3 THEN "c2s" ELSE "s2c"
    <2>1. q \in Clients
      BY FifoShape DEF FifoRight, FifoServerRight
    <2>2. chanpc[q] = i - 2 /\ chanstate[q] = "opening"
      BY <2>1, FifoShape DEF FifoRight, FifoClientRight
    <2>3. QED
      BY <2>1, <2>2, FifoPlaces
  <1>4. ASSUME NEW q \in peers
        PROVE  chanpc'[q] = i - 1 /\ chanstate'[q] = "running"
    <2>1. q \in Chan!Processes
      BY <1>3, FifoShape
    <2>2. chanpc'[q] = chanpc[q] + 1 /\ chanstate'[q] = "running"
      BY <1>1, <1>3, <2>1, OpenEndMoves
    <2>3. QED
      BY <1>3, <2>2
  <1>5. ASSUME NEW q \in Clients, q \notin peers
        PROVE  chanpc'[q] = chanpc[q] /\ chanstate'[q] = chanstate[q]
    BY <1>1, <1>5, FifoShape, OpenEndMoves
  <1>6. /\ peers = {} => chanpc'[0] = i /\ chanstate'[0] = "opening"
        /\ peers # {} => chanpc'[0] = i + 1 /\ chanstate'[0] = "running"
    BY <1>1, OpenEndMoves
  <1>7. program = Chan!Fifo /\ chanpc'[0] >= 4 => chanpc'[1] >= 2
    <2> SUFFICES ASSUME program = Chan!Fifo, chanpc'[0] >= 4 PROVE chanpc'[1] >= 2
      OBVIOUS
    <2>1. CASE 1 \in peers
      <3>1. i = 3 => chanpc'[1] = 2
        BY <1>4, <2>1
      <3>2. i = 4 => chanpc'[1] = 3
        BY <1>4, <2>1
      <3>3. QED
        BY <3>1, <3>2
    <2>2. CASE 1 \notin peers
      <3>1. peers = {}
        BY <1>3, <2>2, FifoShape
      <3>2. chanpc[0] >= 4
        BY <1>6, <3>1
      <3>3. chanpc[1] >= 2
        BY <3>2 DEF FifoRight, FifoServerRight
      <3>4. QED
        BY <1>1, <1>5, <2>2, <3>3
    <2>3. QED
      BY <2>1, <2>2
  <1>8. FifoServerRight'
    <2>1. FifoServerRight
      BY DEF FifoRight
    <2>2. CASE i = 3
      BY <1>2, <1>6, <1>7, <2>1, <2>2 DEF FifoServerRight
    <2>3. CASE i = 4
      BY <1>2, <1>6, <1>7, <2>1, <2>3 DEF FifoServerRight
    <2>4. QED
      BY <2>2, <2>3
  <1>9. chanpc'[0] \in {i, i + 1} /\ i \in Nat
    BY <1>6
  <1>10. ASSUME NEW c \in Clients PROVE FifoClientRight(c)'
    <2>1. CASE c \notin peers
      BY <1>2, <1>5, <1>9, <2>1, ClientKept DEF FifoRight
    <2>2. CASE c \in peers /\ i = 3
      <3>1. /\ chanpc'[c] = 2 /\ chanstate'[c] = "running" /\ chanpc'[0] = 4
            /\ chanpc[c] = 1 /\ Asks(c) \in Nat /\ FifoClientRight(c)
        BY <1>3, <1>4, <1>6, <2>2, FifoShape DEF FifoRight
      <3>2. Len(taken[c]) = 0 /\ sent[c] = 0 /\ c \notin readers["s2c"]
        BY <3>1 DEF FifoClientRight
      <3>3. 2 \in 2..(2 * Asks(c) + 3)
        BY <3>1
      <3>4. QED
        BY <1>2, <3>1, <3>2, <3>3 DEF FifoClientRight, Asks
    <2>3. CASE c \in peers /\ i = 4
      <3>1. /\ chanpc'[c] = 3 /\ chanstate'[c] = "running" /\ chanpc'[0] = 5
            /\ chanpc[c] = 2 /\ Asks(c) \in Nat /\ FifoClientRight(c)
        BY <1>3, <1>4, <1>6, <2>3, FifoShape DEF FifoRight
      <3>2. Len(taken[c]) = 0 /\ sent[c] = 0 /\ c \in readers["s2c"]
        BY <2>3, <3>1 DEF FifoClientRight
      <3>3. 3 \in 2..(2 * Asks(c) + 3)
        BY <3>1
      <3>4. QED
        BY <1>2, <3>1, <3>2, <3>3 DEF FifoClientRight, Asks
    <2>4. QED
      BY <2>1, <2>2, <2>3
  <1>11. Counted'
    <2>1. ASSUME NEW c \in Clients, c \in ReadsNext PROVE c \in ReadsNext'
      <3>1. c \notin peers
        BY <1>3, <2>1, FifoShape DEF ReadsNext
      <3>2. QED
        BY <1>1, <1>5, <2>1, <3>1 DEF ReadsNext, Asks
    <2>2. /\ chanpc[0] <= 6 /\ chanpc'[0] # 6
          /\ content'["c2s"] = content["c2s"] /\ content'["s2c"] = content["s2c"]
      BY <1>9
    <2>3. QED
      BY <2>1, <2>2, CountedKept DEF FifoRight
  <1>12. AfterEnd'
    BY <1>9 DEF AfterEnd
  <1>13. QED
    BY <1>1, <1>8, <1>10, <1>11, <1>12 DEF FifoRight

(* A client's open, of either FIFO.                                        *)
LEMMA ClientOpens ==
  ASSUME Chan!TypeOK, Chan!TypeOK', IsFifo, program' = program, FifoRight,
         NEW p \in Clients, NEW i \in {1, 2}, chanpc[p] = i, chanstate[p] = "running",
         NEW peers, peers = IF i = 1 THEN readers["c2s"] ELSE writers["s2c"],
         Chan!OpenEnd(p, IF i = 1 THEN "c2s" ELSE "s2c", peers),
         readers' = IF i = 2 THEN [readers EXCEPT !["s2c"] = @ \cup {p}] ELSE readers,
         writers' = IF i = 1 THEN [writers EXCEPT !["c2s"] = @ \cup {p}] ELSE writers,
         UNCHANGED <<there, content, sent, taken>>
  PROVE  FifoRight'
  <1>1. /\ Clients' = Clients /\ 0 \in Chan!Processes /\ 0 \notin Clients
        /\ p \in Chan!Processes /\ p # 0 /\ Asks(p) \in Nat
        /\ FifoServerRight /\ FifoClientRight(p) /\ peers \subseteq {0}
        /\ chanpc[0] \in 1..11
    BY FifoShape DEF Clients, Chan!Processes, FifoRight, FifoServerRight
  <1>2. /\ readers'["c2s"] = readers["c2s"] /\ writers'["s2c"] = writers["s2c"]
        /\ readers'["s2c"] = IF i = 2 THEN readers["s2c"] \cup {p} ELSE readers["s2c"]
        /\ writers'["c2s"] = IF i = 1 THEN writers["c2s"] \cup {p} ELSE writers["c2s"]
    BY FifoShape
  \* The server is let go if it waits for this end, and then stands before its next call.
  <1>3. \/ /\ chanpc[0] = i + 2 /\ chanstate[0] = "opening"
           /\ chanpc'[0] = i + 3 /\ chanstate'[0] = "running"
        \/ /\ ~(chanpc[0] = i + 2 /\ chanstate[0] = "opening")
           /\ chanpc'[0] = chanpc[0] /\ chanstate'[0] = chanstate[0]
    <2>1. CASE chanpc[0] = i + 2 /\ chanstate[0] = "opening"
      <3>1. 0 \in peers
        BY <1>1, <2>1 DEF FifoServerRight
      <3>2. program.code[0][chanpc[0]][2] = IF i = 1 THEN "c2s" ELSE "s2c"
        BY <2>1, FifoPlaces
      <3>3. chanpc'[0] = chanpc[0] + 1 /\ chanstate'[0] = "running"
        BY <1>1, <2>1, <3>1, <3>2, OpenEndMoves
      <3>4. QED
        BY <2>1, <3>3
    <2>2. CASE ~(chanpc[0] = i + 2 /\ chanstate[0] = "opening")
      <3>1. chanstate[0] = "opening" =>
              program.code[0][chanpc[0]][2] # IF i = 1 THEN "c2s" ELSE "s2c"
        <4>1. chanstate[0] = "opening" => chanpc[0] \in {3, 4} /\ chanpc[0] # i + 2
          BY <1>1, <2>2 DEF FifoServerRight
        <4>2. chanstate[0] = "opening" =>
                (i = 1 /\ chanpc[0] = 4) \/ (i = 2 /\ chanpc[0] = 3)
          BY <4>1
        <4>3. QED
          BY <4>2, FifoPlaces
      <3>2. chanpc'[0] = chanpc[0] /\ chanstate'[0] = chanstate[0]
        BY <1>1, <3>1, OpenEndMoves
      <3>3. QED
        BY <2>2, <3>2
    <2>3. QED
      BY <2>1, <2>2
  <1>4. /\ peers = {} => chanpc'[p] = i /\ chanstate'[p] = "opening"
        /\ peers # {} => chanpc'[p] = i + 1 /\ chanstate'[p] = "running"
    BY <1>1, OpenEndMoves
  <1>5. ASSUME NEW c \in Clients, c # p
        PROVE  chanpc'[c] = chanpc[c] /\ chanstate'[c] = chanstate[c]
    <2>1. c \in Chan!Processes /\ c \notin peers
      BY <1>1, FifoShape
    <2>2. QED
      BY <1>1, <1>5, <2>1, OpenEndMoves
  <1>6. /\ peers # {} => chanpc'[0] >= i + 3
        /\ chanpc'[0] >= chanpc[0] /\ (chanpc[0] >= 5 => chanpc'[0] = chanpc[0])
        /\ chanpc[0] <= 6 <=> chanpc'[0] <= 6
        /\ chanpc[0] = 6 <=> chanpc'[0] = 6
    <2>1. peers # {} => chanpc[0] >= i + 3 \/ (chanpc[0] = i + 2 /\ chanstate[0] = "opening")
      BY <1>1 DEF FifoServerRight
    <2>2. QED
      BY <1>1, <1>3, <2>1
  <1>7. program = Chan!Fifo /\ chanpc'[0] >= 4 => chanpc'[1] >= 2
    <2> SUFFICES ASSUME program = Chan!Fifo, chanpc'[0] >= 4 PROVE chanpc'[1] >= 2
      OBVIOUS
    <2>1. p = 1
      BY FifoShape
    <2>2. CASE i = 2
      BY <1>4, <2>1, <2>2
    <2>3. CASE i = 1
      <3>1. ~(chanpc[0] >= 4)
        BY <1>1, <2>1, <2>3 DEF FifoServerRight
      <3>2. chanpc[0] = 3 /\ chanstate[0] = "opening"
        BY <1>3, <2>3, <3>1
      <3>3. peers # {}
        BY <1>1, <2>3, <3>2 DEF FifoServerRight
      <3>4. QED
        BY <1>4, <2>1, <2>3, <3>3
    <2>4. QED
      BY <2>2, <2>3
  <1>8. FifoServerRight'
    <2>1. CASE i = 1
      BY <1>1, <1>2, <1>3, <1>7, <2>1 DEF FifoServerRight
    <2>2. CASE i = 2
      BY <1>1, <1>2, <1>3, <1>7, <2>2 DEF FifoServerRight
    <2>3. QED
      BY <2>1, <2>2
  <1>9. ASSUME NEW c \in Clients PROVE FifoClientRight(c)'
    <2>1. CASE c # p
      <3>1. /\ c \in writers'["c2s"] <=> c \in writers["c2s"]
            /\ c \in readers'["s2c"] <=> c \in readers["s2c"]
        BY <1>2, <2>1
      <3>2. /\ chanpc[0] >= 4 => chanpc'[0] >= 4
            /\ chanpc[0] >= 5 => chanpc'[0] >= 5
            /\ chanpc[0] >= 8 => chanpc'[0] >= 8
        BY <1>1, <1>3
      <3>3. QED
        BY <1>5, <2>1, <3>1, <3>2, ClientKept DEF FifoRight
    <2>2. CASE c = p /\ i = 1
      <3>1. Len(taken[p]) = 0 /\ sent[p] = 0 /\ p \notin readers["s2c"]
        BY <1>1, <2>2 DEF FifoClientRight
      <3>2. 2 \in 2..(2 * Asks(p) + 3)
        BY <1>1
      <3>3. peers # {} => chanpc'[0] >= 4
        BY <1>6, <2>2
      <3>4. QED
        BY <1>2, <1>4, <2>2, <3>1, <3>2, <3>3 DEF FifoClientRight, Asks
    <2>3. CASE c = p /\ i = 2
      <3>1. /\ Len(taken[p]) = 0 /\ sent[p] = 0
            /\ p \in writers["c2s"] => chanpc[0] >= 4
        BY <1>1, <2>3 DEF FifoClientRight
      <3>2. 2 \in 2..(2 * Asks(p) + 3) /\ 3 \in 2..(2 * Asks(p) + 3)
        BY <1>1
      <3>3. peers # {} => chanpc'[0] >= 5
        BY <1>6, <2>3
      <3>4. p \in writers["c2s"] => chanpc'[0] >= 4
        BY <1>1, <1>3, <2>3, <3>1
      <3>5. QED
        BY <1>2, <1>4, <2>3, <3>1, <3>2, <3>3, <3>4 DEF FifoClientRight, Asks
    <2>4. QED
      BY <2>1, <2>2, <2>3
  <1>10. Counted'
    <2>1. ASSUME NEW c \in Clients, c \in ReadsNext PROVE c \in ReadsNext'
      <3>1. c # p
        BY <2>1 DEF ReadsNext
      <3>2. QED
        BY <1>1, <1>5, <2>1, <3>1 DEF ReadsNext, Asks
    <2>2. /\ chanpc'[0] <= 6 => chanpc[0] <= 6 /\ (chanpc'[0] = 6 => chanpc[0] = 6)
          /\ content'["c2s"] = content["c2s"] /\ content'["s2c"] = content["s2c"]
      BY <1>6
    <2>3. QED
      BY <1>6, <2>1, <2>2, CountedKept DEF FifoRight
  <1>11. AfterEnd'
    <2> SUFFICES ASSUME chanpc'[0] >= 7 PROVE AfterEnd'
      BY DEF AfterEnd
    <2>1. chanpc[0] >= 7
      BY <1>1, <1>3
    <2>2. LateOnes \subseteq LateOnes'
      BY LateStays
    <2>3. AfterEnd
      BY DEF FifoRight
    <2>4. i = 1 => p \in LateOnes'
      <3> SUFFICES ASSUME i = 1 PROVE p \in LateOnes'
        OBVIOUS
      <3>1. Len(taken[p]) = 0
        BY <1>1 DEF FifoClientRight
      <3>2. taken[p] = <<>>
        BY <1>1, <3>1, MessageTypes, EmptySeq
      <3>3. program # Chan!Fifo
        BY <1>1, <2>1, FifoShape DEF FifoServerRight
      <3>4. program' = Chan!FifoOfTwo
        BY <3>3 DEF IsFifo
      <3>5. QED
        BY <1>1, <3>2, <3>4, OutSame DEF LateOnes
    <2>5. writers'["c2s"] \subseteq LateOnes'
      BY <1>2, <2>1, <2>2, <2>3, <2>4 DEF AfterEnd
    <2>6. QED
      BY <2>1, <2>2, <2>3, <2>5 DEF AfterEnd
  <1>12. QED
    BY <1>1, <1>8, <1>9, <1>10, <1>11 DEF FifoRight

LEMMA FifoOpens ==
  ASSUME Chan!TypeOK, Chan!TypeOK', IsFifo, program' = program, FifoRight,
         NEW p \in Chan!Processes, Chan!Open(p)
  PROVE  FifoRight'
  <1> USE DEF Chan!data
  <1>1. PICK ch \in there :
          \/ /\ Chan!Calls(p, "open_r", ch)
             /\ readers' = [readers EXCEPT ![ch] = @ \cup {p}]
             /\ Chan!OpenEnd(p, ch, writers[ch]) /\ writers' = writers
          \/ /\ Chan!Calls(p, "open_w", ch)
             /\ writers' = [writers EXCEPT ![ch] = @ \cup {p}]
             /\ Chan!OpenEnd(p, ch, readers[ch]) /\ readers' = readers
    BY DEF Chan!Open
  <1>2. UNCHANGED <<there, content, sent, taken>>
    BY DEF Chan!Open
  <1>3. CASE p = 0
    <2>1. CASE /\ Chan!Calls(p, "open_r", ch)
               /\ readers' = [readers EXCEPT ![ch] = @ \cup {p}]
               /\ Chan!OpenEnd(p, ch, writers[ch]) /\ writers' = writers
      <3>1. chanpc[0] = 3 /\ ch = "c2s" /\ chanstate[0] = "running"
        BY <1>3, <2>1, FifoCallsOf DEF FifoCall, FifoServerCall
      <3>2. QED
        BY <1>2, <1>3, <2>1, <3>1, ServerOpens
    <2>2. CASE /\ Chan!Calls(p, "open_w", ch)
               /\ writers' = [writers EXCEPT ![ch] = @ \cup {p}]
               /\ Chan!OpenEnd(p, ch, readers[ch]) /\ readers' = readers
      <3>1. chanpc[0] = 4 /\ ch = "s2c" /\ chanstate[0] = "running"
        BY <1>3, <2>2, FifoCallsOf DEF FifoCall, FifoServerCall
      <3>2. QED
        BY <1>2, <1>3, <2>2, <3>1, ServerOpens
    <2>3. QED
      BY <1>1, <2>1, <2>2
  <1>4. CASE p # 0
    <2>0. p \in Clients
      BY <1>4, FifoShape
    <2>1. CASE /\ Chan!Calls(p, "open_r", ch)
               /\ readers' = [readers EXCEPT ![ch] = @ \cup {p}]
               /\ Chan!OpenEnd(p, ch, writers[ch]) /\ writers' = writers
      <3>1. FifoCall(p, chanpc[p], "open_r", ch) /\ chanstate[p] = "running"
        BY <2>1, FifoCallsOf
      <3>2. chanpc[p] = 2 /\ ch = "s2c"
        BY <1>4, <3>1 DEF FifoCall, FifoClientCall
      <3> DEFINE i == 2
                 peers == writers["s2c"]
      <3>3. /\ i \in {1, 2} /\ chanpc[p] = i
            /\ peers = IF i = 1 THEN readers["c2s"] ELSE writers["s2c"]
            /\ Chan!OpenEnd(p, IF i = 1 THEN "c2s" ELSE "s2c", peers)
            /\ readers' = IF i = 2 THEN [readers EXCEPT !["s2c"] = @ \cup {p}] ELSE readers
            /\ writers' = IF i = 1 THEN [writers EXCEPT !["c2s"] = @ \cup {p}] ELSE writers
        BY <2>1, <3>2
      <3> HIDE DEF i, peers
      <3>4. QED
        BY <1>2, <2>0, <3>1, <3>3, ClientOpens
    <2>2. CASE /\ Chan!Calls(p, "open_w", ch)
               /\ writers' = [writers EXCEPT ![ch] = @ \cup {p}]
               /\ Chan!OpenEnd(p, ch, readers[ch]) /\ readers' = readers
      <3>1. FifoCall(p, chanpc[p], "open_w", ch) /\ chanstate[p] = "running"
        BY <2>2, FifoCallsOf
      <3>2. chanpc[p] = 1 /\ ch = "c2s"
        BY <1>4, <3>1 DEF FifoCall, FifoClientCall
      <3> DEFINE i == 1
                 peers == readers["c2s"]
      <3>3. /\ i \in {1, 2} /\ chanpc[p] = i
            /\ peers = IF i = 1 THEN readers["c2s"] ELSE writers["s2c"]
            /\ Chan!OpenEnd(p, IF i = 1 THEN "c2s" ELSE "s2c", peers)
            /\ readers' = IF i = 2 THEN [readers EXCEPT !["s2c"] = @ \cup {p}] ELSE readers
            /\ writers' = IF i = 1 THEN [writers EXCEPT !["c2s"] = @ \cup {p}] ELSE writers
        BY <2>2, <3>2
      <3> HIDE DEF i, peers
      <3>4. QED
        BY <1>2, <2>0, <3>1, <3>3, ClientOpens
    <2>3. QED
      BY <1>1, <2>1, <2>2
  <1>5. QED
    BY <1>3, <1>4

(* A call of a client that fails, or whose read sees the end: it goes on.  *)
LEMMA ClientGoesOn ==
  ASSUME Chan!TypeOK, IsFifo, program' = program, FifoRight,
         NEW p \in Clients, chanstate[p] = "running", chanpc[p] \in 1..(2 * Asks(p) + 2),
         chanpc[p] = 2 /\ p \in writers["c2s"] => chanpc[0] >= 8,
         p \in ReadsNext /\ chanpc[0] <= 6 => sent[p] <= Len(taken[p]),
         chanpc' = [chanpc EXCEPT ![p] = @ + 1],
         UNCHANGED <<chanstate, there, readers, writers, content, sent, taken>>
  PROVE  FifoRight'
  <1>1. /\ Clients' = Clients /\ p \in Chan!Processes /\ p # 0 /\ Asks(p) \in Nat
        /\ FifoServerRight /\ FifoClientRight(p) /\ 1 \in Clients
        /\ chanpc[p] \in Nat \ {0} /\ sent[p] \in Nat
    BY FifoShape DEF Clients, Chan!Processes, FifoRight
  <1>2. /\ chanpc'[p] = chanpc[p] + 1 /\ chanpc'[0] = chanpc[0]
        /\ \A c \in Clients : c # p => chanpc'[c] = chanpc[c]
    BY <1>1, FifoShape
  <1>3. FifoServerRight'
    <2>1. chanpc[1] >= 2 => chanpc'[1] >= 2
      BY <1>1, <1>2
    <2>2. QED
      BY <1>1, <1>2, <2>1 DEF FifoServerRight
  <1>4. ASSUME NEW c \in Clients PROVE FifoClientRight(c)'
    <2>1. CASE c # p
      BY <1>2, <2>1, ClientKept DEF FifoRight
    <2>2. CASE c = p
      <3>1. chanpc[p] = 1 => p \notin writers["c2s"] /\ p \notin readers["s2c"]
        BY <1>1 DEF FifoClientRight
      <3>2. chanpc[p] = 2 => p \notin readers["s2c"]
        BY <1>1 DEF FifoClientRight
      <3>3. chanpc[p] <= 3 => Len(taken[p]) = 0 /\ sent[p] = 0
        BY <1>1 DEF FifoClientRight
      <3>4. chanpc'[p] \in 2..(2 * Asks(p) + 3) /\ (chanpc'[p] <= 3 => chanpc[p] <= 3)
        BY <1>1, <1>2
      <3>5. sent[p] > 0 => p \in writers["c2s"]
        BY <1>1 DEF FifoClientRight
      <3>6. p \in writers["c2s"] => chanpc[0] >= 4
        BY <1>1 DEF FifoClientRight
      <3>7. p \in readers["s2c"] => chanpc'[p] >= 3 /\ chanpc[0] >= 5
        BY <1>1, <1>2 DEF FifoClientRight
      <3>8. p \in writers["c2s"] /\ chanpc'[p] >= 3 /\ p \notin readers["s2c"] => chanpc[0] >= 8
        BY <1>1, <1>2, <3>1 DEF FifoClientRight
      <3>9. sent[p] > 0 => chanpc[0] >= 4
        BY <1>1 DEF FifoClientRight
      <3>10. Asks(p)' = Asks(p)
        BY DEF Asks
      <3>11. QED
        BY <1>2, <2>2, <3>3, <3>4, <3>5, <3>6, <3>7, <3>8, <3>9, <3>10 DEF FifoClientRight
    <2>3. QED
      BY <2>1, <2>2
  <1>5. Counted'
    <2>1. ASSUME NEW c \in Clients, chanpc[0] <= 6, c \in ReadsNext
          PROVE  c \in ReadsNext' \/ sent[c] <= Len(taken[c])
      BY <1>1, <1>2, <2>1 DEF ReadsNext, Asks
    <2>2. QED
      BY <1>2, <2>1, CountedKept DEF FifoRight
  <1>6. AfterEnd'
    <2>1. CASE chanpc[0] >= 7
      <3>1. AfterEnd /\ content["s2c"] = <<>>
        BY <2>1 DEF FifoRight, AfterEnd
      <3>2. QED
        BY <1>2, <2>1, <3>1, AfterKept
    <2>2. CASE ~(chanpc[0] >= 7)
      BY <1>2, <2>2 DEF AfterEnd
    <2>3. QED
      BY <2>1, <2>2
  <1>7. QED
    BY <1>1, <1>3, <1>4, <1>5, <1>6 DEF FifoRight

LEMMA FifoOpenFails ==
  ASSUME Chan!TypeOK, IsFifo, program' = program, FifoRight,
         NEW p \in Chan!Processes, Chan!OpenFails(p)
  PROVE  FifoRight'
  <1> USE DEF Chan!held, Chan!data
  <1>1. PICK ch \in Chan!Named \ there, call \in {"open_r", "open_w"} : Chan!Calls(p, call, ch)
    BY DEF Chan!OpenFails
  <1>2. FifoCall(p, chanpc[p], call, ch) /\ chanstate[p] = "running"
    BY <1>1, FifoCallsOf
  <1>3. p # 0
    <2>1. p = 0 => (chanpc[0] = 3 /\ ch = "c2s") \/ (chanpc[0] = 4 /\ ch = "s2c")
      BY <1>2 DEF FifoCall, FifoServerCall
    <2>2. QED
      BY <1>1, <2>1 DEF FifoRight, FifoServerRight
  <1>4. p \in Clients /\ Asks(p) \in Nat /\ FifoServerRight /\ FifoClientRight(p)
    BY <1>3, FifoShape DEF FifoRight
  <1>5. (chanpc[p] = 1 /\ ch = "c2s") \/ (chanpc[p] = 2 /\ ch = "s2c")
    BY <1>2, <1>3 DEF FifoCall, FifoClientCall
  <1>6. chanpc[p] = 2 /\ p \in writers["c2s"] => chanpc[0] >= 8
    <2>1. chanpc[p] = 2 => chanpc[0] \notin 3..10 /\ chanpc[0] \in 1..11
      BY <1>1, <1>4, <1>5 DEF FifoServerRight
    <2>2. chanpc[p] = 2 /\ p \in writers["c2s"] => chanpc[0] >= 4
      BY <1>4 DEF FifoClientRight
    <2>3. QED
      BY <2>1, <2>2
  <1>7. chanpc[p] \in 1..(2 * Asks(p) + 2) /\ p \notin ReadsNext
    BY <1>4, <1>5 DEF ReadsNext
  <1>8. /\ chanpc' = [chanpc EXCEPT ![p] = @ + 1]
        /\ UNCHANGED <<chanstate, there, readers, writers, content, sent, taken>>
    BY DEF Chan!OpenFails, Chan!Return
  <1>9. QED
    BY <1>2, <1>4, <1>6, <1>7, <1>8, ClientGoesOn

LEMMA FifoReadsNothing ==
  ASSUME Chan!TypeOK, IsFifo, program' = program, FifoRight,
         NEW p \in Clients, Chan!ReadEnd(p) \/ Chan!ReadFails(p)
  PROVE  FifoRight'
  <1> USE DEF Chan!held, Chan!data
  <1>1. PICK ch \in Chan!Channels, call \in Chan!ReadCalls :
          /\ Chan!Calls(p, call, ch)
          /\ \/ p \notin readers[ch]
             \/ p \in readers[ch] /\ writers[ch] = {} /\ content[ch] = <<>>
    BY DEF Chan!ReadEnd, Chan!ReadFails, Chan!CallsRead
  <1>2. p \in Chan!Processes /\ p # 0 /\ Asks(p) \in Nat /\ FifoServerRight /\ FifoClientRight(p)
        /\ chanpc[p] \in Nat /\ sent[p] \in Nat /\ Len(taken[p]) \in Nat
    BY FifoShape DEF FifoRight
  <1>3. FifoCall(p, chanpc[p], call, ch) /\ chanstate[p] = "running"
    BY <1>1, <1>2, FifoCallsOf
  <1>4. /\ call = "read" /\ ch = "s2c" /\ chanpc[p] \in 3..(2 * Asks(p) + 2)
        /\ chanpc[p] % 2 # 1
    BY <1>2, <1>3 DEF FifoCall, FifoClientCall, Chan!ReadCalls
  <1>5. /\ chanpc' = [chanpc EXCEPT ![p] = @ + 1]
        /\ UNCHANGED <<chanstate, there, readers, writers, content, sent, taken>>
    <2>1. CASE Chan!ReadFails(p)
      BY <2>1 DEF Chan!ReadFails, Chan!Return
    <2>2. CASE Chan!ReadEnd(p)
      <3>1. \A x : ~Chan!Calls(p, "read_one", x) /\ ~Chan!Calls(p, "receive", x)
        BY <1>1, <1>4 DEF Chan!Calls
      <3>2. QED
        BY <2>2, <3>1 DEF Chan!ReadEnd
    <2>3. QED
      BY <2>1, <2>2
  \* Who has sent has its end, and the server that writes has the other.
  <1>6. sent[p] > 0 => chanpc[0] > 6
    <2> SUFFICES ASSUME sent[p] > 0 PROVE chanpc[0] > 6
      OBVIOUS
    <2>1. p \in writers["c2s"]
      BY <1>2, <1>4 DEF FifoClientRight
    <2>2. CASE p \notin readers["s2c"]
      <3>1. chanpc[p] >= 3
        BY <1>2, <1>4
      <3>2. p \in writers["c2s"] /\ chanpc[p] >= 3 /\ p \notin readers["s2c"] => chanpc[0] >= 8
        BY <1>2 DEF FifoClientRight
      <3>3. chanpc[0] \in 1..11 /\ chanpc[0] >= 8
        BY <1>2, <2>1, <2>2, <3>1, <3>2 DEF FifoServerRight
      <3>4. QED
        BY <3>3
    <2>3. CASE p \in readers["s2c"] /\ writers["s2c"] = {}
      <3>1. chanpc[0] >= 5
        BY <1>2, <1>3, <2>3 DEF FifoClientRight
      <3>2. QED
        BY <1>2, <2>3, <3>1 DEF FifoServerRight
    <2>4. QED
      BY <1>1, <1>4, <2>2, <2>3
  <1>7. chanpc[p] \in 1..(2 * Asks(p) + 2) /\ chanpc[p] # 2
    BY <1>2, <1>4
  <1>8. p \in ReadsNext /\ chanpc[0] <= 6 => sent[p] <= Len(taken[p])
    <2>1. chanpc[0] \in 1..11
      BY <1>2 DEF FifoServerRight
    <2>2. chanpc[0] <= 6 => sent[p] = 0
      BY <1>2, <1>6, <2>1
    <2>3. QED
      BY <1>2, <2>2
  <1>9. QED
    BY <1>3, <1>5, <1>7, <1>8, ClientGoesOn

LEMMA FifoWriteFails ==
  ASSUME Chan!TypeOK, IsFifo, program' = program, FifoRight,
         NEW p \in Chan!Processes, Chan!WriteFails(p)
  PROVE  FifoRight'
  <1> USE DEF Chan!held, Chan!data
  <1>1. PICK ch \in Chan!Channels, call \in {"write", "respond", "send"} :
          Chan!Calls(p, call, ch) /\ p \notin writers[ch]
    BY DEF Chan!WriteFails, Chan!CallsWrite
  <1>2. FifoCall(p, chanpc[p], call, ch) /\ chanstate[p] = "running"
    BY <1>1, FifoCallsOf
  <1>3. p # 0
    <2>1. p = 0 => chanpc[0] = 6 /\ ch = "s2c"
      BY <1>2 DEF FifoCall, FifoServerCall
    <2>2. QED
      BY <1>1, <2>1 DEF FifoRight, FifoServerRight
  <1>4. p \in Clients /\ Asks(p) \in Nat /\ FifoClientRight(p) /\ chanpc[p] \in Nat
    BY <1>3, FifoShape DEF FifoRight
  <1>5. /\ call = "write" /\ ch = "c2s" /\ chanpc[p] \in 3..(2 * Asks(p) + 2)
        /\ chanpc[p] % 2 = 1
    BY <1>2, <1>3 DEF FifoCall, FifoClientCall
  <1>6. chanpc[p] \in 1..(2 * Asks(p) + 2) /\ chanpc[p] # 2 /\ p \notin ReadsNext
    BY <1>4, <1>5 DEF ReadsNext
  <1>7. /\ chanpc' = [chanpc EXCEPT ![p] = @ + 1]
        /\ UNCHANGED <<chanstate, there, readers, writers, content, sent, taken>>
    BY <1>1, <1>5 DEF Chan!WriteFails, Chan!Written, Chan!Calls
  <1>8. QED
    BY <1>2, <1>4, <1>6, <1>7, ClientGoesOn

(* The counts are numbers.                                                 *)
LEMMA CountTypes ==
  ASSUME Chan!TypeOK, IsFifo
  PROVE  /\ \A c \in {1, 2} : SentBy[c] \in Nat /\ TookBy[c] \in Nat
         /\ \A c \in Clients : SentBy[c] = sent[c] /\ TookBy[c] = Len(taken[c])
         /\ \A c \in {1, 2} \ Clients : SentBy[c] = 0 /\ TookBy[c] = 0
  <1>1. \A c \in Clients : sent[c] \in Nat /\ Len(taken[c]) \in Nat
    BY FifoShape
  <1>2. /\ \A c \in Clients : SentBy[c] = sent[c] /\ TookBy[c] = Len(taken[c])
        /\ \A c \in {1, 2} \ Clients : SentBy[c] = 0 /\ TookBy[c] = 0
    <2>1. Clients \subseteq {1, 2} /\ {1, 2} = 1..2
      BY FifoShape
    <2>2. \A c \in 1..2 :
            /\ SentBy[c] = IF c \in Clients THEN sent[c] ELSE 0
            /\ TookBy[c] = IF c \in Clients THEN Len(taken[c]) ELSE 0
      BY ONLY DEF SentBy, TookBy
    <2>3. QED
      BY <2>1, <2>2
  <1>3. QED
    BY <1>1, <1>2

LEMMA FifoServerWrites ==
  ASSUME Chan!TypeOK, Chan!TypeOK', IsFifo, program' = program, FifoRight,
         chanpc[0] = 6, chanstate[0] = "running", Wrote(0, "s2c"),
         chanpc' = [chanpc EXCEPT ![0] = 5],
         UNCHANGED <<chanstate, there, readers, writers>>
  PROVE  FifoRight'
  <1>1. /\ Clients' = Clients /\ 1 \in Clients /\ 0 \in Chan!Processes
        /\ "s2c" \in Chan!Channels /\ "c2s" \in Chan!Channels
        /\ FifoServerRight /\ taken' = taken
    BY FifoShape DEF Clients, Chan!Processes, FifoRight, Wrote
  <1>2. /\ Len(content'["s2c"]) = Len(content["s2c"]) + 1 /\ content'["c2s"] = content["c2s"]
        /\ sent'[0] = sent[0] + 1
        /\ \A c \in Clients : sent'[c] = sent[c]
    <2>1. /\ Len(content'["s2c"]) = Len(content["s2c"]) + 1
          /\ content'["c2s"] = content["c2s"]
          /\ sent'[0] = sent[0] + 1
          /\ \A q \in Chan!Processes : q # 0 => sent'[q] = sent[q]
      BY <1>1, WroteContent
    <2>2. \A c \in Clients : c \in Chan!Processes /\ c # 0
      BY FifoShape
    <2>3. QED
      BY <2>1, <2>2
  <1>3. chanpc'[0] = 5 /\ \A c \in Clients : chanpc'[c] = chanpc[c]
    BY FifoShape
  <1>4. FifoServerRight'
    BY <1>1, <1>3 DEF FifoServerRight
  <1>5. ASSUME NEW c \in Clients PROVE FifoClientRight(c)'
    BY <1>1, <1>2, <1>3, ClientKept DEF FifoRight
  <1>6. SentBy' = SentBy /\ TookBy' = TookBy /\ ReadsNext' = ReadsNext
    BY <1>1, <1>2, <1>3 DEF SentBy, TookBy, ReadsNext, Asks
  <1>7. /\ Len(taken[0]) + Len(content["c2s"]) = SentBy[1] + SentBy[2]
        /\ TookBy[1] + TookBy[2] + Len(content["s2c"]) = sent[0]
        /\ sent[0] < Len(taken[0])
        /\ \A c \in Clients :
             /\ sent[c] <= Len(taken[c]) + 1
             /\ c \notin ReadsNext => sent[c] <= Len(taken[c])
    <2>1. Counted /\ chanpc[0] <= 6
      BY DEF FifoRight
    <2>2. QED
      BY <2>1 DEF Counted
  <1>8. /\ TookBy[1] + TookBy[2] + Len(content'["s2c"]) = sent'[0]
        /\ sent'[0] <= Len(taken[0])
    <2>1. /\ TookBy[1] \in Nat /\ TookBy[2] \in Nat /\ Len(content["s2c"]) \in Nat
          /\ sent[0] \in Nat /\ Len(taken[0]) \in Nat
      BY FifoShape, CountTypes
    <2>2. TookBy[1] + TookBy[2] + (Len(content["s2c"]) + 1) = sent[0] + 1
      <3>1. TookBy[1] + TookBy[2] + Len(content["s2c"]) = sent[0]
        BY <1>7
      <3>2. QED
        BY ONLY <2>1, <3>1
    <2>3. sent[0] + 1 <= Len(taken[0])
      <3>1. sent[0] < Len(taken[0])
        BY <1>7
      <3>2. QED
        BY ONLY <2>1, <3>1
    <2>4. QED
      BY <1>2, <2>2, <2>3
  <1>9. Counted'
    <2>1. chanpc'[0] # 6
      BY <1>3
    <2>2. \A c \in Clients :
            /\ sent'[c] <= Len(taken'[c]) + 1
            /\ c \notin ReadsNext' => sent'[c] <= Len(taken'[c])
      BY <1>1, <1>2, <1>6, <1>7
    <2>3. /\ Len(taken'[0]) + Len(content'["c2s"]) = SentBy'[1] + SentBy'[2]
          /\ TookBy'[1] + TookBy'[2] + Len(content'["s2c"]) = sent'[0]
          /\ sent'[0] <= Len(taken'[0])
      BY <1>1, <1>2, <1>6, <1>7, <1>8
    <2>4. QED
      BY <1>1, <2>1, <2>2, <2>3 DEF Counted
  <1>10. AfterEnd'
    BY <1>3 DEF AfterEnd
  <1>11. QED
    BY <1>1, <1>4, <1>5, <1>9, <1>10 DEF FifoRight

LEMMA FifoClientWrites ==
  ASSUME Chan!TypeOK, Chan!TypeOK', IsFifo, program' = program, FifoRight,
         NEW p \in Clients, chanstate[p] = "running", p \in writers["c2s"],
         chanpc[p] \in 3..(2 * Asks(p) + 2), chanpc[p] % 2 = 1, Wrote(p, "c2s"),
         chanpc' = [chanpc EXCEPT ![p] = @ + 1],
         UNCHANGED <<chanstate, there, readers, writers>>
  PROVE  FifoRight'
  <1>1. /\ Clients' = Clients /\ 1 \in Clients /\ 0 \in Chan!Processes /\ 0 \notin Clients
        /\ p \in Chan!Processes /\ p # 0 /\ Asks(p) \in Nat /\ p \in {1, 2}
        /\ "s2c" \in Chan!Channels /\ "c2s" \in Chan!Channels
        /\ FifoServerRight /\ FifoClientRight(p) /\ taken' = taken
        /\ chanpc[p] \in Nat /\ sent[p] \in Nat
    BY FifoShape DEF Clients, Chan!Processes, FifoRight, Wrote
  <1>2. /\ Len(content'["c2s"]) = Len(content["c2s"]) + 1 /\ content'["s2c"] = content["s2c"]
        /\ sent'[p] = sent[p] + 1 /\ sent'[0] = sent[0]
        /\ \A c \in Clients : c # p => sent'[c] = sent[c]
    <2>1. \A q \in Chan!Processes : q # p => sent'[q] = sent[q]
      BY <1>1, WroteContent
    <2>2. \A c \in Clients : c \in Chan!Processes
      BY FifoShape
    <2>3. QED
      BY <1>1, <2>1, <2>2, WroteContent
  <1>3. /\ chanpc'[0] = chanpc[0] /\ chanpc'[p] = chanpc[p] + 1
        /\ \A c \in Clients : c # p => chanpc'[c] = chanpc[c]
    BY <1>1, FifoShape
  <1>4. FifoServerRight'
    <2>1. chanpc[1] >= 2 => chanpc'[1] >= 2
      BY <1>1, <1>3
    <2>2. QED
      BY <1>1, <1>2, <1>3, <2>1 DEF FifoServerRight
  <1>5. ASSUME NEW c \in Clients PROVE FifoClientRight(c)'
    <2>1. CASE c # p
      BY <1>1, <1>2, <1>3, <2>1, ClientKept DEF FifoRight
    <2>2. CASE c = p
      <3>1. /\ chanpc'[p] \in 2..(2 * Asks(p) + 3) /\ ~(chanpc'[p] <= 3)
            /\ chanpc[p] >= 3 /\ chanpc'[p] >= 3
        BY <1>1, <1>3
      <3>2. /\ chanpc[0] >= 4 /\ (p \notin readers["s2c"] => chanpc[0] >= 8)
            /\ p \in readers["s2c"] => chanpc[0] >= 5
        BY <1>1, <3>1 DEF FifoClientRight
      <3>3. Asks(p)' = Asks(p)
        BY DEF Asks
      <3>4. QED
        BY <1>3, <2>2, <3>1, <3>2, <3>3 DEF FifoClientRight
    <2>3. QED
      BY <2>1, <2>2
  <1>6. Counted'
    <2> SUFFICES ASSUME chanpc'[0] <= 6 PROVE Counted'
      BY DEF Counted
    <2>1. /\ Len(taken[0]) + Len(content["c2s"]) = SentBy[1] + SentBy[2]
          /\ TookBy[1] + TookBy[2] + Len(content["s2c"]) = sent[0]
          /\ sent[0] <= Len(taken[0])
          /\ chanpc[0] = 6 => sent[0] < Len(taken[0])
          /\ \A c \in Clients :
               /\ sent[c] <= Len(taken[c]) + 1
               /\ c \notin ReadsNext => sent[c] <= Len(taken[c])
      BY <1>3 DEF FifoRight, Counted
    <2>2. TookBy' = TookBy /\ \A c \in {1, 2} : c # p => SentBy'[c] = SentBy[c]
      BY <1>1, <1>2 DEF TookBy, SentBy
    <2>3. SentBy'[p] = SentBy[p] + 1
      BY <1>1, <1>2 DEF SentBy
    <2>4. Len(taken[0]) + Len(content'["c2s"]) = SentBy'[1] + SentBy'[2]
      <3>1. /\ Len(taken[0]) \in Nat /\ Len(content["c2s"]) \in Nat
            /\ SentBy[1] \in Nat /\ SentBy[2] \in Nat
        BY FifoShape, CountTypes
      <3>2. Len(taken[0]) + Len(content["c2s"]) = SentBy[1] + SentBy[2]
        BY <2>1
      <3> DEFINE left == Len(taken[0]) + (Len(content["c2s"]) + 1)
      <3>6. left = (SentBy[1] + 1) + SentBy[2] /\ left = SentBy[1] + (SentBy[2] + 1)
        <4>1. \A a, k \in Nat : a + (k + 1) = (a + k) + 1 /\ (a + 1) + k = (a + k) + 1
          OBVIOUS
        <4>2. left = (SentBy[1] + SentBy[2]) + 1
          BY <3>1, <3>2, <4>1
        <4>3. QED
          BY <3>1, <4>1, <4>2
      <3>7. Len(taken[0]) + Len(content'["c2s"]) = left
        BY <1>2
      <3> HIDE DEF left
      <3>3. CASE p = 1
        <4>1. SentBy'[1] = SentBy[1] + 1 /\ SentBy'[2] = SentBy[2]
          BY <2>2, <2>3, <3>3
        <4>2. QED
          BY <3>6, <3>7, <4>1
      <3>4. CASE p = 2
        <4>1. SentBy'[2] = SentBy[2] + 1 /\ SentBy'[1] = SentBy[1]
          BY <2>2, <2>3, <3>4
        <4>2. QED
          BY <3>6, <3>7, <4>1
      <3>5. QED
        BY <1>1, <3>3, <3>4
    <2>5. /\ p \notin ReadsNext /\ p \in ReadsNext'
          /\ \A c \in Clients : c # p => (c \in ReadsNext <=> c \in ReadsNext')
      <3>1. p \notin ReadsNext
        BY <1>1 DEF ReadsNext
      <3>2. chanpc'[p] \in 4..(2 * Asks(p) + 2) /\ chanpc'[p] % 2 # 1
        <4>1. \A k, n \in Nat : k \in 3..(2 * n + 2) /\ k % 2 = 1 =>
                k + 1 \in 4..(2 * n + 2) /\ (k + 1) % 2 # 1
          OBVIOUS
        <4>2. QED
          BY <1>1, <1>3, <4>1
      <3>3. QED
        BY <1>1, <1>3, <3>1, <3>2 DEF ReadsNext, Asks
    <2>6. ASSUME NEW c \in Clients
          PROVE  /\ sent'[c] <= Len(taken[c]) + 1
                 /\ c \notin ReadsNext' => sent'[c] <= Len(taken[c])
      <3>1. CASE c # p
        BY <1>2, <2>1, <2>5, <3>1
      <3>2. CASE c = p
        <4>1. sent[p] <= Len(taken[p]) /\ Len(taken[p]) \in Nat
          BY <1>1, <2>1, <2>5, FifoShape
        <4>2. sent[p] + 1 <= Len(taken[p]) + 1
          BY <1>1, <4>1
        <4>3. QED
          BY <1>2, <2>5, <3>2, <4>2
      <3>3. QED
        BY <3>1, <3>2
    <2>7. QED
      BY <1>1, <1>2, <1>3, <2>1, <2>2, <2>4, <2>6 DEF Counted
  <1>7. AfterEnd'
    <2> SUFFICES ASSUME chanpc'[0] >= 7 PROVE AfterEnd'
      BY DEF AfterEnd
    <2>1. /\ chanpc[0] >= 7 /\ content["s2c"] = <<>> /\ writers["c2s"] \subseteq LateOnes
          /\ \A i \in DOMAIN content["c2s"] : content["c2s"][i][1] \in LateOnes
      BY <1>3 DEF FifoRight, AfterEnd
    <2>2. LateOnes \subseteq LateOnes'
      BY <1>1, LateStays
    <2>3. ASSUME NEW i \in DOMAIN content'["c2s"]
          PROVE  content'["c2s"][i][1] \in LateOnes
      <3>1. \/ i \in DOMAIN content["c2s"] /\ content'["c2s"][i] = content["c2s"][i]
            \/ content'["c2s"][i] = <<p, sent[p] + 1>>
        BY <1>1, WrotePlaces
      <3>2. QED
        BY <2>1, <3>1
    <2>4. QED
      BY <1>2, <2>1, <2>2, <2>3 DEF AfterEnd
  <1>8. QED
    BY <1>1, <1>4, <1>5, <1>6, <1>7 DEF FifoRight

LEMMA FifoServerReads ==
  ASSUME Chan!TypeOK, Chan!TypeOK', IsFifo, program' = program, FifoRight,
         chanpc[0] = 5, chanstate[0] = "running", content["c2s"] # <<>>,
         Took(0, "c2s", Len(content["c2s"])),
         chanpc' = [chanpc EXCEPT ![0] = @ + 1],
         UNCHANGED <<chanstate, there, readers, writers>>
  PROVE  FifoRight'
  <1>1. /\ Clients' = Clients /\ 1 \in Clients /\ 0 \in Chan!Processes /\ 0 \notin Clients
        /\ "s2c" \in Chan!Channels /\ "c2s" \in Chan!Channels
        /\ FifoServerRight /\ sent' = sent
        /\ \A c \in Clients : c \in Chan!Processes /\ c # 0
    BY FifoShape DEF Clients, Chan!Processes, FifoRight, Took
  <1>2. /\ Len(content'["c2s"]) = 0 /\ content'["s2c"] = content["s2c"]
        /\ Len(taken'[0]) = Len(taken[0]) + Len(content["c2s"])
        /\ \A c \in Clients : taken'[c] = taken[c]
    <2>1. content'["c2s"] = <<>>
      BY <1>1, TookAll
    <2>2. QED
      BY <1>1, <2>1 DEF Took
  <1>3. chanpc'[0] = 6 /\ \A c \in Clients : chanpc'[c] = chanpc[c]
    BY FifoShape
  <1>4. FifoServerRight'
    BY <1>1, <1>3 DEF FifoServerRight
  <1>5. ASSUME NEW c \in Clients PROVE FifoClientRight(c)'
    BY <1>1, <1>2, <1>3, ClientKept DEF FifoRight
  <1>6. SentBy' = SentBy /\ TookBy' = TookBy /\ ReadsNext' = ReadsNext
    BY <1>1, <1>2, <1>3 DEF SentBy, TookBy, ReadsNext, Asks
  <1>7. Counted /\ chanpc[0] <= 6
    BY DEF FifoRight
  <1>8. /\ Len(taken'[0]) + Len(content'["c2s"]) = SentBy[1] + SentBy[2]
        /\ sent[0] < Len(taken'[0])
    <2>1. /\ Len(taken[0]) \in Nat /\ Len(content["c2s"]) \in Nat /\ sent[0] \in Nat
          /\ Len(content["c2s"]) # 0
      BY FifoShape, MessageTypes, EmptySeq
    <2>2. Len(taken[0]) + Len(content["c2s"]) = SentBy[1] + SentBy[2]
      BY <1>7 DEF Counted
    <2>3. sent[0] <= Len(taken[0])
      BY <1>7 DEF Counted
    <2>4. \A a, k, s \in Nat : (a + k) + 0 = a + k /\ (s <= a /\ k # 0 => s < a + k)
      OBVIOUS
    <2>5. QED
      BY <1>2, <2>1, <2>2, <2>3, <2>4
  <1>9. Counted'
    <2>1. \A c \in Clients :
            /\ sent'[c] <= Len(taken'[c]) + 1
            /\ c \notin ReadsNext' => sent'[c] <= Len(taken'[c])
      BY <1>1, <1>2, <1>6, <1>7 DEF Counted
    <2>2. /\ TookBy'[1] + TookBy'[2] + Len(content'["s2c"]) = sent'[0]
          /\ Len(taken'[0]) + Len(content'["c2s"]) = SentBy'[1] + SentBy'[2]
      BY <1>1, <1>2, <1>6, <1>7, <1>8 DEF Counted
    <2>3. sent'[0] < Len(taken'[0]) /\ sent'[0] <= Len(taken'[0])
      <3>1. sent'[0] \in Nat /\ Len(taken'[0]) \in Nat /\ sent'[0] < Len(taken'[0])
        <4>1. Len(taken[0]) \in Nat /\ Len(content["c2s"]) \in Nat /\ sent[0] \in Nat
          BY FifoShape
        <4>2. Len(taken[0]) + Len(content["c2s"]) \in Nat
          <5>1. \A a, k \in Nat : a + k \in Nat
            OBVIOUS
          <5>2. QED
            BY <4>1, <5>1
        <4>3. QED
          BY <1>1, <1>2, <1>8, <4>1, <4>2
      <3>2. QED
        BY <3>1
    <2>4. QED
      BY <1>1, <2>1, <2>2, <2>3 DEF Counted
  <1>10. AfterEnd'
    BY <1>3 DEF AfterEnd
  <1>11. QED
    BY <1>1, <1>4, <1>5, <1>9, <1>10 DEF FifoRight

LEMMA FifoClientReads ==
  ASSUME Chan!TypeOK, Chan!TypeOK', IsFifo, program' = program, FifoRight,
         NEW p \in Clients, chanstate[p] = "running", content["s2c"] # <<>>,
         p \in readers["s2c"],
         chanpc[p] \in 3..(2 * Asks(p) + 2), chanpc[p] % 2 # 1,
         Took(p, "s2c", Len(content["s2c"])),
         chanpc' = [chanpc EXCEPT ![p] = @ + 1],
         UNCHANGED <<chanstate, there, readers, writers>>
  PROVE  FifoRight'
  <1>1. /\ Clients' = Clients /\ 1 \in Clients /\ 0 \in Chan!Processes /\ 0 \notin Clients
        /\ p \in Chan!Processes /\ p # 0 /\ Asks(p) \in Nat /\ p \in {1, 2}
        /\ "s2c" \in Chan!Channels /\ "c2s" \in Chan!Channels
        /\ FifoServerRight /\ FifoClientRight(p) /\ sent' = sent
        /\ chanpc[p] \in Nat /\ sent[p] \in Nat
        /\ \A c \in Clients : c \in Chan!Processes /\ c # 0
    BY FifoShape DEF Clients, Chan!Processes, FifoRight, Took
  <1>2. /\ Len(content'["s2c"]) = 0 /\ content'["c2s"] = content["c2s"]
        /\ Len(taken'[p]) = Len(taken[p]) + Len(content["s2c"]) /\ taken'[0] = taken[0]
        /\ \A c \in Clients : c # p => taken'[c] = taken[c]
    <2>1. content'["s2c"] = <<>>
      BY <1>1, TookAll
    <2>2. QED
      BY <1>1, <2>1 DEF Took
  <1>3. /\ chanpc'[0] = chanpc[0] /\ chanpc'[p] = chanpc[p] + 1
        /\ \A c \in Clients : c # p => chanpc'[c] = chanpc[c]
    BY <1>1, FifoShape
  <1>4. chanpc[0] \in 1..6
    BY <1>1 DEF FifoRight, AfterEnd, FifoServerRight
  <1>5. FifoServerRight'
    <2>1. chanpc[1] >= 2 => chanpc'[1] >= 2
      BY <1>1, <1>3
    <2>2. QED
      BY <1>1, <1>2, <1>3, <2>1 DEF FifoServerRight
  <1>6. ASSUME NEW c \in Clients PROVE FifoClientRight(c)'
    <2>1. CASE c # p
      BY <1>1, <1>2, <1>3, <2>1, ClientKept DEF FifoRight
    <2>2. CASE c = p
      <3>1. /\ chanpc'[p] \in 2..(2 * Asks(p) + 3) /\ ~(chanpc'[p] <= 3)
            /\ chanpc[p] >= 3 /\ chanpc'[p] >= 3 /\ chanpc[p] <= 2 * Asks(p) + 3
        <4>1. \A k, n \in Nat : k \in 3..(2 * n + 2) /\ k % 2 # 1 =>
                /\ k + 1 \in 2..(2 * n + 3) /\ ~(k + 1 <= 3)
                /\ k >= 3 /\ k + 1 >= 3 /\ k <= 2 * n + 3
          OBVIOUS
        <4>2. QED
          BY <1>1, <1>3, <4>1
      <3>2. chanpc[0] >= 5
        BY <1>1 DEF FifoClientRight
      <3>3. sent[p] > 0 => p \in writers["c2s"] /\ chanpc[0] >= 4
        BY <1>1, <3>1 DEF FifoClientRight
      <3>4. chanpc[0] >= 4
        BY <1>4, <3>2
      <3>5. Asks(p)' = Asks(p)
        BY DEF Asks
      <3>6. QED
        BY <1>1, <1>3, <2>2, <3>1, <3>2, <3>3, <3>4, <3>5 DEF FifoClientRight
    <2>3. QED
      BY <2>1, <2>2
  <1>7. Counted /\ chanpc[0] <= 6
    BY <1>4 DEF FifoRight
  <1>8. SentBy' = SentBy /\ \A c \in {1, 2} : c # p => TookBy'[c] = TookBy[c]
    BY <1>1, <1>2 DEF SentBy, TookBy
  <1>9. TookBy'[p] = TookBy[p] + Len(content["s2c"])
    <2>1. TookBy[p] = Len(taken[p])
      BY <1>1 DEF TookBy
    <2>2. TookBy'[p] = Len(taken'[p])
      BY <1>1 DEF TookBy
    <2>3. QED
      BY <1>2, <2>1, <2>2
  <1>10. TookBy'[1] + TookBy'[2] + Len(content'["s2c"]) = sent[0]
    <2>1. TookBy[1] \in Nat /\ TookBy[2] \in Nat /\ Len(content["s2c"]) \in Nat
      BY FifoShape, CountTypes
    <2>2. TookBy[1] + TookBy[2] + Len(content["s2c"]) = sent[0]
      BY <1>7 DEF Counted
    <2>3. \A a, b, m \in Nat : (a + m) + b + 0 = a + b + m /\ a + (b + m) + 0 = a + b + m
      OBVIOUS
    <2>4. CASE p = 1
      <3>1. TookBy'[1] = TookBy[1] + Len(content["s2c"]) /\ TookBy'[2] = TookBy[2]
        BY <1>8, <1>9, <2>4
      <3>2. QED
        BY <1>2, <2>1, <2>2, <2>3, <3>1
    <2>5. CASE p = 2
      <3>1. TookBy'[2] = TookBy[2] + Len(content["s2c"]) /\ TookBy'[1] = TookBy[1]
        BY <1>8, <1>9, <2>5
      <3>2. QED
        BY <1>2, <2>1, <2>2, <2>3, <3>1
    <2>6. QED
      BY <1>1, <2>4, <2>5
  <1>11. ASSUME NEW c \in Clients
         PROVE  /\ sent[c] <= Len(taken'[c]) + 1
                /\ c \notin ReadsNext' => sent[c] <= Len(taken'[c])
    <2>1. /\ sent[c] <= Len(taken[c]) + 1
          /\ c \notin ReadsNext => sent[c] <= Len(taken[c])
      BY <1>7 DEF Counted
    <2>2. CASE c # p
      <3>1. c \notin ReadsNext' => c \notin ReadsNext
        BY <1>1, <1>3, <2>2 DEF ReadsNext, Asks
      <3>2. QED
        BY <1>2, <2>1, <2>2, <3>1
    <2>3. CASE c = p
      <3>1. /\ Len(taken[p]) \in Nat /\ Len(content["s2c"]) \in Nat
            /\ Len(content["s2c"]) # 0 /\ sent[p] \in Nat
        BY <1>1, FifoShape, MessageTypes, EmptySeq
      <3>2. \A s, a, m \in Nat : m # 0 /\ s <= a + 1 => s <= a + m /\ s <= (a + m) + 1
        OBVIOUS
      <3>3. QED
        BY <1>2, <2>1, <2>3, <3>1, <3>2
    <2>4. QED
      BY <2>2, <2>3
  <1>12. Counted'
    <2>1. /\ Len(taken[0]) + Len(content["c2s"]) = SentBy[1] + SentBy[2]
          /\ sent[0] <= Len(taken[0])
          /\ chanpc[0] = 6 => sent[0] < Len(taken[0])
      BY <1>7 DEF Counted
    <2>2. QED
      BY <1>1, <1>2, <1>3, <1>8, <1>10, <1>11, <2>1 DEF Counted
  <1>13. AfterEnd'
    BY <1>3, <1>4 DEF AfterEnd
  <1>14. QED
    BY <1>1, <1>5, <1>6, <1>12, <1>13 DEF FifoRight

(* The server sees the end of the requests when each client that asked has *)
(* read: then no response is left.                                         *)
LEMMA FifoServerEnds ==
  ASSUME Chan!TypeOK, IsFifo, program' = program, FifoRight,
         chanpc[0] = 5, chanstate[0] = "running", content["c2s"] = <<>>, writers["c2s"] = {},
         chanpc' = [chanpc EXCEPT ![0] = 7],
         UNCHANGED <<chanstate, there, readers, writers, content, sent, taken>>
  PROVE  FifoRight'
  <1>1. /\ Clients' = Clients /\ 1 \in Clients /\ 0 \in Chan!Processes /\ 0 \notin Clients
        /\ FifoServerRight
    BY FifoShape DEF Clients, Chan!Processes, FifoRight
  <1>2. chanpc'[0] = 7 /\ \A c \in Clients : chanpc'[c] = chanpc[c]
    BY FifoShape
  <1>3. FifoServerRight'
    BY <1>1, <1>2 DEF FifoServerRight
  <1>4. ASSUME NEW c \in Clients PROVE FifoClientRight(c)'
    BY <1>2, ClientKept DEF FifoRight
  <1>5. Counted'
    BY <1>2 DEF Counted
  <1>6. Counted /\ chanpc[0] <= 6
    BY DEF FifoRight
  <1>7. ASSUME NEW c \in {1, 2} PROVE SentBy[c] <= TookBy[c]
    <2>1. CASE c \in Clients
      <3>1. c \notin ReadsNext => sent[c] <= Len(taken[c])
        BY <1>6, <2>1 DEF Counted
      <3>2. c \in ReadsNext => ~(sent[c] > 0)
        <4>1. c \in ReadsNext => chanpc[c] <= 2 * Asks(c) + 3
          <5>1. Asks(c) \in Nat
            BY <2>1, FifoShape
          <5>2. c \in ReadsNext => chanpc[c] \in 4..(2 * Asks(c) + 2)
            BY <2>1 DEF ReadsNext
          <5>3. QED
            BY <5>1, <5>2
        <4>2. QED
          BY <2>1, <4>1 DEF FifoRight, FifoClientRight
      <3>3. sent[c] \in Nat /\ Len(taken[c]) \in Nat
        BY <2>1, FifoShape
      <3>4. sent[c] <= Len(taken[c])
        BY <3>1, <3>2, <3>3
      <3>5. QED
        BY <2>1, <3>4, CountTypes
    <2>2. CASE c \notin Clients
      BY <2>2, CountTypes
    <2>3. QED
      BY <2>1, <2>2
  <1>8. Len(content["s2c"]) = 0
    <2>1. /\ SentBy[1] \in Nat /\ SentBy[2] \in Nat /\ TookBy[1] \in Nat /\ TookBy[2] \in Nat
          /\ Len(taken[0]) \in Nat /\ sent[0] \in Nat /\ Len(content["s2c"]) \in Nat
      BY FifoShape, CountTypes
    <2>2. /\ Len(taken[0]) + Len(content["c2s"]) = SentBy[1] + SentBy[2]
          /\ TookBy[1] + TookBy[2] + Len(content["s2c"]) = sent[0]
          /\ sent[0] <= Len(taken[0])
      BY <1>6 DEF Counted
    <2>3. Len(content["c2s"]) = 0
      OBVIOUS
    <2>4. Len(taken[0]) = SentBy[1] + SentBy[2]
      BY ONLY <2>1, <2>2, <2>3
    <2>5. SentBy[1] <= TookBy[1] /\ SentBy[2] <= TookBy[2]
      BY <1>7
    <2>6. QED
      BY ONLY <2>1, <2>2, <2>4, <2>5
  <1>9. AfterEnd'
    <2>1. content["s2c"] = <<>>
      BY <1>8, FifoShape, MessageTypes, EmptySeq
    <2>2. QED
      BY <2>1 DEF AfterEnd
  <1>10. QED
    BY <1>1, <1>3, <1>4, <1>5, <1>9 DEF FifoRight

LEMMA FifoStep ==
  ASSUME Chan!TypeOK, Chan!TypeOK', IsFifo, program' = program, FifoRight,
         NEW p \in Chan!Processes, Regular(p)
  PROVE  FifoRight'
  <1> USE DEF Chan!held, Chan!data
  <1>1. CASE Chan!Fork(p) \/ Chan!Wait(p)
    BY <1>1, FifoShape DEF Chan!Fork, Chan!Wait
  <1>2. CASE Chan!Find(p)
    BY <1>2, FifoCallsOf DEF Chan!Find, FifoCall, FifoServerCall, FifoClientCall
  <1>3. CASE Chan!Create(p) \/ Chan!Unlink(p)
    BY <1>3, FifoNames
  <1>4. CASE Chan!Close(p) \/ Chan!Exit(p)
    BY <1>4, FifoCloses
  <1>5. CASE Chan!Open(p)
    BY <1>5, FifoOpens
  <1>6. CASE Chan!OpenFails(p)
    BY <1>6, FifoOpenFails
  <1>7. CASE Chan!WriteFails(p)
    BY <1>7, FifoWriteFails
  <1>8. CASE Chan!Write(p)
    <2>1. PICK ch \in Chan!Channels, call \in {"write", "respond", "send"} :
            /\ Chan!Calls(p, call, ch) /\ p \in writers[ch]
            /\ Wrote(p, ch) /\ Chan!Written(p)
      <3>1. PICK ch \in Chan!Channels :
              /\ Chan!CallsWrite(p, ch) /\ p \in writers[ch]
              /\ content' = [content EXCEPT ![ch] = Append(@, <<p, sent[p] + 1>>)]
              /\ sent' = [sent EXCEPT ![p] = @ + 1]
              /\ Chan!Written(p)
        BY <1>8 DEF Chan!Write
      <3>2. Wrote(p, ch)
        BY <3>1 DEF Wrote, Chan!Written
      <3>3. QED
        BY <3>1, <3>2 DEF Chan!CallsWrite
    <2>2. FifoCall(p, chanpc[p], call, ch) /\ chanstate[p] = "running"
      BY <2>1, FifoCallsOf
    <2>3. program.code[p][chanpc[p]][1] = call
      BY <2>1 DEF Chan!Calls
    <2>4. UNCHANGED <<chanstate, there, readers, writers>>
      BY <2>1 DEF Chan!Written
    <2>5. CASE p = 0
      <3>1. chanpc[0] = 6 /\ ch = "s2c" /\ call = "respond"
        BY <2>2, <2>5 DEF FifoCall, FifoServerCall
      <3>2. chanpc' = [chanpc EXCEPT ![0] = 5]
        BY <2>1, <2>3, <2>5, <3>1 DEF Chan!Written
      <3>3. QED
        BY <2>1, <2>2, <2>4, <2>5, <3>1, <3>2, FifoServerWrites
    <2>6. CASE p # 0
      <3>1. p \in Clients
        BY <2>6, FifoShape
      <3>2. /\ chanpc[p] \in 3..(2 * Asks(p) + 2) /\ chanpc[p] % 2 = 1
            /\ ch = "c2s" /\ call = "write"
        BY <2>2, <2>6 DEF FifoCall, FifoClientCall
      <3>3. chanpc' = [chanpc EXCEPT ![p] = @ + 1]
        BY <2>1, <2>3, <3>2 DEF Chan!Written
      <3>4. QED
        BY <2>1, <2>2, <2>4, <3>1, <3>2, <3>3, FifoClientWrites
    <2>7. QED
      BY <2>5, <2>6
  <1>9. CASE Chan!Read(p)
    <2>1. PICK ch \in Chan!Channels, call \in Chan!ReadCalls, k \in Nat \ {0} :
            /\ k \in 1..Len(content[ch])
            /\ Chan!Calls(p, call, ch) /\ p \in readers[ch] /\ Took(p, ch, k)
            /\ k = IF call \in {"read_one", "take"} THEN 1 ELSE Len(content[ch])
            /\ chanpc' = IF call = "read_all" THEN chanpc ELSE [chanpc EXCEPT ![p] = @ + 1]
            /\ UNCHANGED <<chanstate, there, readers, writers>>
      BY <1>9, ReadMoves
    <2>2. FifoCall(p, chanpc[p], call, ch) /\ chanstate[p] = "running"
      BY <2>1, FifoCallsOf
    <2>3. content[ch] # <<>>
      <3>1. Len(content[ch]) # 0 /\ content[ch] \in Seq(Chan!Processes \X Nat)
        BY <2>1, MessageTypes
      <3>2. QED
        BY ONLY <3>1, EmptySeq
    <2>4. CASE p = 0
      <3>1. chanpc[0] = 5 /\ ch = "c2s" /\ call = "receive"
        BY <2>2, <2>4 DEF FifoCall, FifoServerCall, Chan!ReadCalls
      <3>2. /\ Took(0, "c2s", Len(content["c2s"])) /\ chanpc' = [chanpc EXCEPT ![0] = @ + 1]
            /\ chanstate[0] = "running" /\ content["c2s"] # <<>>
        BY <2>1, <2>2, <2>3, <2>4, <3>1
      <3>3. QED
        BY <2>1, <3>1, <3>2, FifoServerReads
    <2>5. CASE p # 0
      <3>1. p \in Clients
        BY <2>5, FifoShape
      <3>2. /\ chanpc[p] \in 3..(2 * Asks(p) + 2) /\ chanpc[p] % 2 # 1
            /\ ch = "s2c" /\ call = "read"
        BY <2>2, <2>5 DEF FifoCall, FifoClientCall, Chan!ReadCalls
      <3>3. /\ Took(p, "s2c", Len(content["s2c"])) /\ chanpc' = [chanpc EXCEPT ![p] = @ + 1]
            /\ p \in readers["s2c"] /\ content["s2c"] # <<>>
        BY <2>1, <2>3, <3>2
      <3>4. QED
        BY <2>1, <2>2, <3>1, <3>2, <3>3, FifoClientReads
    <2>6. QED
      BY <2>4, <2>5
  <1>10. CASE Chan!ReadEnd(p) \/ Chan!ReadFails(p)
    <2>1. CASE p # 0
      <3>1. p \in Clients
        BY <2>1, FifoShape
      <3>2. QED
        BY <1>10, <3>1, FifoReadsNothing
    <2>2. CASE p = 0
      <3>1. ASSUME NEW ch \in Chan!Channels, NEW call \in Chan!ReadCalls, Chan!Calls(p, call, ch)
            PROVE  /\ chanpc[0] = 5 /\ ch = "c2s" /\ call = "receive"
                   /\ chanstate[0] = "running" /\ 0 \in readers["c2s"]
        <4>1. FifoCall(p, chanpc[p], call, ch) /\ chanstate[p] = "running"
          BY <3>1, FifoCallsOf
        <4>2. chanpc[0] = 5 /\ ch = "c2s" /\ call = "receive"
          BY <2>2, <4>1 DEF FifoCall, FifoServerCall, Chan!ReadCalls
        <4>3. QED
          BY <2>2, <4>1, <4>2 DEF FifoRight, FifoServerRight
      <3>2. ~Chan!ReadFails(p)
        BY <2>2, <3>1 DEF Chan!ReadFails, Chan!CallsRead
      <3>3. PICK ch \in Chan!Channels, call \in Chan!ReadCalls :
              /\ Chan!Calls(p, call, ch) /\ content[ch] = <<>> /\ writers[ch] = {}
              /\ ~Chan!Calls(p, "read_one", ch) => taken' = taken
              /\ chanpc' = [chanpc EXCEPT
                            ![p] = IF Chan!Calls(p, "receive", ch) THEN @ + 2 ELSE @ + 1]
              /\ UNCHANGED <<chanstate, there, readers, writers, content, sent>>
        BY <1>10, <3>2 DEF Chan!ReadEnd, Chan!CallsRead
      <3>4. chanpc[0] = 5 /\ ch = "c2s" /\ call = "receive" /\ chanstate[0] = "running"
        BY <3>1, <3>3
      <3>5. Chan!Calls(p, "receive", ch) /\ ~Chan!Calls(p, "read_one", ch)
        BY <3>3, <3>4 DEF Chan!Calls
      <3>6. chanpc' = [chanpc EXCEPT ![0] = 7]
        BY <2>2, <3>3, <3>4, <3>5
      <3>7. QED
        BY <3>3, <3>4, <3>5, <3>6, FifoServerEnds
    <2>3. QED
      BY <2>1, <2>2
  <1>11. QED
    BY <1>1, <1>2, <1>3, <1>4, <1>5, <1>6, <1>7, <1>8, <1>9, <1>10 DEF Regular

(* Who comes late stays late.                                              *)
LEMMA LateStep ==
  ASSUME Chan!TypeOK, program' = program, IsFifo => FifoRight,
         NEW p \in Chan!Processes, Regular(p)
  PROVE  LateOnes \subseteq LateOnes'
  <1> SUFFICES ASSUME NEW c \in LateOnes PROVE c \in LateOnes'
    OBVIOUS
  <1>1. /\ program = Chan!FifoOfTwo /\ c # 0 /\ chanpc[0] >= 7 /\ taken[c] = <<>>
        /\ c \in Chan!Processes /\ IsFifo /\ FifoRight
    BY DEF LateOnes, IsFifo
  <1>2. content["s2c"] = <<>>
    BY <1>1 DEF FifoRight, AfterEnd
  <1>3. taken'[c] = taken[c]
    <2>1. ASSUME NEW ch \in Chan!Channels, NEW call \in Chan!ReadCalls, Chan!Calls(p, call, ch)
          PROVE  call # "read_one" /\ (p # 0 => ch = "s2c")
      <3>1. FifoCall(p, chanpc[p], call, ch)
        BY <1>1, <2>1, FifoCallsOf
      <3>2. QED
        BY <3>1 DEF FifoCall, FifoServerCall, FifoClientCall, Chan!ReadCalls
    <2>2. ASSUME NEW ch \in Chan!Channels, NEW k \in 1..Len(content[ch]),
                 Chan!CallsRead(p, ch), Took(p, ch, k)
          PROVE  taken'[c] = taken[c]
      <3>1. p # 0 => ch = "s2c"
        BY <2>1, <2>2 DEF Chan!CallsRead
      <3>2. ch # "s2c"
        BY <1>2
      <3>3. QED
        BY <1>1, <2>2, <3>1, <3>2 DEF Took
    <2>3. ASSUME NEW ch \in Chan!Channels PROVE ~Chan!Calls(p, "read_one", ch)
      BY <2>1 DEF Chan!ReadCalls
    <2>4. QED
      BY <2>2, <2>3, DataStep DEF DroppedOnly, Dropped, Wrote
  <1>4. chanpc'[0] >= 7
    <2>1. chanpc \in [Chan!Processes -> Nat \ {0}] /\ 0 \in Chan!Processes
      BY <1>1, FifoShape
    <2>2. \A d \in {1, 2} : chanpc' = [chanpc EXCEPT ![p] = @ + d] => chanpc'[0] >= 7
      BY <1>1, <2>1
    <2>3. chanpc' = chanpc => chanpc'[0] >= 7
      BY <1>1
    <2>4. ASSUME Chan!Return(p) PROVE chanpc'[0] >= 7
      BY <2>2, <2>4 DEF Chan!Return
    <2>5. CASE Chan!Fork(p) \/ Chan!Wait(p)
      BY <1>1, <2>5, FifoShape DEF Chan!Fork, Chan!Wait
    <2>6. CASE \/ Chan!Create(p) \/ Chan!Unlink(p) \/ Chan!OpenFails(p) \/ Chan!Close(p)
               \/ Chan!ReadFails(p)
      BY <2>4, <2>6 DEF Chan!Create, Chan!Unlink, Chan!OpenFails, Chan!Close, Chan!ReadFails
    <2>7. CASE Chan!Find(p) /\ "mq" \in there
      BY <2>4, <2>7 DEF Chan!Find
    <2>8. CASE Chan!Exit(p)
      BY <2>3, <2>8 DEF Chan!Exit, Chan!Leave
    <2>9. CASE Chan!Open(p)
      <3>1. PICK ch, peers : Chan!OpenEnd(p, ch, peers)
        BY <2>9 DEF Chan!Open
      <3>2. chanpc'[0] \in {chanpc[0], chanpc[0] + 1}
        BY <2>1, <3>1 DEF Chan!OpenEnd
      <3>3. QED
        BY <1>1, <2>1, <3>2
    <2>10. CASE Chan!Write(p) \/ Chan!WriteFails(p)
      <3>1. PICK ch, call : Chan!Calls(p, call, ch) /\ Chan!Written(p)
        BY <2>10 DEF Chan!Write, Chan!WriteFails, Chan!CallsWrite
      <3>2. FifoCall(p, chanpc[p], call, ch) /\ program.code[p][chanpc[p]][1] = call
        BY <1>1, <3>1, FifoCallsOf DEF Chan!Calls
      <3>3. call # "respond"
        <4>1. call = "respond" => p = 0 /\ chanpc[0] = 6
          BY <3>2 DEF FifoCall, FifoServerCall, FifoClientCall
        <4>2. QED
          BY <1>1, <4>1
      <3>4. chanpc' = [chanpc EXCEPT ![p] = @ + 1]
        BY <3>1, <3>2, <3>3 DEF Chan!Written
      <3>5. QED
        BY <2>2, <3>4
    <2>11. CASE Chan!Read(p)
      BY <2>2, <2>3, <2>11, ReadMoves
    <2>12. CASE Chan!ReadEnd(p)
      <3>1. PICK ch : chanpc' = [chanpc EXCEPT
                        ![p] = IF Chan!Calls(p, "receive", ch) THEN @ + 2 ELSE @ + 1]
        BY <2>12 DEF Chan!ReadEnd
      <3>2. CASE Chan!Calls(p, "receive", ch)
        BY <2>2, <3>1, <3>2
      <3>3. CASE ~Chan!Calls(p, "receive", ch)
        BY <2>2, <3>1, <3>3
      <3>4. QED
        BY <3>2, <3>3
    <2>13. QED
      BY <2>5, <2>6, <2>7, <2>8, <2>9, <2>10, <2>11, <2>12 DEF Regular
  <1>5. QED
    BY <1>1, <1>3, <1>4, OutSame DEF LateOnes

LEMMA FifoLosesLate ==
  ASSUME Chan!TypeOK, IsFifo, program' = program, FifoRight, Placed,
         NEW p \in Chan!Processes, Chan!Close(p) \/ Chan!Exit(p),
         LateOnes \subseteq LateOnes',
         NEW ch \in Chan!Channels, Gone(ch), NEW i \in DOMAIN content[ch]
  PROVE  content[ch][i][1] \in LateOnes'
  <1>1. ch \in {"c2s", "s2c"} /\ content[ch] # <<>>
    <2>1. content[ch][i][1] \in Chan!Processes
      BY MessageTypes
    <2>2. content[ch] # <<>>
      OBVIOUS
    <2>3. Out[content[ch][i][1]] = ch
      BY DEF Placed
    <2>4. QED
      BY <2>1, <2>2, <2>3, ProgramsDiffer DEF Out
  <1>2. CASE chanpc[0] >= 7
    BY <1>1, <1>2 DEF FifoRight, AfterEnd
  <1>3. CASE chanpc[0] <= 6
    <2>1. p # 0
      <3>1. ~(Chan!Exit(p) /\ p = 0)
        <4>1. 0 \in Chan!Processes /\ chanpc[0] \in Nat /\ Len(program.code[0]) = 10
          BY FifoShape
        <4>2. ~(chanpc[0] > 10)
          BY <1>3, <4>1
        <4>3. QED
          BY <4>1, <4>2 DEF Chan!Exit
      <3>2. ASSUME NEW x, NEW call \in {"close_r", "close_w"}, Chan!Calls(p, call, x), p = 0
            PROVE  FALSE
        <4>1. FifoCall(p, chanpc[p], call, x)
          BY <3>2, FifoCallsOf
        <4>2. chanpc[0] \in {7, 8}
          BY <3>2, <4>1 DEF FifoCall, FifoServerCall
        <4>3. QED
          BY <1>3, <4>2
      <3>3. QED
        BY <3>1, <3>2 DEF Chan!Close
    <2>2. /\ 0 \in readers["c2s"] => 0 \in readers'["c2s"]
          /\ 0 \in writers["s2c"] => 0 \in writers'["s2c"]
      <3>1. /\ readers \in [Chan!Channels -> SUBSET Chan!Processes]
            /\ writers \in [Chan!Channels -> SUBSET Chan!Processes]
            /\ "c2s" \in Chan!Channels /\ "s2c" \in Chan!Channels
        BY DEF Chan!TypeOK, Chan!Channels, Chan!Named
      <3>2. CASE Chan!Exit(p)
        BY <2>1, <3>1, <3>2 DEF Chan!Exit, Chan!Leave
      <3>3. CASE Chan!Close(p)
        <4>1. PICK x \in Chan!Channels :
                \/ readers' = [readers EXCEPT ![x] = @ \ {p}] /\ writers' = writers
                \/ writers' = [writers EXCEPT ![x] = @ \ {p}] /\ readers' = readers
          BY <3>3 DEF Chan!Close
        <4>2. QED
          BY <2>1, <3>1, <4>1
      <3>4. QED
        BY <3>2, <3>3
    <2>4. QED
      BY <1>1, <1>3, <2>2, FifoHeld DEF Gone
  <1>4. chanpc[0] \in Nat
    BY FifoShape
  <1>5. QED
    BY <1>2, <1>3, <1>4

-----------------------------------------------------------------------------
(* The inductive invariant: while no process is harmed, each message is    *)
(* where it should be, and so is each process of the program that runs.    *)
ProgramRight ==
  /\ program = Chan!Pipe => PipeRight
  /\ program = Chan!Popen => PopenRight
  /\ program = Chan!Sums => SumsRight
  /\ program = Chan!Queue => QueueRight
  /\ IsFifo => FifoRight

ChanInv ==
  /\ Chan!TypeOK
  /\ ForkRight
  /\ Unharmed => Accounted /\ ExitedAtEnd /\ ProgramRight

LEMMA ProgramRightStep ==
  ASSUME Chan!TypeOK, Chan!TypeOK', program' = program, ForkRight, Unharmed,
         Accounted, ExitedAtEnd, ProgramRight, NEW p \in Chan!Processes, Regular(p)
  PROVE  ProgramRight'
  <1>1. program = Chan!Pipe => PipeRight'
    BY PipeStep DEF ProgramRight, Accounted
  <1>2. program = Chan!Popen => PopenRight'
    BY PopenStep DEF ProgramRight
  <1>3. program = Chan!Sums => SumsRight'
    BY SumsStep DEF ProgramRight
  <1>4. program = Chan!Queue => QueueRight'
    BY QueueStep DEF ProgramRight
  <1>5. IsFifo => FifoRight'
    BY FifoStep DEF ProgramRight
  <1>6. QED
    BY <1>1, <1>2, <1>3, <1>4, <1>5 DEF ProgramRight, IsFifo

LEMMA ReadsAPart ==
  ASSUME Chan!TypeOK, ExitedAtEnd, ProgramRight,
         NEW p \in Chan!Processes, NEW ch \in Chan!Channels, Chan!Calls(p, "read_one", ch)
  PROVE  content[ch] # <<>>
  <1>1. chanpc[p] \in DOMAIN program.code[p] /\ program.code[p][chanpc[p]] = <<"read_one", ch>>
    BY DEF Chan!Calls
  <1>2. program \notin {Chan!Pipe, Chan!Popen, Chan!Queue} /\ ~IsFifo
    <2>1. program # Chan!Pipe
      BY <1>1, PipeCalls DEF PipeCall
    <2>2. program # Chan!Popen
      BY <1>1, PopenCalls DEF PopenCall
    <2>3. program # Chan!Queue
      BY <1>1, QueueCalls DEF QueueCall
    <2>4. ~IsFifo
      BY <1>1, FifoCalls DEF FifoCall, FifoServerCall, FifoClientCall
    <2>5. QED
      BY <2>1, <2>2, <2>3, <2>4
  <1>3. program = Chan!Sums
    BY <1>2 DEF Chan!TypeOK, Chan!Programs, IsFifo
  <1>4. QED
    BY <1>3, PartForEachRead DEF ProgramRight

LEMMA OnlyLateLost ==
  ASSUME Chan!TypeOK, program' = program, ExitedAtEnd, ProgramRight, Placed,
         NEW p \in Chan!Processes, Chan!Close(p) \/ Chan!Exit(p),
         LateOnes \subseteq LateOnes',
         NEW ch \in Chan!Channels, Gone(ch), NEW i \in DOMAIN content[ch]
  PROVE  content[ch][i][1] \in LateOnes'
  <1>1. CASE IsFifo
    BY <1>1, FifoLosesLate DEF ProgramRight
  <1>2. CASE ~IsFifo
    <2>1. content[ch] # <<>>
      OBVIOUS
    <2>2. program # Chan!Pipe
      BY <2>1, PipeLosesNothing DEF ProgramRight
    <2>3. program # Chan!Popen
      BY <2>1, PopenLosesNothing DEF ProgramRight
    <2>4. program # Chan!Sums
      BY <2>1, SumsLoseNothing DEF ProgramRight
    <2>5. program # Chan!Queue
      BY <2>1, QueueLosesNothing
    <2>6. QED
      BY <1>2, <2>2, <2>3, <2>4, <2>5 DEF Chan!TypeOK, Chan!Programs, IsFifo
  <1>3. QED
    BY <1>1, <1>2

LEMMA ChanStepInv ==
  ASSUME ChanInv, [Chan!Next]_Chan!vars
  PROVE  ChanInv'
  <1>1. Chan!TypeOK /\ Common /\ ForkRight
    BY ProgramShape DEF ChanInv, Chan!TypeOK
  <1>2. Chan!TypeOK' /\ program' = program
    BY <1>1, ChanStepTypes
  <1>3. CASE UNCHANGED Chan!vars
    <2>1. /\ program' = program /\ chanpc' = chanpc /\ chanstate' = chanstate /\ there' = there
          /\ readers' = readers /\ writers' = writers /\ content' = content
          /\ sent' = sent /\ taken' = taken
      BY <1>3 DEF Chan!vars, Chan!held, Chan!data
    <2>2. Chan!Processes' = Chan!Processes /\ Out' = Out /\ LateOnes' = LateOnes
          /\ (IsFifo' <=> IsFifo)
      BY <2>1 DEF Chan!Processes, Out, IsFifo, LateOnes
    <2>3. (Unharmed' <=> Unharmed) /\ (ForkRight' <=> ForkRight)
      BY <2>1, <2>2 DEF Unharmed, ForkRight
    <2>4. (Accounted' <=> Accounted) /\ (ExitedAtEnd' <=> ExitedAtEnd)
      BY <2>1, <2>2 DEF Accounted, Placed, InOrder, Kept, ExitedAtEnd, Before
    <2>5. /\ (PipeRight' <=> PipeRight) /\ (PopenRight' <=> PopenRight)
          /\ (QueueRight' <=> QueueRight)
      BY <2>1 DEF PipeRight, PopenRight, QueueRight
    <2>6. SumsRight' <=> SumsRight
      <3>1. Wrote1' = Wrote1
        BY <2>1 DEF Wrote1
      <3>2. QED
        BY <2>1, <3>1 DEF SumsRight, ChildRight
    <2>7. FifoRight' <=> FifoRight
      <3>1. Clients' = Clients
        BY <2>2 DEF Clients
      <3>2. ReadsNext' = ReadsNext /\ SentBy' = SentBy /\ TookBy' = TookBy
        BY <2>1, <3>1 DEF ReadsNext, SentBy, TookBy
      <3>3. (Counted' <=> Counted) /\ (AfterEnd' <=> AfterEnd)
        BY <2>1, <2>2, <3>1, <3>2 DEF Counted, AfterEnd
      <3>4. FifoServerRight' <=> FifoServerRight
        BY <2>1 DEF FifoServerRight
      <3>5. \A c \in Clients : FifoClientRight(c)' <=> FifoClientRight(c)
        BY <2>1 DEF FifoClientRight
      <3>6. QED
        BY <3>1, <3>3, <3>4, <3>5 DEF FifoRight
    <2>8. QED
      BY <1>1, <1>2, <2>2, <2>3, <2>4, <2>5, <2>6, <2>7 DEF ChanInv, ProgramRight
  <1>4. CASE Chan!Next
    <2>1. GoingOn
      BY <1>1, <1>4, NextGoes
    <2>2. ForkRight'
      BY <1>1, <1>2, <2>1, ForkRightStep
    <2>3. ASSUME Unharmed'
          PROVE  Accounted' /\ ExitedAtEnd' /\ ProgramRight'
      <3>1. Unharmed
        BY <1>1, <1>2, <2>1, <2>3, UnharmedBefore
      <3>2. Accounted /\ ExitedAtEnd /\ ProgramRight
        BY <3>1 DEF ChanInv
      <3>3. PICK p \in Chan!Processes : Regular(p)
        BY <1>1, <1>2, <1>4, <2>3, RegularStep
      <3>4. LateOnes \subseteq LateOnes'
        BY <1>1, <1>2, <3>2, <3>3, LateStep DEF ProgramRight
      <3>5. \A ch \in Chan!Channels : Chan!Calls(p, "read_one", ch) => content[ch] # <<>>
        BY <1>1, <3>2, ReadsAPart
      <3>6. DroppedOnly(p) => \A ch \in Chan!Channels : Gone(ch) =>
              \A i \in DOMAIN content[ch] : content[ch][i][1] \in LateOnes'
        <4>1. DroppedOnly(p) => Chan!Close(p) \/ Chan!Exit(p)
          BY DEF DroppedOnly
        <4>2. Placed
          BY <3>2 DEF Accounted
        <4>3. QED
          BY <1>1, <1>2, <3>2, <3>4, <4>1, <4>2, OnlyLateLost
      <3>7. Accounted'
        BY <1>1, <1>2, <3>2, <3>3, <3>4, <3>5, <3>6, AccountedStep
      <3>8. ExitedAtEnd'
        BY <1>1, <1>2, <3>2, <3>3, ExitedStep
      <3>9. ProgramRight'
        BY <1>1, <1>2, <3>1, <3>2, <3>3, ProgramRightStep
      <3>10. QED
        BY <3>7, <3>8, <3>9
    <2>4. QED
      BY <1>2, <2>2, <2>3 DEF ChanInv
  <1>5. QED
    BY <1>3, <1>4

LEMMA ChanInitInv ==
  ASSUME Chan!Init
  PROVE  ChanInv
  <1>1. Chan!TypeOK /\ Common
    BY ChanInitTypes, ProgramShape DEF Chan!TypeOK
  <1>2. /\ 0 \in Chan!Processes /\ 0 \notin program.forked
        /\ program.forked \subseteq Chan!Processes
        /\ \A p \in Chan!Processes : /\ chanpc[p] = 1 /\ sent[p] = 0 /\ taken[p] = <<>>
             /\ chanstate[p] = IF p \in program.forked THEN "absent" ELSE "running"
        /\ \A ch \in Chan!Channels : content[ch] = <<>>
        /\ readers = [ch \in Chan!Channels |-> IF ch \in program.pipes THEN {0} ELSE {}]
        /\ writers = readers
    BY <1>1 DEF Chan!Init, Common
  <1>3. ForkRight /\ ExitedAtEnd
    BY <1>2 DEF ForkRight, ExitedAtEnd
  <1>4. Accounted
    BY <1>2 DEF Accounted, Placed, InOrder, Kept
  <1>5. program = Chan!Pipe => PipeRight
    <2>1. SUFFICES ASSUME program = Chan!Pipe PROVE PipeRight
      OBVIOUS
    <2>2. Chan!Processes = {0, 1} /\ program.forked = {1} /\ program.pipes = {"fds", "fds2"}
      BY <2>1, ProgramCodes DEF Chan!Pipe
    <2>3. chanpc[0] = 1 /\ chanpc[1] = 1 /\ sent[0] = 0 /\ chanstate[1] = "absent"
      BY <1>2, <2>2
    <2>4. 0 \in readers["fds"] /\ 0 \in readers["fds2"]
      BY <1>2, <2>2 DEF Chan!Channels, Chan!Named
    <2>5. Messages \in Nat
      BY ChannelAssumption
    <2>6. QED
      BY <2>3, <2>4, <2>5 DEF PipeRight
  <1>6. program = Chan!Popen => PopenRight
    <2>1. SUFFICES ASSUME program = Chan!Popen PROVE PopenRight
      OBVIOUS
    <2>2. Chan!Processes = {0, 1} /\ program.forked = {1} /\ program.pipes = {"fds"}
      BY <2>1, ProgramCodes DEF Chan!Popen
    <2>3. QED
      BY <1>2, <2>2 DEF PopenRight, Chan!Channels, Chan!Named
  <1>7. program = Chan!Sums => SumsRight
    <2>1. SUFFICES ASSUME program = Chan!Sums PROVE SumsRight
      OBVIOUS
    <2>2. /\ Chan!Processes = 0..Children /\ program.forked = 1..Children
          /\ program.pipes = {"fds"} /\ Children \in Nat
      BY <2>1, ProgramCodes, ChannelAssumption DEF Chan!Sums
    <2>3. /\ chanpc[0] = 1 /\ sent[0] = 0 /\ taken[0] = <<>> /\ content["fds"] = <<>>
          /\ 0 \in readers["fds"] /\ 0 \in writers["fds"]
      BY <1>2, <2>2 DEF Chan!Channels, Chan!Named
    <2>4. \A c \in 1..Children : /\ chanpc[c] = 1 /\ sent[c] = 0 /\ taken[c] = <<>>
                                 /\ chanstate[c] = "absent"
      BY <1>2, <2>2
    <2>5. Wrote1 = {}
      BY <2>4 DEF Wrote1
    <2>6. Cardinality(Wrote1) = 0 /\ Len(taken[0]) = 0 /\ Len(content["fds"]) = 0
      BY <2>3, <2>5, FS_EmptySet
    <2>7. \A c \in 1..Children : ChildRight(c)
      BY <2>2, <2>3, <2>4 DEF ChildRight
    <2>8. QED
      BY <2>2, <2>3, <2>6, <2>7 DEF SumsRight
  <1>8. program = Chan!Queue => QueueRight
    <2>1. SUFFICES ASSUME program = Chan!Queue PROVE QueueRight
      OBVIOUS
    <2>2. Chan!Processes = {0, 1}
      BY <2>1, ProgramCodes
    <2>3. QED
      BY <1>2, <2>2 DEF QueueRight
  <1>9. IsFifo => FifoRight
    <2>1. SUFFICES ASSUME IsFifo PROVE FifoRight
      OBVIOUS
    <2>2. /\ Clients \subseteq {1, 2} /\ Chan!Processes = Clients \cup {0}
          /\ \A c \in Clients : c \in Chan!Processes /\ c # 0 /\ Asks(c) \in Nat
          /\ program.forked = {} /\ "c2s" \in Chan!Channels /\ "s2c" \in Chan!Channels
      BY <1>1, <2>1, FifoShape
    <2>3. program.pipes = {}
      BY <2>1 DEF IsFifo, Chan!Fifo, Chan!FifoOfTwo
    <2>4. /\ \A ch \in {"c2s", "s2c"} : readers[ch] = {} /\ writers[ch] = {} /\ content[ch] = <<>>
          /\ chanpc[0] = 1 /\ sent[0] = 0 /\ Len(taken[0]) = 0 /\ chanstate[0] = "running"
          /\ \A c \in Clients : /\ chanpc[c] = 1 /\ sent[c] = 0 /\ Len(taken[c]) = 0
                                /\ chanstate[c] = "running"
      BY <1>2, <2>2, <2>3
    <2>5. FifoServerRight
      BY <2>4 DEF FifoServerRight
    <2>6. AfterEnd
      BY <2>4 DEF AfterEnd
    <2>7. \A c \in Clients : FifoClientRight(c)
      <3>1. SUFFICES ASSUME NEW c \in Clients PROVE FifoClientRight(c)
        OBVIOUS
      <3>2. /\ chanpc[c] = 1 /\ sent[c] = 0 /\ Len(taken[c]) = 0 /\ chanstate[c] = "running"
            /\ c \notin writers["c2s"] /\ c \notin readers["s2c"] /\ Asks(c) \in Nat
        BY <2>2, <2>4
      <3>3. QED
        BY <3>2 DEF FifoClientRight
    <2>8. Counted
      <3>1. \A c \in {1, 2} : SentBy[c] = 0 /\ TookBy[c] = 0
        BY <2>4 DEF SentBy, TookBy
      <3>2. Len(content["c2s"]) = 0 /\ Len(content["s2c"]) = 0
        BY <2>4
      <3>3. QED
        BY <2>4, <3>1, <3>2 DEF Counted
    <2>9. QED
      BY <2>5, <2>6, <2>7, <2>8 DEF FifoRight
  <1>10. QED
    BY <1>1, <1>3, <1>4, <1>5, <1>6, <1>7, <1>8, <1>9 DEF ChanInv, ProgramRight

(* When all have run to their end, only a late client's message is left.   *)
LEMMA NothingLeft ==
  ASSUME Chan!TypeOK, Accounted, ExitedAtEnd, ProgramRight,
         \A p \in Chan!Processes : chanstate[p] = "exited",
         NEW p \in Chan!Processes, NEW k \in 1..sent[p],
         NEW i \in DOMAIN content[Out[p]], content[Out[p]][i] = <<p, k>>
  PROVE  p \in LateOnes
  <1>1. \A q \in Chan!Processes :
          chanpc[q] > Len(program.code[q]) /\ chanpc[q] \in Nat /\ Len(program.code[q]) \in Nat
    <2>1. \A q \in Chan!Processes : Len(program.code[q]) \in Nat
      <3>1. \A q \in Chan!Processes : program.code[q] \in Seq(Call \X Object)
        BY ProgramShape DEF Chan!TypeOK, Common, CallSeqs
      <3>2. \A t \in Seq(Call \X Object) : Len(t) \in Nat
        OBVIOUS
      <3>3. QED
        BY ONLY <3>1, <3>2
    <2>2. QED
      BY <2>1 DEF ExitedAtEnd, Chan!TypeOK
  <1>2. content[Out[p]] # <<>>
    OBVIOUS
  <1>3. CASE IsFifo
    <2>1. chanpc[0] >= 7
      <3>1. 0 \in Chan!Processes /\ Len(program.code[0]) = 10
        BY <1>3, FifoShape
      <3>2. chanpc[0] > 10 /\ chanpc[0] \in Nat
        BY <1>1, <3>1
      <3>3. QED
        BY <3>2
    <2>2. AfterEnd
      BY <1>3 DEF ProgramRight, FifoRight
    <2>3. Out[p] \in {"c2s", "s2c"}
      BY <1>3, ProgramsDiffer DEF Out
    <2>4. content[Out[p]][i][1] = p
      OBVIOUS
    <2>5. QED
      BY <1>2, <2>1, <2>2, <2>3, <2>4 DEF AfterEnd
  <1>4. CASE program = Chan!Pipe
    <2>1. /\ Chan!Processes = {0, 1} /\ Messages \in Nat /\ Len(program.code[0]) = 8
          /\ Len(program.code[1]) = Messages + 5
      BY <1>4, ProgramCodes, PipeParentCode, PipeChildCode, ChannelAssumption
    <2>2. chanpc[0] >= 4 /\ chanpc[1] >= Messages + 5
      <3>1. /\ chanpc[0] > 8 /\ chanpc[0] \in Nat
            /\ chanpc[1] > Messages + 5 /\ chanpc[1] \in Nat
        <4>1. 0 \in Chan!Processes /\ 1 \in Chan!Processes
          BY <2>1
        <4>2. QED
          BY <1>1, <2>1, <4>1
      <3>2. QED
        BY <2>1, <3>1
    <2>3. content["fds"] = <<>> /\ content["fds2"] = <<>>
      BY <1>4, <2>2 DEF ProgramRight, PipeRight
    <2>4. Out[p] \in {"fds", "fds2"}
      BY <1>4, ProgramsDiffer DEF Out
    <2>5. QED
      BY <1>2, <2>3, <2>4
  <1>5. CASE program = Chan!Popen
    <2>1. Chan!Processes = {0, 1} /\ Len(program.code[1]) = 2
      BY <1>5, ProgramCodes, SortCode
    <2>2. chanpc[1] >= 3
      <3>1. 1 \in Chan!Processes
        BY <2>1
      <3>2. chanpc[1] > 2 /\ chanpc[1] \in Nat
        BY <1>1, <2>1, <3>1
      <3>3. QED
        BY <3>2
    <2>3. content["fds"] = <<>>
      BY <1>5, <2>2 DEF ProgramRight, PopenRight
    <2>4. Out[p] = "fds"
      BY <1>5, ProgramsDiffer DEF Out
    <2>5. QED
      BY <1>2, <2>3, <2>4
  <1>6. CASE program = Chan!Sums
    <2>1. chanpc[0] >= 2 * Children + 3
      <3>1. /\ 0 \in Chan!Processes /\ Len(program.code[0]) = 2 * Children + 3
            /\ Children \in Nat
        BY <1>6, SumsShape
      <3>2. chanpc[0] > Len(program.code[0]) /\ chanpc[0] \in Nat
        BY <1>1, <3>1
      <3>3. QED
        BY <3>1, <3>2
    <2>2. content["fds"] = <<>>
      BY <1>6, <2>1 DEF ProgramRight, SumsRight
    <2>3. Out[p] = "fds"
      <3>1. program # Chan!Queue /\ ~IsFifo
        BY <1>6, ProgramsDiffer
      <3>2. program # Chan!Pipe
        BY <1>6, ProgramsDiffer
      <3>3. QED
        BY <3>1, <3>2 DEF Out
    <2>4. QED
      BY <1>2, <2>2, <2>3
  <1>7. CASE program = Chan!Queue
    <2>1. Chan!Processes = {0, 1} /\ Len(program.code[0]) = 4
      BY <1>7, ProgramCodes DEF Chan!QueueReceiver
    <2>2. QueueRight /\ chanpc[0] >= 3
      <3>1. 0 \in Chan!Processes
        BY <2>1
      <3>2. chanpc[0] > 4 /\ chanpc[0] \in Nat
        BY <1>1, <2>1, <3>1
      <3>3. chanpc[0] >= 3
        BY <3>2
      <3>4. QED
        BY <1>7, <3>3 DEF ProgramRight
    <2>3. taken[0] # <<>> /\ 0 \in Chan!Processes
      BY <2>1, <2>2 DEF QueueRight
    <2>4. 1 \in DOMAIN taken[0]
      BY <2>3, MessageTypes, EmptySeq
    <2>5. \A q \in Chan!Processes : \A d \in 1..sent[q] : q = 1 /\ d = 1
      BY <2>1, <2>2, MessageTypes DEF QueueRight
    <2>6. taken[0][1][1] \in Chan!Processes /\ taken[0][1][2] \in 1..sent[taken[0][1][1]]
      BY <2>3, <2>4, MessageTypes DEF Accounted, Placed
    <2>7. taken[0][1][1] = 1 /\ taken[0][1][2] = 1 /\ p = 1 /\ k = 1
      BY <2>5, <2>6
    <2>8. Out[p] \in Chan!Channels
      BY <1>7 DEF Out, Chan!Channels, Chan!Named
    <2>9. Before(taken[0][1], content[Out[p]][i])
      BY <2>3, <2>4, <2>8 DEF Accounted, InOrder
    <2>10. 1 < 1
      BY <2>7, <2>9 DEF Before
    <2>11. QED
      BY <2>10
  <1>8. QED
    BY <1>3, <1>4, <1>5, <1>6, <1>7 DEF Chan!TypeOK, Chan!Programs, IsFifo

LEMMA SameCount == \A S : Chan!Cardinality(S) = Cardinality(S)
  BY DEF Chan!Cardinality, Cardinality

LEMMA FiniteReads ==
  ASSUME Chan!TypeOK
  PROVE  IsFiniteSet(Chan!Reads)
  <1> DEFINE PartOf == [p \in Chan!Processes |-> {<<p, i>> : i \in DOMAIN taken[p]}]
             Parts == {PartOf[p] : p \in Chan!Processes}
  <1>1. Chan!Reads = UNION Parts
    BY DEF Chan!Reads
  <1>2. IsFiniteSet(Chan!Processes)
    <2>1. PICK n \in Nat : Chan!Processes = 0..n
      <3>1. Chan!Processes \in {0..1, 0..2, 0..Children}
        BY DEF Chan!TypeOK, Chan!Programs, Chan!Processes, Chan!Pipe, Chan!Popen, Chan!Sums,
               Chan!Fifo, Chan!FifoOfTwo, Chan!Queue
      <3>2. QED
        BY <3>1, ChannelAssumption
    <2>2. QED
      BY <2>1, FS_Interval
  <1>3. IsFiniteSet(Parts)
    <2>1. PartOf \in Surjection(Chan!Processes, Parts)
      BY DEF Surjection
    <2>2. QED
      BY <1>2, <2>1, FS_Surjection
  <1>4. ASSUME NEW p \in Chan!Processes PROVE IsFiniteSet(PartOf[p])
    <2> DEFINE f == [i \in DOMAIN taken[p] |-> <<p, i>>]
    <2>1. DOMAIN taken[p] = 1..Len(taken[p]) /\ Len(taken[p]) \in Nat
      BY MessageTypes
    <2>2. IsFiniteSet(DOMAIN taken[p])
      BY <2>1, FS_Interval
    <2>3. f \in Surjection(DOMAIN taken[p], PartOf[p])
      BY DEF Surjection
    <2>4. QED
      BY <2>2, <2>3, FS_Surjection
  <1>5. \A S \in Parts : IsFiniteSet(S)
    BY <1>4
  <1>6. QED
    BY <1>1, <1>3, <1>5, FS_UNION

(* No two reads took the same message.                                     *)
LEMMA ReadOnce ==
  ASSUME Chan!TypeOK, InOrder
  PROVE  Chan!Cardinality(Chan!Got) = Chan!Cardinality(Chan!Reads)
  <1> DEFINE f == [r \in Chan!Reads |-> taken[r[1]][r[2]]]
  <1>1. \A r \in Chan!Reads :
          /\ r = <<r[1], r[2]>> /\ r[1] \in Chan!Processes
          /\ r[2] \in DOMAIN taken[r[1]]
    BY DEF Chan!Reads
  <1>2. f \in [Chan!Reads -> Chan!Got] /\ \A m \in Chan!Got : \E r \in Chan!Reads : f[r] = m
    BY DEF Chan!Got
  <1>3. ASSUME NEW q \in Chan!Processes, NEW i \in DOMAIN taken[q], NEW j \in DOMAIN taken[q],
               taken[q][i] = taken[q][j], i < j
        PROVE  FALSE
    <2>1. Before(taken[q][i], taken[q][j])
      BY <1>3 DEF InOrder
    <2>2. taken[q][i][2] \in Nat
      BY MessageTypes
    <2>3. taken[q][i][2] < taken[q][i][2]
      BY <1>3, <2>1 DEF Before
    <2>4. QED
      BY <2>2, <2>3
  <1>4. ASSUME NEW r \in Chan!Reads, NEW s \in Chan!Reads, f[r] = f[s]
        PROVE  r = s
    <2>1. taken[r[1]][r[2]] = taken[s[1]][s[2]]
      BY <1>4
    <2>2. r[1] = s[1]
      BY <1>1, <2>1 DEF InOrder
    <2>3. r[2] \in Int /\ s[2] \in Int
      <3>1. \A q \in Chan!Processes : Len(taken[q]) \in Nat /\ DOMAIN taken[q] = 1..Len(taken[q])
        BY MessageTypes
      <3>2. \A q \in Chan!Processes : \A j \in DOMAIN taken[q] : j \in Int
        BY <3>1
      <3>3. QED
        BY <1>1, <3>2
    <2>4. ~(r[2] < s[2]) /\ ~(s[2] < r[2])
      BY <1>1, <1>3, <2>1, <2>2
    <2>5. r[2] = s[2]
      BY <2>3, <2>4
    <2>6. QED
      BY <1>1, <2>2, <2>5
  <1>5. f \in Bijection(Chan!Reads, Chan!Got)
    <2>1. \A r, s \in Chan!Reads : f[r] = f[s] => r = s
      BY <1>4
    <2>2. \A S, T : \A g \in [S -> T] :
            /\ \A a, b \in S : g[a] = g[b] => a = b
            /\ \A t \in T : \E a \in S : g[a] = t
            => g \in Bijection(S, T)
      BY DEF Bijection, Injection, IsInjective, Surjection
    <2> HIDE DEF f
    <2>3. QED
      BY <1>2, <2>1, <2>2
  <1>6. Cardinality(Chan!Got) = Cardinality(Chan!Reads)
    BY <1>5, FiniteReads, FS_Bijection DEF ExistsBijection
  <1>7. QED
    BY <1>6, SameCount

LEMMA ChanInvLosesNothing ==
  ASSUME ChanInv
  PROVE  Chan!NothingLost
  <1>1. SUFFICES ASSUME \A p \in Chan!Processes : chanstate[p] = "exited"
        PROVE  /\ Chan!Got \subseteq Chan!Sent
               /\ \A m \in Chan!Sent \ Chan!Got : Chan!CameLate(m[1])
               /\ Chan!Cardinality(Chan!Got) = Chan!Cardinality(Chan!Reads)
               /\ \A p \in Chan!Processes : \A i, j \in DOMAIN taken[p] :
                    i < j /\ taken[p][i][1] = taken[p][j][1] => taken[p][i][2] < taken[p][j][2]
    BY DEF Chan!NothingLost
  <1>2. Chan!TypeOK /\ Accounted /\ ExitedAtEnd /\ ProgramRight
    BY <1>1 DEF ChanInv, Unharmed
  <1>3. Placed /\ InOrder /\ Kept
    BY <1>2 DEF Accounted
  <1>4. \A q \in Chan!Processes : \A i \in DOMAIN taken[q] : taken[q][i] \in Chan!Got
    <2>1. SUFFICES ASSUME NEW q \in Chan!Processes, NEW i \in DOMAIN taken[q]
          PROVE  taken[q][i] \in Chan!Got
      OBVIOUS
    <2>2. <<q, i>> \in Chan!Reads
      BY DEF Chan!Reads
    <2>3. <<q, i>>[1] = q /\ <<q, i>>[2] = i
      OBVIOUS
    <2>4. QED
      BY <2>2, <2>3 DEF Chan!Got
  <1>5. ASSUME NEW m \in Chan!Got PROVE m \in Chan!Sent
    <2>1. PICK q \in Chan!Processes : \E i \in DOMAIN taken[q] : m = taken[q][i]
      BY DEF Chan!Got, Chan!Reads
    <2>2. PICK i \in DOMAIN taken[q] : m = taken[q][i]
      BY <2>1
    <2>3. m = <<m[1], m[2]>> /\ m[1] \in Chan!Processes
      BY <1>2, <2>2, MessageTypes
    <2>4. m[2] \in 1..sent[m[1]]
      BY <1>3, <2>2 DEF Placed
    <2>5. QED
      BY <2>3, <2>4 DEF Chan!Sent
  <1>6. ASSUME NEW m \in Chan!Sent, m \notin Chan!Got PROVE Chan!CameLate(m[1])
    <2>1. PICK p \in Chan!Processes : \E k \in 1..sent[p] : m = <<p, k>>
      BY DEF Chan!Sent
    <2>2. PICK k \in 1..sent[p] : m = <<p, k>>
      BY <2>1
    <2>3. \/ \E i \in DOMAIN content[Out[p]] : content[Out[p]][i] = <<p, k>>
          \/ p \in LateOnes
      BY <1>3, <1>4, <1>6, <2>2 DEF Kept
    <2>4. p \in LateOnes
      BY <1>1, <1>2, <2>3, NothingLeft
    <2>5. QED
      BY <2>2, <2>4 DEF LateOnes, Chan!CameLate
  <1>7. Chan!Cardinality(Chan!Got) = Chan!Cardinality(Chan!Reads)
    BY <1>2, <1>3, ReadOnce
  <1>8. QED
    BY <1>3, <1>5, <1>6, <1>7 DEF InOrder, Before

LEMMA ChanSteps == [MCNext]_allVars => [Chan!Next]_Chan!vars
  BY DEF MCNext, OnTcp, OnChannels, OnFile, OnServers, allVars, chanVars, Chan!vars,
         Chan!held, Chan!data

(* ipc_code and Homework1: whatever the number of children, of messages,   *)
(* of requests and the room of a channel, when all processes have run to   *)
(* their end each message written was read, once and in the order of its   *)
(* sender, but for those of a client that opened the FIFO too late.        *)
THEOREM ChannelsAccountForAll == MCSpec => []ChannelsLoseNothing
  <1>1. MCInit => ChanInv
    BY ChanInitInv DEF MCInit
  <1>2. ChanInv /\ [MCNext]_allVars => ChanInv'
    BY ChanSteps, ChanStepInv
  <1>3. ChanInv => ChannelsLoseNothing
    BY ChanInvLosesNothing DEF ChannelsLoseNothing
  <1>4. QED
    BY <1>1, <1>2, <1>3, PTL DEF MCSpec

-----------------------------------------------------------------------------
(* The substring counter.  What its recursion counts is shown by going     *)
(* down from the last place.                                               *)

(* A set with n and, with i + 1, always i has 0: otherwise i |-> i + 1     *)
(* maps what is missing of 0..n one to one into less.                      *)
LEMMA DownTo0 ==
  ASSUME NEW n \in Nat, NEW S, n \in S, \A i \in 0..(n - 1) : i + 1 \in S => i \in S
  PROVE  0 \in S
  <1> SUFFICES ASSUME 0 \notin S PROVE FALSE
    OBVIOUS
  <1> DEFINE missing == (0..n) \ S
             f == [i \in missing |-> i + 1]
  <1>1. IsFiniteSet(missing)
    <2>1. IsFiniteSet(0..n)
      BY FS_Interval
    <2>2. QED
      BY <2>1, FS_Subset
  <1>2. 0 \in missing /\ \A i \in missing : i \in Nat /\ i + 1 \in missing \ {0}
    OBVIOUS
  <1>3. /\ IsFiniteSet(missing \ {0})
        /\ Cardinality(missing \ {0}) = Cardinality(missing) - 1
        /\ Cardinality(missing) \in Nat
    BY <1>1, <1>2, FS_RemoveElement, FS_CardinalityType
  <1>4. f \in [missing -> missing \ {0}]
    BY <1>2
  <1> HIDE DEF missing
  <1>5. \E x, y \in missing : x # y /\ f[x] = f[y]
    <2>1. Cardinality(missing \ {0}) < Cardinality(missing)
      BY <1>3
    <2> HIDE DEF f
    <2>2. QED
      BY <1>1, <1>3, <1>4, <2>1, FS_PigeonHole
  <1>6. QED
    BY <1>2, <1>5

LEMMA AsIntBelow ==
  ASSUME NEW n \in Nat
  PROVE  File!AsInt(n) \in Int /\ File!AsInt(n) <= n /\ (n < IntHalf => File!AsInt(n) = n)
  <1> DEFINE d == 2 * IntHalf
             a == n + IntHalf
             q == a \div d
             r == a % d
  <1>0. IntHalf \in Nat /\ IntHalf > 0
    BY CountAssumption
  <1>1. d \in Nat \ {0} /\ a \in Nat
    BY <1>0
  <1>a. n < IntHalf => a < d
    BY <1>0
  <1> HIDE DEF a, d
  <1>2. q \in Nat /\ r \in 0..(d - 1) /\ a = d * q + r
    BY <1>1
  <1> HIDE DEF q, r
  <1>3. r <= a
    <2>1. d * q \in Nat
      BY <1>1, <1>2
    <2>2. QED
      BY <1>1, <1>2, <2>1
  <1>4. a < d => r = a
    <2>1. q # 0 => d * q = d + d * (q - 1) /\ d * (q - 1) \in Nat
      <3>1. q # 0 => q - 1 \in Nat
        BY <1>2
      <3>2. QED
        BY <1>1, <1>2, <3>1
    <2>2. q = 0 => d * q = 0
      BY <1>1
    <2>3. QED
      BY <1>1, <1>2, <2>1, <2>2
  <1>5. QED
    BY <1>0, <1>2, <1>3, <1>4, <1>a DEF File!AsInt, a, d, r

(* The places from j on that the loop still counts.                        *)
PlacesFrom(mem, substring, s, j) ==
  {p \in j..(s - Len(substring)) : File!StrncasecmpIsZero(mem, p, substring)}

LEMMA PlacesFinite ==
  ASSUME NEW mem, NEW substring, Len(substring) \in Nat, NEW s \in Int, NEW j \in Nat
  PROVE  /\ IsFiniteSet(PlacesFrom(mem, substring, s, j))
         /\ Cardinality(PlacesFrom(mem, substring, s, j)) \in Nat
         /\ j >= s - Len(substring) + 1 => Cardinality(PlacesFrom(mem, substring, s, j)) = 0
         /\ j < s - Len(substring) + 1 =>
              Cardinality(PlacesFrom(mem, substring, s, j)) =
                (IF File!StrncasecmpIsZero(mem, j, substring) THEN 1 ELSE 0)
                  + Cardinality(PlacesFrom(mem, substring, s, j + 1))
  <1> DEFINE here == PlacesFrom(mem, substring, s, j)
             next_ones == PlacesFrom(mem, substring, s, j + 1)
             matches == File!StrncasecmpIsZero(mem, j, substring)
  <1>1. IsFiniteSet(here) /\ IsFiniteSet(next_ones)
    <2>1. IsFiniteSet(j..(s - Len(substring))) /\ IsFiniteSet((j + 1)..(s - Len(substring)))
      BY FS_Interval
    <2>2. QED
      BY <2>1, FS_Subset DEF PlacesFrom
  <1>2. Cardinality(here) \in Nat /\ Cardinality(next_ones) \in Nat
    BY <1>1, FS_CardinalityType
  <1>3. j >= s - Len(substring) + 1 => Cardinality(here) = 0
    <2>1. j >= s - Len(substring) + 1 => here = {}
      BY DEF PlacesFrom
    <2>2. QED
      BY <2>1, FS_EmptySet
  <1>4. ASSUME j < s - Len(substring) + 1
        PROVE  Cardinality(here) = (IF matches THEN 1 ELSE 0) + Cardinality(next_ones)
    <2>1. j \notin next_ones
      BY DEF PlacesFrom
    <2>2. here = IF matches THEN next_ones \cup {j} ELSE next_ones
      <3>1. j..(s - Len(substring)) = {j} \cup ((j + 1)..(s - Len(substring)))
        BY <1>4
      <3>2. QED
        BY <3>1 DEF PlacesFrom
    <2> HIDE DEF here, next_ones, matches
    <2>3. QED
      BY <1>1, <1>2, <2>1, <2>2, FS_AddElement
  <1>5. QED
    BY <1>1, <1>2, <1>3, <1>4

LEMMA CountsPlaces ==
  ASSUME NEW mem, Len(mem) \in Nat, NEW substring, Len(substring) \in Nat,
         NEW s \in Int, s <= Len(mem)
  PROVE  File!CountSubstrings(mem, substring, s) =
           Cardinality(PlacesFrom(mem, substring, s, 0))
  <1> DEFINE D == 0..(Len(mem) + 1)
             stop == s - Len(substring) + 1
             Body(g) ==
               [j \in D |-> IF j >= stop THEN 0
                            ELSE (IF File!StrncasecmpIsZero(mem, j, substring) THEN 1 ELSE 0)
                                   + g[j + 1]]
             count == CHOOSE g : g = Body(g)
             right == [j \in D |-> Cardinality(PlacesFrom(mem, substring, s, j))]
  <1>1. stop \in Int /\ stop <= Len(mem) + 1 /\ 0 \in D /\ Len(mem) + 1 \in D
        /\ \A j \in D : j \in Nat /\ (j < stop => j + 1 \in D)
    OBVIOUS
  <1>2. right = Body(right)
    <2>1. ASSUME NEW j \in D PROVE right[j] = Body(right)[j]
      <3>1. CASE j >= stop
        BY <1>1, <3>1, PlacesFinite
      <3>2. CASE ~(j >= stop)
        <4>1. j < stop /\ j + 1 \in D
          BY <1>1, <3>2
        <4>2. QED
          BY <1>1, <3>2, <4>1, PlacesFinite
      <3>3. QED
        BY <3>1, <3>2
    <2>2. QED
      BY <2>1
  <1>3. count = Body(count)
    BY <1>2
  <1>4. File!CountSubstrings(mem, substring, s) = count[0]
    BY DEF File!CountSubstrings
  <1> DEFINE same == {j \in D : count[j] = right[j]}
  <1>5. Len(mem) + 1 \in same
    <2>1. Len(mem) + 1 >= stop /\ Len(mem) + 1 \in D
      BY <1>1
    <2>2. count[Len(mem) + 1] = 0
      BY <1>3, <2>1
    <2>3. right[Len(mem) + 1] = 0
      BY <1>2, <2>1
    <2>4. QED
      BY <2>1, <2>2, <2>3
  <1>6. ASSUME NEW i \in 0..Len(mem), i + 1 \in same PROVE i \in same
    <2>1. i \in D /\ i + 1 \in D /\ count[i + 1] = right[i + 1]
      BY <1>6
    <2> HIDE DEF count, right, D
    <2>2. count[i] = Body(count)[i] /\ right[i] = Body(right)[i]
      BY <1>2, <1>3
    <2>3. Body(count)[i] = Body(right)[i]
      BY <2>1
    <2>4. QED
      BY <2>1, <2>2, <2>3
  <1> HIDE DEF count, right
  <1>7. 0 \in same
    <2> HIDE DEF same
    <2>1. Len(mem) + 1 \in Nat /\ (Len(mem) + 1) - 1 = Len(mem)
      OBVIOUS
    <2>2. QED
      BY <1>5, <1>6, <2>1, DownTo0
  <1>8. count[0] = right[0]
    BY <1>7
  <1>9. QED
    BY <1>1, <1>4, <1>8 DEF right

-----------------------------------------------------------------------------
(* The counter's invariant.  Its statements, and what it knows by then:    *)
FileTypes ==
  /\ IsSequence(text) /\ present \in BOOLEAN /\ changed \in BOOLEAN
  /\ at \in {"open", "stat", "calloc", "fopen", "read", "counted", "failed"}
  /\ size \in Nat /\ ptr \in Nat /\ offset \in Nat /\ ptr <= size
  /\ reported \in Seq(Nat) /\ Len(reported) <= Len(Arguments)
  /\ IsSequence(memory)

\* Nothing is reported before the buffer is read, and nothing read after.
ReportsRead ==
  /\ reported # <<>> => at \in {"read", "counted", "failed"} /\ ptr = size
  /\ at \in {"fopen", "read"} \/ reported # <<>> => Len(memory) = size
  /\ at \in {"open", "stat", "calloc", "fopen"} => ptr = 0 /\ offset = 0

\* Who has opened the file that nobody changed has found its length, and
\* has in the buffer what it has read.
ReadsText ==
  ~changed =>
    /\ at = "read" => present
    /\ present /\ (at \in {"calloc", "fopen", "read"} \/ reported # <<>>) => size = Len(text)
    /\ reported # <<>> => present
    /\ present /\ (at = "read" \/ reported # <<>>) =>
         offset = ptr /\ \A k \in 1..ptr : memory[k] = text[k]

LEMMA FileCardinality == \A S : File!Cardinality(S) = Cardinality(S)
  BY DEF File!Cardinality, Cardinality

\* The report of argument i, for a file, a buffer and its length.
ReportRight(i, n, contents, same, mem, length) ==
  /\ same /\ length < IntHalf => n = Cardinality(File!Occurrences(contents, Arguments[i]))
  /\ n <= Cardinality({j \in 0..(length - Len(Arguments[i])) :
                         File!StrncasecmpIsZero(mem, j, Arguments[i])})

AllRight == \A i \in DOMAIN reported : ReportRight(i, reported[i], text, ~changed, memory, size)

LEMMA ReportsRight == CountsOccurrences <=> AllRight
  BY FileCardinality DEF CountsOccurrences, File!CountsOccurrences, AllRight, ReportRight

FileInv ==
  /\ FileTypes /\ ReportsRead /\ ReadsText
  /\ at = "open" => system_flag
  /\ at \in {"stat", "calloc"} /\ system_flag /\ ~changed => present
  /\ AllRight

LEMMA SequenceShape ==
  ASSUME NEW s, IsSequence(s)
  PROVE  Len(s) \in Nat /\ DOMAIN s = 1..Len(s) /\ s = [k \in 1..Len(s) |-> s[k]]
  BY DEF IsSequence

LEMMA IsASequence ==
  ASSUME NEW n \in Nat, NEW s, s = [k \in 1..n |-> s[k]]
  PROVE  IsSequence(s) /\ Len(s) = n /\ DOMAIN s = 1..n
  <1>1. DOMAIN s = 1..n
    OBVIOUS
  <1>2. s \in [1..n -> {s[k] : k \in DOMAIN s}]
    BY <1>1
  <1>3. s \in Seq({s[k] : k \in DOMAIN s})
    BY <1>2, SeqDef
  <1>4. Len(s) \in Nat /\ 1..Len(s) = 1..n
    BY <1>1, <1>3
  <1>5. Len(s) = n
    BY <1>4
  <1>6. QED
    BY <1>1, <1>3, <1>5 DEF IsSequence

(* While the buffer and the file stay as they are, so do the counts.       *)
LEMMA CountsKept ==
  ASSUME AllRight, reported' = reported, size' = size, memory' = memory,
         ~changed' => ~changed /\ text' = text
  PROVE  AllRight'
  <1> SUFFICES ASSUME NEW i \in DOMAIN reported
               PROVE  ReportRight(i, reported[i], text', ~changed', memory, size)
    BY DEF AllRight
  <1>1. ReportRight(i, reported[i], text, ~changed, memory, size)
    BY DEF AllRight
  <1>2. QED
    BY <1>1 DEF ReportRight

LEMMA NoCountYet ==
  ASSUME reported' = <<>>
  PROVE  AllRight'
  BY DEF AllRight

LEMMA FileInitInv == File!Init => FileInv
  <1> SUFFICES ASSUME File!Init PROVE FileInv
    OBVIOUS
  <1>1. IsSequence(text) /\ IsSequence(Arguments)
    BY CountAssumption DEF File!Init
  <1>2. IsSequence(<<>>) /\ Len(<<>>) = 0
    <2>1. <<>> = [k \in 1..0 |-> <<>>[k]]
      OBVIOUS
    <2>2. QED
      BY <2>1, IsASequence
  <1>3. Len(Arguments) \in Nat
    BY <1>1, SequenceShape
  <1>4. FileTypes
    <2>1. IsSequence(memory) /\ reported \in Seq(Nat) /\ Len(reported) = 0
      BY <1>2 DEF File!Init
    <2>2. /\ at \in {"open", "stat"} /\ size = 0 /\ ptr = 0 /\ offset = 0
          /\ changed = FALSE /\ present \in BOOLEAN
      BY DEF File!Init
    <2>3. size \in Nat /\ ptr \in Nat /\ offset \in Nat /\ ptr <= size
      BY <2>2
    <2>4. Len(reported) <= Len(Arguments)
      BY <1>3, <2>1
    <2>5. /\ at \in {"open", "stat", "calloc", "fopen", "read", "counted", "failed"}
          /\ changed \in BOOLEAN
      BY <2>2
    <2>6. QED
      BY <1>1, <2>1, <2>2, <2>3, <2>4, <2>5 DEF FileTypes
  <1>5. ReportsRead /\ ReadsText
    BY DEF ReportsRead, ReadsText, File!Init
  <1>6. AllRight
    BY DEF AllRight, File!Init
  <1>7. QED
    BY <1>4, <1>5, <1>6 DEF FileInv, File!Init

LEMMA ElsewhereInv ==
  ASSUME FileInv, File!Remove \/ \E contents \in Contents : File!Rewrite(contents)
  PROVE  FileInv'
  <1>1. IsSequence(text')
    BY CountAssumption DEF File!Remove, File!Rewrite, FileInv, FileTypes
  <1>2. /\ <<at, size, memory, ptr, offset, reported, system_flag>>' =
            <<at, size, memory, ptr, offset, reported, system_flag>>
        /\ changed' = TRUE /\ present' \in BOOLEAN
    BY DEF File!Remove, File!Rewrite, FileInv, FileTypes
  <1>3. AllRight'
    BY <1>2, CountsKept DEF FileInv
  <1>4. FileTypes' /\ ReportsRead' /\ ReadsText'
    BY <1>1, <1>2 DEF FileInv, FileTypes, ReportsRead, ReadsText, IsSequence
  <1>5. QED
    BY <1>2, <1>3, <1>4 DEF FileInv

LEMMA OpeningInv ==
  ASSUME FileInv, File!Open \/ File!OpenFails \/ File!CallocFails \/ File!Close
  PROVE  FileInv'
  <1>1. <<text, present, changed, size, memory, ptr, offset, reported, system_flag>>' =
          <<text, present, changed, size, memory, ptr, offset, reported, system_flag>>
    BY DEF File!Open, File!OpenFails, File!CallocFails, File!Close, File!found
  <1>2. AllRight'
    BY <1>1, CountsKept DEF FileInv
  <1>3. \/ at = "open" /\ at' = "stat" /\ present
        \/ at = "fopen" /\ at' = "read" /\ present
        \/ at \in {"open", "fopen", "calloc", "read"} /\ at' = "failed"
        \/ at = "read" /\ at' = "counted" /\ ptr = size
    BY DEF File!Open, File!OpenFails, File!CallocFails, File!Close, File!Goto
  <1>4. at = "read" /\ at' # "read" => ptr = size
    BY DEF File!Open, File!OpenFails, File!CallocFails, File!Close, File!Goto
  <1>5. FileTypes' /\ ReportsRead'
    BY <1>1, <1>3, <1>4 DEF FileInv, FileTypes, ReportsRead, IsSequence
  <1>6. ReadsText'
    BY <1>1, <1>3, <1>4 DEF FileInv, FileTypes, ReportsRead, ReadsText
  <1>7. QED
    BY <1>1, <1>2, <1>3, <1>5, <1>6 DEF FileInv

LEMMA StatInv ==
  ASSUME FileInv, File!Stat
  PROVE  FileInv'
  <1>1. /\ <<text, present, changed, memory, ptr, offset, reported, system_flag>>' =
            <<text, present, changed, memory, ptr, offset, reported, system_flag>>
        /\ at = "stat" /\ at' = "calloc"
    BY DEF File!Stat, File!found, File!Goto
  <1>2. size' \in Nat /\ (present => size' = Len(text))
    <2>1. Len(text) \in Nat /\ \A n \in File!Sizes : n \in Nat
      BY CountAssumption, SequenceShape DEF File!Sizes, FileInv, FileTypes
    <2>2. QED
      BY <2>1 DEF File!Stat
  <1>3. reported = <<>> /\ ptr = 0 /\ offset = 0
    BY <1>1 DEF FileInv, ReportsRead
  <1>4. AllRight'
    BY <1>1, <1>3, NoCountYet
  <1>5. FileTypes' /\ ReportsRead' /\ ReadsText'
    BY <1>1, <1>2, <1>3 DEF FileInv, FileTypes, ReportsRead, ReadsText, IsSequence
  <1>6. system_flag => present \/ changed
    BY <1>1 DEF FileInv
  <1>7. QED
    BY <1>1, <1>4, <1>5, <1>6 DEF FileInv

LEMMA CallocInv ==
  ASSUME FileInv, File!Calloc
  PROVE  FileInv'
  <1>1. /\ <<text, present, changed, size, ptr, offset, reported, system_flag>>' =
            <<text, present, changed, size, ptr, offset, reported, system_flag>>
        /\ at = "calloc" /\ at' = IF system_flag THEN "read" ELSE "fopen"
    BY DEF File!Calloc, File!found, File!Goto
  <1>2. size \in Nat /\ reported = <<>> /\ ptr = 0 /\ offset = 0
    BY <1>1 DEF FileInv, FileTypes, ReportsRead
  <1>3. IsSequence(memory') /\ Len(memory') = size
    <2>1. memory' = [k \in 1..size |-> memory'[k]]
      BY DEF File!Calloc
    <2>2. QED
      BY <1>2, <2>1, IsASequence
  <1>4. AllRight'
    BY <1>1, <1>2, NoCountYet
  <1>5. FileTypes' /\ ReportsRead'
    BY <1>1, <1>2, <1>3 DEF FileInv, FileTypes, ReportsRead, IsSequence
  <1>6. ReadsText'
    BY <1>1, <1>2 DEF FileInv, ReadsText
  <1>7. QED
    BY <1>1, <1>4, <1>5, <1>6 DEF FileInv

LEMMA ReadInv ==
  ASSUME FileInv, File!Read
  PROVE  FileInv'
  <1>1. /\ <<text, present, changed, size, at, reported, system_flag>>' =
            <<text, present, changed, size, at, reported, system_flag>>
        /\ at = "read" /\ ptr < size
    BY DEF File!Read, File!found
  <1>2. /\ reported = <<>> /\ Len(memory) = size /\ IsSequence(memory)
        /\ size \in Nat /\ ptr \in Nat /\ offset \in Nat
    BY <1>1 DEF FileInv, FileTypes, ReportsRead
  <1>3. IsSequence(memory') /\ Len(memory') = size
    <2>1. memory = [k \in 1..size |-> memory[k]]
      BY <1>2, SequenceShape
    <2>2. memory' = [k \in 1..size |-> memory'[k]]
      BY <2>1 DEF File!Read
    <2>3. QED
      BY <1>2, <2>2, IsASequence
  <1>4. ptr' \in Nat /\ offset' \in Nat /\ ptr' <= size
    BY <1>1, <1>2 DEF File!Read
  <1>5. AllRight'
    BY <1>1, <1>2, NoCountYet
  <1>6. FileTypes' /\ ReportsRead'
    BY <1>1, <1>2, <1>3, <1>4 DEF FileInv, FileTypes, ReportsRead, IsSequence
  <1>7. ReadsText'
    <2> SUFFICES ASSUME ~changed PROVE ReadsText'
      BY <1>1 DEF ReadsText
    <2>1. /\ present /\ size = Len(text) /\ offset = ptr
          /\ \A k \in 1..ptr : memory[k] = text[k]
      BY <1>1 DEF FileInv, ReadsText
    <2>2. /\ memory' = [memory EXCEPT ![ptr + 1] = text[ptr + 1]]
          /\ offset' = ptr + 1 /\ ptr' = ptr + 1
      BY <1>1, <2>1 DEF File!Read
    <2>3. DOMAIN memory = 1..size
      BY <1>2, SequenceShape
    <2>4. \A k \in 1..(ptr + 1) : memory'[k] = text[k]
      BY <1>1, <1>2, <2>1, <2>2, <2>3
    <2>5. QED
      BY <1>1, <1>2, <2>1, <2>2, <2>4 DEF ReadsText
  <1>8. QED
    BY <1>1, <1>5, <1>6, <1>7 DEF FileInv

LEMMA CountInv ==
  ASSUME FileInv, File!Count
  PROVE  FileInv'
  <1> DEFINE n == Len(reported)
             substring == Arguments[n + 1]
             places == PlacesFrom(memory, substring, File!AsInt(size), 0)
  <1>1. /\ <<text, present, changed, size, at, memory, ptr, offset, system_flag>>' =
            <<text, present, changed, size, at, memory, ptr, offset, system_flag>>
        /\ at = "read" /\ ptr = size /\ n < Len(Arguments)
        /\ reported' =
             Append(reported, File!CountSubstrings(memory, substring, File!AsInt(size)))
    BY DEF File!Count, File!found
  <1>2. /\ Len(memory) = size /\ IsSequence(memory) /\ IsSequence(text)
        /\ size \in Nat /\ reported \in Seq(Nat) /\ n \in Nat
    BY <1>1 DEF FileInv, FileTypes, ReportsRead
  <1>3. IsSequence(substring) /\ Len(substring) \in Nat /\ DOMAIN substring = 1..Len(substring)
    <2>1. n + 1 \in DOMAIN Arguments
      BY <1>1, <1>2, CountAssumption, SequenceShape
    <2>2. QED
      BY <2>1, CountAssumption, SequenceShape
  <1> HIDE DEF substring
  <1>4. /\ File!AsInt(size) \in Int /\ File!AsInt(size) <= size
        /\ size < IntHalf => File!AsInt(size) = size
    BY <1>2, AsIntBelow
  <1>5. File!CountSubstrings(memory, substring, File!AsInt(size)) = Cardinality(places)
    BY <1>2, <1>3, <1>4, CountsPlaces
  <1>6. Cardinality(places) \in Nat
    BY <1>3, <1>4, PlacesFinite
  <1>7. /\ reported' = Append(reported, Cardinality(places))
        /\ reported' \in Seq(Nat) /\ Len(reported') = n + 1 /\ DOMAIN reported' = 1..(n + 1)
        /\ reported' # <<>>
        /\ \A i \in 1..n : reported'[i] = reported[i] /\ i \in DOMAIN reported
        /\ reported'[n + 1] = Cardinality(places)
    <2>1. reported' = Append(reported, Cardinality(places))
      BY <1>1, <1>5
    <2> HIDE DEF places
    <2>2. QED
      BY <1>2, <1>6, <2>1
  <1>8. AllRight'
    <2> HIDE DEF places
    <2> SUFFICES ASSUME NEW i \in 1..(n + 1)
                 PROVE  ReportRight(i, reported'[i], text, ~changed, memory, size)
      BY <1>1, <1>7 DEF AllRight
    <2>1. CASE i \in 1..n
      BY <1>7, <2>1 DEF FileInv, AllRight
    <2>2. CASE i = n + 1
      <3>1. ASSUME ~changed, size < IntHalf
            PROVE  places = File!Occurrences(text, substring)
        <4>1. /\ Len(text) = size
              /\ \A k \in 1..size : memory[k] = text[k]
          BY <1>1, <3>1 DEF FileInv, ReadsText
        <4>2. ASSUME NEW j \in 0..(size - Len(substring))
              PROVE  File!StrncasecmpIsZero(memory, j, substring) <=>
                       \A k \in DOMAIN substring : text[j + k][1] = substring[k][1]
          <5>1. \A k \in DOMAIN substring : j + k \in 1..size
            BY <1>2, <1>3
          <5>2. \A k \in DOMAIN substring : memory[j + k] = text[j + k]
            BY <4>1, <5>1
          <5>3. QED
            BY <5>2 DEF File!StrncasecmpIsZero, File!Lower
        <4>3. QED
          BY <1>4, <3>1, <4>1, <4>2 DEF places, PlacesFrom, File!Occurrences
      <3> DEFINE all == {j \in 0..(size - Len(substring)) :
                           File!StrncasecmpIsZero(memory, j, substring)}
      <3>2. Cardinality(places) <= Cardinality(all)
        <4>1. places \subseteq all
          BY <1>2, <1>3, <1>4 DEF places, PlacesFrom
        <4>2. IsFiniteSet(all)
          <5>1. IsFiniteSet(0..(size - Len(substring)))
            BY <1>2, <1>3, FS_Interval
          <5>2. QED
            BY <5>1, FS_Subset
        <4> HIDE DEF all
        <4>3. QED
          BY <4>1, <4>2, FS_Subset
      <3>3. QED
        BY <1>7, <2>2, <3>1, <3>2 DEF ReportRight, substring
    <2>3. QED
      BY <1>2, <2>1, <2>2
  <1> HIDE DEF places
  <1>9. FileTypes' /\ ReportsRead'
    BY <1>1, <1>2, <1>7, SequenceShape, CountAssumption
    DEF FileInv, FileTypes, ReportsRead, IsSequence
  <1>10. ReadsText'
    BY <1>1, <1>7 DEF FileInv, ReadsText
  <1>11. QED
    BY <1>1, <1>8, <1>9, <1>10 DEF FileInv

LEMMA FileStepInv ==
  ASSUME FileInv, [File!Next]_File!vars
  PROVE  FileInv'
  <1>1. CASE UNCHANGED File!vars
    <2>1. <<text, present, changed, system_flag, at, size, memory, ptr, offset, reported>>' =
            <<text, present, changed, system_flag, at, size, memory, ptr, offset, reported>>
      BY <1>1 DEF File!vars, File!found
    <2>2. AllRight'
      BY <2>1, CountsKept DEF FileInv
    <2>3. QED
      BY <2>1, <2>2 DEF FileInv, FileTypes, ReportsRead, ReadsText, IsSequence
  <1>2. CASE File!Next
    BY <1>2, ElsewhereInv, OpeningInv, StatInv, CallocInv, ReadInv, CountInv DEF File!Next
  <1>3. QED
    BY <1>1, <1>2

LEMMA FileSteps == [MCNext]_allVars => [File!Next]_File!vars
  BY DEF MCNext, OnTcp, OnChannels, OnFile, OnServers, allVars, fileVars, File!vars, File!found

(* Assignment1/jwh139-p01/p01.c 24-35, 104-111, 138-145: for files and     *)
(* arguments of any length, in both ways of reading, the recursive count   *)
(* of places is their number.                                              *)
THEOREM CountsRight == MCSpec => []CountsOccurrences
  <1>1. MCInit => FileInv
    BY FileInitInv DEF MCInit
  <1>2. FileInv /\ [MCNext]_allVars => FileInv'
    BY FileSteps, FileStepInv
  <1>3. FileInv => CountsOccurrences
    BY ReportsRight DEF FileInv
  <1>4. QED
    BY <1>1, <1>2, <1>3, PTL DEF MCSpec

=============================================================================
