---------------------------- MODULE UdpEchoProofs ----------------------------
(***************************************************************************)
(* The UDP echo programs, for any number of clients of any kinds, lines    *)
(* and sizes of the sockets' queues: a client prints its own lines in      *)
(* order, and lags behind what it sent by no more than its timeouts.       *)
(*                                                                         *)
(* Both rest on where the datagrams of a client can be: at its socket, in  *)
(* the hands of the server and in the server's queue, in this order.       *)
(***************************************************************************)
EXTENDS UdpEcho, SequenceTheorems, TLAPS

-----------------------------------------------------------------------------
(* The inductive invariant *)

Datagrams == [from : Clients, line : Nat]

Statements == {"read", "arm", "enter", "wait", "ready", "disarm", "exited"}

TypeOK ==
  /\ srvq \in Seq(Datagrams)
  /\ msg \in Datagrams \cup {None}
  /\ cliq \in [Clients -> Seq(Datagrams)]
  /\ mode \in [Clients -> Modes]
  /\ pc \in [Clients -> Statements]
  /\ line \in [Clients -> Nat]
  /\ timer \in [Clients -> BOOLEAN]
  /\ printed \in [Clients -> Datagrams]
  /\ timeouts \in [Clients -> Nat]

\* A line that c has sent and not printed yet, nor any later one
Unprinted(c, n) == printed[c].line < n /\ n <= line[c]

\* What waits at the socket of c are answers to c, in the order of its lines.
Answers(c) ==
  /\ \A i \in 1..Len(cliq[c]) : cliq[c][i].from = c /\ Unprinted(c, cliq[c][i].line)
  /\ \A i, j \in 1..Len(cliq[c]) : i < j => cliq[c][i].line < cliq[c][j].line

\* The datagram that the server holds comes after those answers.
Held(c) ==
  msg # None /\ msg.from = c =>
    /\ Unprinted(c, msg.line)
    /\ \A i \in 1..Len(cliq[c]) : cliq[c][i].line < msg.line

\* Those in the server's queue come after both, in the order of the lines.
Queued(c) ==
  /\ \A k \in 1..Len(srvq) : srvq[k].from = c =>
       /\ Unprinted(c, srvq[k].line)
       /\ \A i \in 1..Len(cliq[c]) : cliq[c][i].line < srvq[k].line
       /\ msg # None /\ msg.from = c => msg.line < srvq[k].line
  /\ \A k, l \in 1..Len(srvq) :
       k < l /\ srvq[k].from = c /\ srvq[l].from = c => srvq[k].line < srvq[l].line

\* All on their way in the order in which they were sent
InOrder(c) ==
  /\ printed[c].from = c /\ printed[c].line <= line[c]
  /\ Answers(c) /\ Held(c) /\ Queued(c)

\* Each line read puts c one further ahead of what it printed; an answer, or
\* a timeout, makes up for it.
Lags(c) ==
  /\ line[c] - printed[c].line <= timeouts[c] + 1
  /\ pc[c] \in {"read", "disarm", "exited"} =>
       line[c] - printed[c].line <= timeouts[c]

NoTimeouts(c) == mode[c] = "plain" => timeouts[c] = 0

ClientInv(c) == InOrder(c) /\ Lags(c) /\ NoTimeouts(c)

IInv == TypeOK /\ \A c \in Clients : ClientInv(c)

-----------------------------------------------------------------------------
(* The queue of a socket *)

(* recvfrom takes the first datagram; those behind it move up.             *)
LEMMA AfterReceive ==
  ASSUME NEW q \in Seq(Datagrams), q # <<>>
  PROVE  /\ Head(q) = q[1] /\ 1 \in 1..Len(q) /\ q[1] \in Datagrams
         /\ Tail(q) \in Seq(Datagrams)
         /\ \A i \in 1..Len(Tail(q)) : i + 1 \in 1..Len(q) /\ Tail(q)[i] = q[i + 1]
  <1>1. Len(q) \in Nat /\ Len(q) # 0
    BY EmptySeq, LenProperties
  <1>2. /\ Tail(q) \in Seq(Datagrams)
        /\ Len(Tail(q)) = Len(q) - 1
        /\ \A i \in 1..Len(Tail(q)) : Tail(q)[i] = q[i + 1]
    BY HeadTailProperties
  <1>3. 1 \in 1..Len(q) /\ \A i \in 1..Len(Tail(q)) : i + 1 \in 1..Len(q)
    BY <1>1, <1>2
  <1>4. Head(q) = q[1] /\ q[1] \in Datagrams
    BY <1>3, ElementOfSeq
  <1>5. QED
    BY <1>2, <1>3, <1>4

(* A datagram that arrives is behind the others, or dropped.               *)
LEMMA AfterArrival ==
  ASSUME NEW q \in Seq(Datagrams), NEW d \in Datagrams
  PROVE  /\ Arrive(q, d) \in Seq(Datagrams)
         /\ \A i \in 1..Len(Arrive(q, d)) :
              \/ i \in 1..Len(q) /\ Arrive(q, d)[i] = q[i]
              \/ i = Len(q) + 1 /\ Arrive(q, d)[i] = d
         /\ Len(q) \in Nat
  <1>1. Len(q) \in Nat
    BY LenProperties
  <1>2. /\ Append(q, d) \in Seq(Datagrams)
        /\ Len(Append(q, d)) = Len(q) + 1
        /\ \A i \in 1..Len(q) : Append(q, d)[i] = q[i]
        /\ Append(q, d)[Len(q) + 1] = d
    BY AppendProperties
  <1>3. CASE Len(q) < Room
    <2>1. Arrive(q, d) = Append(q, d)
      BY <1>3 DEF Arrive
    <2>2. \A i \in 1..(Len(q) + 1) : i \in 1..Len(q) \/ i = Len(q) + 1
      BY <1>1
    <2>3. QED
      BY <1>1, <1>2, <2>1, <2>2
  <1>4. CASE ~(Len(q) < Room)
    BY <1>1, <1>4 DEF Arrive
  <1>5. QED
    BY <1>3, <1>4

-----------------------------------------------------------------------------
(* What the steps of a client do, apart from how long it waits *)

\* Steps that neither send, receive nor end
Quiet(c) == Arm(c) \/ EnterReceive(c) \/ Readable(c) \/ Disarm(c)

Timeout(c) ==
  mode[c] # "plain" /\ (SigAlarm(c) \/ SelectTimeout(c) \/ SocketTimeout(c))

LEMMA ClientSteps ==
  ASSUME NEW c \in Clients, Client(c)
  PROVE  Send(c) \/ Receive(c) \/ Quiet(c) \/ Timeout(c) \/ EndOfInput(c)
  <1>1. CASE PlainClient(c)
    BY <1>1 DEF PlainClient
  <1>2. CASE AlarmClient(c)
    BY <1>2 DEF AlarmClient, Quiet, Timeout
  <1>3. CASE SelectClient(c)
    BY <1>3 DEF SelectClient, Quiet, Timeout
  <1>4. CASE SocketClient(c)
    BY <1>4 DEF SocketClient, Timeout
  <1>5. QED
    BY <1>1, <1>2, <1>3, <1>4 DEF Client

-----------------------------------------------------------------------------
(* Types *)

LEMMA ServerTypes ==
  ASSUME TypeOK, StartServer \/ StopServer \/ ServerReceives \/ ServerReplies
  PROVE  TypeOK'
  <1>1. CASE StartServer
    BY <1>1 DEF StartServer, TypeOK
  <1>2. CASE StopServer
    BY <1>2, EmptySeq DEF StopServer, TypeOK
  <1>3. CASE ServerReceives
    <2>1. srvq \in Seq(Datagrams) /\ srvq # <<>> /\ msg' = Head(srvq) /\ srvq' = Tail(srvq)
      BY <1>3 DEF ServerReceives, TypeOK
    <2>2. srvq' \in Seq(Datagrams) /\ msg' \in Datagrams
      BY <2>1, AfterReceive
    <2>3. QED
      BY <1>3, <2>2 DEF ServerReceives, TypeOK
  <1>4. CASE ServerReplies
    <2>1. msg \in Datagrams /\ msg.from \in Clients
      BY <1>4 DEF ServerReplies, TypeOK, Datagrams
    <2>2. Arrive(cliq[msg.from], msg) \in Seq(Datagrams)
      BY <2>1, AfterArrival DEF TypeOK
    <2>3. cliq' \in [Clients -> Seq(Datagrams)]
      BY <1>4, <2>1, <2>2 DEF ServerReplies, TypeOK
    <2>4. QED
      BY <1>4, <2>3 DEF ServerReplies, TypeOK
  <1>5. QED
    BY <1>1, <1>2, <1>3, <1>4

LEMMA ClientTypes ==
  ASSUME TypeOK, NEW c \in Clients, Client(c)
  PROVE  TypeOK'
  <1>1. CASE Send(c)
    <2>1. line[c] + 1 \in Nat /\ line' = [line EXCEPT ![c] = @ + 1]
      BY <1>1 DEF Send, TypeOK
    <2>2. line' \in [Clients -> Nat] /\ line'[c] = line[c] + 1
      BY <2>1 DEF TypeOK
    <2>3. [from |-> c, line |-> line'[c]] \in Datagrams
      BY <2>1, <2>2 DEF Datagrams
    <2>4. srvq' \in Seq(Datagrams)
      BY <1>1, <2>3, AfterArrival DEF Send, TypeOK
    <2>5. pc' \in [Clients -> Statements]
      BY <1>1 DEF Send, Goto, TypeOK, Statements
    <2>6. QED
      BY <1>1, <2>2, <2>4, <2>5 DEF Send, TypeOK
  <1>2. CASE Receive(c)
    <2>1. cliq[c] \in Seq(Datagrams) /\ cliq[c] # <<>>
      BY <1>2 DEF Receive, TypeOK
    <2>2. Head(cliq[c]) \in Datagrams /\ Tail(cliq[c]) \in Seq(Datagrams)
      BY <2>1, AfterReceive
    <2>3. printed' \in [Clients -> Datagrams] /\ cliq' \in [Clients -> Seq(Datagrams)]
      BY <1>2, <2>2 DEF Receive, TypeOK
    <2>4. pc' \in [Clients -> Statements]
      BY <1>2 DEF Receive, Goto, TypeOK, Statements
    <2>5. QED
      BY <1>2, <2>3, <2>4 DEF Receive, server, TypeOK
  <1>3. CASE Quiet(c)
    <2>1. pc' \in [Clients -> Statements]
      BY <1>3 DEF Quiet, Arm, EnterReceive, Readable, Disarm, Goto, TypeOK, Statements
    <2>2. timer' \in [Clients -> BOOLEAN]
      BY <1>3 DEF Quiet, Arm, EnterReceive, Readable, Disarm, TypeOK
    <2>3. QED
      BY <1>3, <2>1, <2>2 DEF Quiet, Arm, EnterReceive, Readable, Disarm, server, TypeOK
  <1>4. CASE Timeout(c)
    <2>1. pc' \in [Clients -> Statements] /\ timeouts' \in [Clients -> Nat]
      <3>1. GiveUp(c) \/ UNCHANGED <<pc, timeouts>>
        BY <1>4 DEF Timeout, SigAlarm, SelectTimeout, SocketTimeout
      <3>2. CASE GiveUp(c)
        BY <3>2 DEF GiveUp, Goto, TypeOK, Statements
      <3>3. CASE UNCHANGED <<pc, timeouts>>
        BY <3>3 DEF TypeOK
      <3>4. QED
        BY <3>1, <3>2, <3>3
    <2>2. timer' \in [Clients -> BOOLEAN]
      BY <1>4 DEF Timeout, SigAlarm, SelectTimeout, SocketTimeout, TypeOK
    <2>3. QED
      BY <1>4, <2>1, <2>2 DEF Timeout, SigAlarm, SelectTimeout, SocketTimeout,
                              server, TypeOK
  <1>5. CASE EndOfInput(c)
    <2>1. pc' \in [Clients -> Statements] /\ cliq' \in [Clients -> Seq(Datagrams)]
      BY <1>5, EmptySeq DEF EndOfInput, Goto, TypeOK, Statements
    <2>2. QED
      BY <1>5, <2>1 DEF EndOfInput, server, TypeOK
  <1>6. QED
    BY <1>1, <1>2, <1>3, <1>4, <1>5, ClientSteps

-----------------------------------------------------------------------------
(* The order of the datagrams *)

\* The types of what the order of c's datagrams is about
LEMMA OrderTypes ==
  ASSUME TypeOK, NEW c \in Clients
  PROVE  /\ line[c] \in Nat /\ printed[c].line \in Nat
         /\ cliq[c] \in Seq(Datagrams)
         /\ \A i \in 1..Len(cliq[c]) : cliq[c][i].line \in Nat
         /\ \A k \in 1..Len(srvq) : srvq[k] \in Datagrams /\ srvq[k].line \in Nat
         /\ msg # None => msg \in Datagrams /\ msg.line \in Nat /\ msg.from \in Clients
  <1>1. cliq[c] \in Seq(Datagrams) /\ srvq \in Seq(Datagrams)
    BY DEF TypeOK
  <1>2. \A i \in 1..Len(cliq[c]) : cliq[c][i] \in Datagrams
    BY <1>1, ElementOfSeq
  <1>3. \A k \in 1..Len(srvq) : srvq[k] \in Datagrams
    BY <1>1, ElementOfSeq
  <1>4. \A d \in Datagrams : d.line \in Nat /\ d.from \in Clients
    BY DEF Datagrams
  <1>5. QED
    BY <1>1, <1>2, <1>3, <1>4 DEF TypeOK

\* After the step
UnprintedThen(c, n) == printed'[c].line < n /\ n <= line'[c]

(* A step that leaves the datagrams and the lines of c alone.              *)
LEMMA OrderFrame ==
  ASSUME NEW c \in Clients, InOrder(c), UNCHANGED <<srvq, msg>>,
         cliq'[c] = cliq[c], printed'[c] = printed[c], line'[c] = line[c]
  PROVE  InOrder(c)'
  BY DEF InOrder, Answers, Held, Queued, Unprinted

(* A server that ends takes its socket's queue with it.                    *)
LEMMA StopOrder ==
  ASSUME NEW c \in Clients, InOrder(c), StopServer
  PROVE  InOrder(c)'
  <1>1. UNCHANGED <<cliq, printed, line>> /\ msg' = None /\ srvq' = <<>>
    BY DEF StopServer
  <1>2. Answers(c)' /\ Held(c)'
    BY <1>1 DEF InOrder, Answers, Held, Unprinted
  <1>3. 1..Len(srvq') = {}
    BY <1>1
  <1>4. Queued(c)'
    BY <1>3 DEF Queued
  <1>5. QED
    BY <1>1, <1>2, <1>4 DEF InOrder

(* The first datagram of the server's queue comes before those behind it.  *)
LEMMA ServerReceivesOrder ==
  ASSUME NEW c \in Clients, TypeOK, InOrder(c), ServerReceives
  PROVE  InOrder(c)'
  <1>1. /\ UNCHANGED <<cliq, printed, line>> /\ msg = None
        /\ srvq # <<>> /\ srvq \in Seq(Datagrams)
        /\ msg' = Head(srvq) /\ srvq' = Tail(srvq)
    BY DEF ServerReceives, TypeOK
  <1>2. /\ msg' = srvq[1] /\ 1 \in 1..Len(srvq)
        /\ \A i \in 1..Len(srvq') : i + 1 \in 1..Len(srvq) /\ srvq'[i] = srvq[i + 1]
    BY <1>1, AfterReceive
  <1>3. Answers(c)'
    BY <1>1 DEF InOrder, Answers, Unprinted
  <1>4. Held(c)'
    <2>1. srvq[1].from = c =>
            /\ Unprinted(c, srvq[1].line)
            /\ \A i \in 1..Len(cliq[c]) : cliq[c][i].line < srvq[1].line
      BY <1>2 DEF InOrder, Queued
    <2>2. QED
      BY <1>1, <1>2, <2>1 DEF Held, Unprinted
  <1>5. Queued(c)'
    <2>1. ASSUME NEW k \in 1..Len(srvq'), srvq'[k].from = c
          PROVE  /\ Unprinted(c, srvq'[k].line)
                 /\ \A i \in 1..Len(cliq[c]) : cliq[c][i].line < srvq'[k].line
                 /\ msg'.from = c => msg'.line < srvq'[k].line
      <3>1. k + 1 \in 1..Len(srvq) /\ srvq'[k] = srvq[k + 1] /\ 1 < k + 1
        BY <1>2
      <3>2. QED
        BY <1>2, <2>1, <3>1 DEF InOrder, Queued
    <2>2. ASSUME NEW k \in 1..Len(srvq'), NEW l \in 1..Len(srvq'), k < l,
                 srvq'[k].from = c, srvq'[l].from = c
          PROVE  srvq'[k].line < srvq'[l].line
      <3>1. /\ k + 1 \in 1..Len(srvq) /\ srvq'[k] = srvq[k + 1]
            /\ l + 1 \in 1..Len(srvq) /\ srvq'[l] = srvq[l + 1]
            /\ k + 1 < l + 1
        BY <1>2, <2>2
      <3>2. QED
        BY <2>2, <3>1 DEF InOrder, Queued
    <2>3. QED
      BY <1>1, <2>1, <2>2 DEF Queued, Unprinted
  <1>6. QED
    BY <1>1, <1>3, <1>4, <1>5 DEF InOrder

(* The answer goes behind the answers that wait at the client's socket.    *)
LEMMA ServerRepliesOrder ==
  ASSUME NEW c \in Clients, TypeOK, InOrder(c), ServerReplies
  PROVE  InOrder(c)'
  <1>1. /\ UNCHANGED <<srvq, printed, line>> /\ msg # None /\ msg' = None
        /\ msg \in Datagrams /\ msg.from \in Clients
    BY DEF ServerReplies, TypeOK, Datagrams
  <1>2. \/ cliq'[c] = cliq[c]
        \/ msg.from = c /\ cliq'[c] = Arrive(cliq[c], msg)
    BY <1>1 DEF ServerReplies, TypeOK
  <1>3. CASE cliq'[c] = cliq[c]
    <2>1. Answers(c)' /\ Held(c)'
      BY <1>1, <1>3 DEF InOrder, Answers, Held, Unprinted
    <2>2. Queued(c)'
      BY <1>1, <1>3 DEF InOrder, Queued, Unprinted
    <2>3. QED
      BY <1>1, <2>1, <2>2 DEF InOrder
  <1>4. CASE msg.from = c /\ cliq'[c] = Arrive(cliq[c], msg)
    <2>1. /\ Len(cliq[c]) \in Nat
          /\ \A i \in 1..Len(cliq'[c]) :
               \/ i \in 1..Len(cliq[c]) /\ cliq'[c][i] = cliq[c][i]
               \/ i = Len(cliq[c]) + 1 /\ cliq'[c][i] = msg
      <3>1. cliq[c] \in Seq(Datagrams)
        BY DEF TypeOK
      <3>2. QED
        BY <1>1, <1>4, <3>1, AfterArrival
    <2>2. /\ Unprinted(c, msg.line)
          /\ \A i \in 1..Len(cliq[c]) : cliq[c][i].line < msg.line
      BY <1>1, <1>4 DEF InOrder, Held
    <2>3. Answers(c)'
      <3>1. ASSUME NEW i \in 1..Len(cliq'[c])
            PROVE  cliq'[c][i].from = c /\ Unprinted(c, cliq'[c][i].line)
        BY <1>4, <2>1, <2>2 DEF InOrder, Answers
      <3>2. ASSUME NEW i \in 1..Len(cliq'[c]), NEW j \in 1..Len(cliq'[c]), i < j
            PROVE  cliq'[c][i].line < cliq'[c][j].line
        <4>1. i \in 1..Len(cliq[c]) /\ cliq'[c][i] = cliq[c][i]
          BY <2>1, <3>2
        <4>2. CASE j \in 1..Len(cliq[c]) /\ cliq'[c][j] = cliq[c][j]
          BY <3>2, <4>1, <4>2 DEF InOrder, Answers
        <4>3. CASE cliq'[c][j] = msg
          BY <2>2, <4>1, <4>3
        <4>4. QED
          BY <2>1, <4>2, <4>3
      <3>3. QED
        BY <1>1, <3>1, <3>2 DEF Answers, Unprinted
    <2>4. Queued(c)'
      <3>1. ASSUME NEW k \in 1..Len(srvq), srvq[k].from = c, NEW i \in 1..Len(cliq'[c])
            PROVE  cliq'[c][i].line < srvq[k].line
        BY <1>1, <1>4, <2>1, <3>1 DEF InOrder, Queued
      <3>2. QED
        BY <1>1, <3>1 DEF InOrder, Queued, Unprinted
    <2>5. QED
      BY <1>1, <2>3, <2>4 DEF InOrder, Held
  <1>5. QED
    BY <1>2, <1>3, <1>4

(* The line just read comes after all that are on their way.               *)
LEMMA SendOrder ==
  ASSUME NEW c \in Clients, TypeOK, InOrder(c), NEW d \in Clients, Send(d)
  PROVE  InOrder(c)'
  <1>1. /\ UNCHANGED <<msg, cliq, printed>>
        /\ line' = [line EXCEPT ![d] = @ + 1]
        /\ srvq \in Seq(Datagrams) /\ line \in [Clients -> Nat]
    BY DEF Send, TypeOK
  <1>2. /\ line'[d] = line[d] + 1 /\ line'[d] \in Nat
        /\ c # d => line'[c] = line[c]
    BY <1>1
  <1>3. /\ line[c] \in Nat /\ line[c] <= line'[c] /\ line'[c] \in Nat
        /\ c = d => line[c] < line'[c]
    BY <1>1, <1>2
  <1>4. PICK new \in Datagrams : new = [from |-> d, line |-> line'[d]]
    BY <1>2 DEF Datagrams
  <1>5. new.from = d /\ new.line = line'[d]
    BY <1>4
  <1>6. \A n \in Nat : Unprinted(c, n) => UnprintedThen(c, n)
    BY <1>1, <1>3 DEF Unprinted, UnprintedThen
  <1>7. Answers(c)' /\ Held(c)'
    <2>1. \A i \in 1..Len(cliq[c]) : cliq[c][i].line \in Nat
      BY OrderTypes
    <2>2. \A i \in 1..Len(cliq[c]) : UnprintedThen(c, cliq[c][i].line)
      BY <1>1, <1>6, <2>1 DEF InOrder, Answers, Unprinted, UnprintedThen
    <2>3. msg # None /\ msg.from = c => UnprintedThen(c, msg.line)
      BY <1>1, <1>6, OrderTypes DEF InOrder, Held, Unprinted, UnprintedThen
    <2>4. QED
      BY <1>1, <2>2, <2>3 DEF InOrder, Answers, Held, Unprinted, UnprintedThen
  <1>8. /\ Len(srvq) \in Nat
        /\ \A k \in 1..Len(srvq') :
             \/ k \in 1..Len(srvq) /\ srvq'[k] = srvq[k]
             \/ k = Len(srvq) + 1 /\ srvq'[k] = new
    <2>1. srvq' = srvq \/ srvq' = Arrive(srvq, new)
      BY <1>4 DEF Send
    <2>2. QED
      BY <1>1, <2>1, AfterArrival, LenProperties
  <1>9. Queued(c)'
    <2>1. c = d => /\ UnprintedThen(c, new.line)
                   /\ \A i \in 1..Len(cliq[c]) : cliq[c][i].line < new.line
                   /\ msg # None /\ msg.from = c => msg.line < new.line
                   /\ \A k \in 1..Len(srvq) : srvq[k].from = c => srvq[k].line < new.line
      <3>1. \A n \in Nat : Unprinted(c, n) /\ c = d => n < new.line
        BY <1>3, <1>5 DEF Unprinted, UnprintedThen
      <3>2. c = d => UnprintedThen(c, new.line)
        BY <1>1, <1>3, <1>5, OrderTypes DEF Unprinted, UnprintedThen, InOrder
      <3>3. c = d => \A i \in 1..Len(cliq[c]) : cliq[c][i].line < new.line
        BY <3>1, OrderTypes DEF InOrder, Answers
      <3>4. c = d => \A k \in 1..Len(srvq) : srvq[k].from = c => srvq[k].line < new.line
        BY <3>1, OrderTypes DEF InOrder, Queued
      <3>5. c = d /\ msg # None /\ msg.from = c => msg.line < new.line
        BY <3>1, OrderTypes DEF InOrder, Held
      <3>6. QED
        BY <3>2, <3>3, <3>4, <3>5
    <2>2. ASSUME NEW k \in 1..Len(srvq'), srvq'[k].from = c
          PROVE  /\ UnprintedThen(c, srvq'[k].line)
                 /\ \A i \in 1..Len(cliq[c]) : cliq[c][i].line < srvq'[k].line
                 /\ msg # None /\ msg.from = c => msg.line < srvq'[k].line
      <3>1. CASE k \in 1..Len(srvq) /\ srvq'[k] = srvq[k]
        <4>1. /\ Unprinted(c, srvq[k].line)
              /\ \A i \in 1..Len(cliq[c]) : cliq[c][i].line < srvq[k].line
              /\ msg # None /\ msg.from = c => msg.line < srvq[k].line
          BY <2>2, <3>1 DEF InOrder, Queued
        <4>2. srvq[k].line \in Nat
          BY <3>1, OrderTypes
        <4>3. QED
          BY <1>6, <3>1, <4>1, <4>2
      <3>2. CASE srvq'[k] = new
        BY <1>5, <2>1, <2>2, <3>2
      <3>3. QED
        BY <1>8, <3>1, <3>2
    <2>3. ASSUME NEW k \in 1..Len(srvq'), NEW l \in 1..Len(srvq'), k < l,
                 srvq'[k].from = c, srvq'[l].from = c
          PROVE  srvq'[k].line < srvq'[l].line
      <3>1. k \in 1..Len(srvq) /\ srvq'[k] = srvq[k]
        BY <1>8, <2>3
      <3>2. CASE l \in 1..Len(srvq) /\ srvq'[l] = srvq[l]
        BY <2>3, <3>1, <3>2 DEF InOrder, Queued
      <3>3. CASE srvq'[l] = new
        BY <1>5, <2>1, <2>3, <3>1, <3>3
      <3>4. QED
        BY <1>8, <3>2, <3>3
    <2>4. QED
      BY <1>1, <2>2, <2>3 DEF Queued, Unprinted, UnprintedThen
  <1>10. printed'[c].from = c /\ printed'[c].line <= line'[c]
    BY <1>1, <1>3, OrderTypes DEF InOrder
  <1>11. QED
    BY <1>7, <1>9, <1>10 DEF InOrder

(* The answer printed is an own one, later than the last and before all    *)
(* that are on their way.                                                  *)
LEMMA ReceiveOrder ==
  ASSUME NEW c \in Clients, TypeOK, InOrder(c), Receive(c)
  PROVE  /\ InOrder(c)'
         /\ printed'[c].from = c
         /\ printed[c].line < printed'[c].line
  <1>1. /\ UNCHANGED <<msg, srvq, line>>
        /\ cliq[c] # <<>> /\ cliq[c] \in Seq(Datagrams)
        /\ printed'[c] = Head(cliq[c]) /\ cliq'[c] = Tail(cliq[c])
    BY DEF Receive, server, TypeOK
  <1>2. /\ printed'[c] = cliq[c][1] /\ 1 \in 1..Len(cliq[c])
        /\ \A i \in 1..Len(cliq'[c]) :
             i + 1 \in 1..Len(cliq[c]) /\ cliq'[c][i] = cliq[c][i + 1]
    BY <1>1, AfterReceive
  <1>3. cliq[c][1].from = c /\ Unprinted(c, cliq[c][1].line)
    BY <1>2 DEF InOrder, Answers
  <1>4. \A n : cliq[c][1].line < n /\ Unprinted(c, n) => UnprintedThen(c, n)
    BY <1>1, <1>2 DEF Unprinted, UnprintedThen
  <1>5. Answers(c)'
    <2>1. ASSUME NEW i \in 1..Len(cliq'[c])
          PROVE  cliq'[c][i].from = c /\ UnprintedThen(c, cliq'[c][i].line)
      <3>1. i + 1 \in 1..Len(cliq[c]) /\ cliq'[c][i] = cliq[c][i + 1] /\ 1 < i + 1
        BY <1>2
      <3>2. /\ cliq[c][i + 1].from = c /\ Unprinted(c, cliq[c][i + 1].line)
            /\ cliq[c][1].line < cliq[c][i + 1].line
        BY <1>2, <3>1 DEF InOrder, Answers
      <3>3. QED
        BY <1>4, <3>1, <3>2
    <2>2. ASSUME NEW i \in 1..Len(cliq'[c]), NEW j \in 1..Len(cliq'[c]), i < j
          PROVE  cliq'[c][i].line < cliq'[c][j].line
      <3>1. /\ i + 1 \in 1..Len(cliq[c]) /\ cliq'[c][i] = cliq[c][i + 1]
            /\ j + 1 \in 1..Len(cliq[c]) /\ cliq'[c][j] = cliq[c][j + 1]
            /\ i + 1 < j + 1
        BY <1>2, <2>2
      <3>2. QED
        BY <3>1 DEF InOrder, Answers
    <2>3. QED
      BY <2>1, <2>2 DEF Answers, Unprinted, UnprintedThen
  <1>6. Held(c)'
    <2>1. msg # None /\ msg.from = c =>
            /\ Unprinted(c, msg.line) /\ cliq[c][1].line < msg.line
            /\ \A i \in 1..Len(cliq[c]) : cliq[c][i].line < msg.line
      BY <1>2 DEF InOrder, Held
    <2>2. msg # None /\ msg.from = c => UnprintedThen(c, msg.line)
      BY <1>4, <2>1
    <2>3. QED
      BY <1>1, <1>2, <2>1, <2>2 DEF Held, Unprinted, UnprintedThen
  <1>7. Queued(c)'
    <2>1. ASSUME NEW k \in 1..Len(srvq), srvq[k].from = c
          PROVE  /\ UnprintedThen(c, srvq[k].line)
                 /\ \A i \in 1..Len(cliq'[c]) : cliq'[c][i].line < srvq[k].line
                 /\ msg # None /\ msg.from = c => msg.line < srvq[k].line
      <3>1. /\ Unprinted(c, srvq[k].line)
            /\ \A i \in 1..Len(cliq[c]) : cliq[c][i].line < srvq[k].line
            /\ msg # None /\ msg.from = c => msg.line < srvq[k].line
        BY <2>1 DEF InOrder, Queued
      <3>2. UnprintedThen(c, srvq[k].line)
        BY <1>2, <1>4, <3>1
      <3>3. QED
        BY <1>2, <3>1, <3>2
    <2>2. \A k, l \in 1..Len(srvq) :
            k < l /\ srvq[k].from = c /\ srvq[l].from = c => srvq[k].line < srvq[l].line
      BY DEF InOrder, Queued
    <2>3. QED
      BY <1>1, <2>1, <2>2 DEF Queued, Unprinted, UnprintedThen
  <1>8. /\ printed'[c].from = c /\ printed'[c].line <= line'[c]
        /\ printed[c].line < printed'[c].line
    BY <1>1, <1>2, <1>3 DEF Unprinted, UnprintedThen
  <1>9. QED
    BY <1>5, <1>6, <1>7, <1>8 DEF InOrder

(* exit drops the answers that wait at the socket.                         *)
LEMMA EndOrder ==
  ASSUME NEW c \in Clients, TypeOK, InOrder(c), EndOfInput(c)
  PROVE  InOrder(c)'
  <1>1. UNCHANGED <<msg, srvq, line, printed>> /\ cliq'[c] = <<>>
    BY DEF EndOfInput, server, TypeOK
  <1>2. 1..Len(cliq'[c]) = {}
    BY <1>1
  <1>3. Answers(c)' /\ Held(c)'
    BY <1>1, <1>2 DEF InOrder, Answers, Held, Unprinted, UnprintedThen
  <1>4. Queued(c)'
    BY <1>1, <1>2 DEF InOrder, Queued, Unprinted, UnprintedThen
  <1>5. QED
    BY <1>1, <1>3, <1>4 DEF InOrder

-----------------------------------------------------------------------------
(* The lag of what a client prints *)

(* What the other actors do leaves the lag of c as it is.                  *)
LEMMA LagFrame ==
  ASSUME NEW c \in Clients, Lags(c), NoTimeouts(c),
         UNCHANGED mode, line'[c] = line[c], printed'[c] = printed[c],
         timeouts'[c] = timeouts[c],
         pc'[c] = pc[c] \/ pc[c] \in {"read", "disarm"} \/ pc'[c] \in {"enter", "wait", "ready"}
  PROVE  Lags(c)' /\ NoTimeouts(c)'
  BY DEF Lags, NoTimeouts

(* A line that is read adds one to the lag.                                *)
LEMMA SendLag ==
  ASSUME NEW c \in Clients, TypeOK, Lags(c), NoTimeouts(c), Send(c)
  PROVE  Lags(c)' /\ NoTimeouts(c)'
  <1>1. /\ pc[c] = "read" /\ pc'[c] \in {"arm", "wait"}
        /\ line'[c] = line[c] + 1 /\ UNCHANGED <<mode, printed, timeouts>>
    BY DEF Send, Goto, TypeOK
  <1>2. line[c] \in Nat /\ printed[c].line \in Nat /\ timeouts[c] \in Nat
    BY OrderTypes DEF TypeOK
  <1>3. QED
    BY <1>1, <1>2 DEF Lags, NoTimeouts

(* An answer is of a later line than the last one and takes one away.      *)
LEMMA ReceiveLag ==
  ASSUME NEW c \in Clients, TypeOK, TypeOK', Lags(c), NoTimeouts(c), Receive(c),
         printed[c].line < printed'[c].line
  PROVE  Lags(c)' /\ NoTimeouts(c)'
  <1>1. UNCHANGED <<mode, line, timeouts>>
    BY DEF Receive
  <1>2. line[c] \in Nat /\ printed[c].line \in Nat /\ timeouts[c] \in Nat
    BY OrderTypes DEF TypeOK
  <1>3. printed'[c].line \in Nat
    BY DEF TypeOK, Datagrams
  <1>4. QED
    BY <1>1, <1>2, <1>3 DEF Lags, NoTimeouts

(* A timeout is counted, and only clients that set one have it.            *)
LEMMA TimeoutLag ==
  ASSUME NEW c \in Clients, TypeOK, Lags(c), NoTimeouts(c), Timeout(c)
  PROVE  Lags(c)' /\ NoTimeouts(c)'
  <1>1. UNCHANGED <<mode, line, printed>> /\ mode[c] # "plain"
    BY DEF Timeout, SigAlarm, SelectTimeout, SocketTimeout
  <1>2. line[c] \in Nat /\ printed[c].line \in Nat /\ timeouts[c] \in Nat
    BY OrderTypes DEF TypeOK
  <1>3. \/ timeouts'[c] = timeouts[c] + 1
        \/ UNCHANGED <<pc, timeouts>>
    BY DEF Timeout, SigAlarm, SelectTimeout, SocketTimeout, GiveUp, TypeOK
  <1>4. QED
    BY <1>1, <1>2, <1>3 DEF Lags, NoTimeouts

-----------------------------------------------------------------------------
(* The invariant *)

(* A step of another client than c.                                        *)
LEMMA OthersInv ==
  ASSUME NEW c \in Clients, TypeOK, ClientInv(c), NEW d \in Clients, d # c, Client(d)
  PROVE  ClientInv(c)'
  <1>1. /\ UNCHANGED <<msg, mode>>
        /\ cliq'[c] = cliq[c] /\ printed'[c] = printed[c] /\ line'[c] = line[c]
        /\ timeouts'[c] = timeouts[c] /\ pc'[c] = pc[c]
    <2>1. CASE Send(d)
      BY <2>1 DEF Send, Goto, TypeOK
    <2>2. CASE Receive(d)
      BY <2>2 DEF Receive, Goto, server, TypeOK
    <2>3. CASE Quiet(d)
      BY <2>3 DEF Quiet, Arm, EnterReceive, Readable, Disarm, Goto, server, TypeOK
    <2>4. CASE Timeout(d)
      <3>1. GiveUp(d) \/ UNCHANGED <<pc, timeouts>>
        BY <2>4 DEF Timeout, SigAlarm, SelectTimeout, SocketTimeout
      <3>2. pc'[c] = pc[c] /\ timeouts'[c] = timeouts[c]
        BY <3>1 DEF GiveUp, Goto, TypeOK
      <3>3. UNCHANGED <<server, cliq, mode, line, printed>>
        BY <2>4 DEF Timeout, SigAlarm, SelectTimeout, SocketTimeout
      <3>4. QED
        BY <3>2, <3>3 DEF server
    <2>5. CASE EndOfInput(d)
      BY <2>5 DEF EndOfInput, Goto, server, TypeOK
    <2>6. QED
      BY <2>1, <2>2, <2>3, <2>4, <2>5, ClientSteps
  <1>2. InOrder(c)'
    <2>1. CASE Send(d)
      BY <2>1, SendOrder DEF ClientInv
    <2>2. CASE ~Send(d)
      <3>1. UNCHANGED <<srvq, msg>>
        BY <2>2, ClientSteps DEF Receive, Quiet, Arm, EnterReceive, Readable, Disarm,
           Timeout, SigAlarm, SelectTimeout, SocketTimeout, EndOfInput, server
      <3>2. QED
        BY <1>1, <3>1, OrderFrame DEF ClientInv
    <2>3. QED
      BY <2>1, <2>2
  <1>3. Lags(c)' /\ NoTimeouts(c)'
    BY <1>1, LagFrame DEF ClientInv
  <1>4. QED
    BY <1>2, <1>3 DEF ClientInv

(* A step of c; what it prints is its own and later than what it printed.  *)
LEMMA OwnInv ==
  ASSUME NEW c \in Clients, TypeOK, TypeOK', ClientInv(c), Client(c)
  PROVE  /\ ClientInv(c)'
         /\ printed'[c] # printed[c] =>
              printed'[c].from = c /\ printed'[c].line > printed[c].line
  <1> USE DEF ClientInv
  <1>1. CASE Send(c)
    <2>1. printed' = printed
      BY <1>1 DEF Send
    <2>2. QED
      BY <1>1, <2>1, SendOrder, SendLag
  <1>2. CASE Receive(c)
    <2>1. InOrder(c)' /\ printed'[c].from = c /\ printed[c].line < printed'[c].line
      BY <1>2, ReceiveOrder
    <2>2. Lags(c)' /\ NoTimeouts(c)'
      BY <1>2, <2>1, ReceiveLag
    <2>3. printed[c].line \in Nat /\ printed'[c].line \in Nat
      BY DEF TypeOK, Datagrams
    <2>4. QED
      BY <2>1, <2>2, <2>3
  <1>3. CASE Quiet(c)
    <2>1. UNCHANGED <<srvq, msg, cliq, mode, line, printed, timeouts>>
      BY <1>3 DEF Quiet, Arm, EnterReceive, Readable, Disarm, server
    <2>2. pc[c] = "disarm" \/ pc'[c] \in {"enter", "wait", "ready"}
      BY <1>3 DEF Quiet, Arm, EnterReceive, Readable, Disarm, Goto, TypeOK
    <2>3. InOrder(c)'
      BY <2>1, OrderFrame
    <2>4. QED
      BY <2>1, <2>2, <2>3, LagFrame
  <1>4. CASE Timeout(c)
    <2>1. UNCHANGED <<srvq, msg, cliq, line, printed>>
      BY <1>4 DEF Timeout, SigAlarm, SelectTimeout, SocketTimeout, server
    <2>2. InOrder(c)'
      BY <2>1, OrderFrame
    <2>3. QED
      BY <1>4, <2>1, <2>2, TimeoutLag
  <1>5. CASE EndOfInput(c)
    <2>1. UNCHANGED <<mode, line, printed, timeouts>> /\ pc[c] = "read"
      BY <1>5 DEF EndOfInput
    <2>2. InOrder(c)'
      BY <1>5, EndOrder
    <2>3. QED
      BY <2>1, <2>2, LagFrame
  <1>6. QED
    BY <1>1, <1>2, <1>3, <1>4, <1>5, ClientSteps

(* A step of the server.                                                   *)
LEMMA ServerInv ==
  ASSUME NEW c \in Clients, TypeOK, ClientInv(c),
         StartServer \/ StopServer \/ ServerReceives \/ ServerReplies
  PROVE  ClientInv(c)' /\ UNCHANGED printed
  <1>1. UNCHANGED <<mode, pc, line, printed, timeouts>>
    BY DEF StartServer, StopServer, ServerReceives, ServerReplies
  <1>2. Lags(c)' /\ NoTimeouts(c)'
    BY <1>1, LagFrame DEF ClientInv
  <1>3. InOrder(c)'
    <2>1. CASE StartServer
      <3>1. UNCHANGED <<srvq, msg, cliq>>
        BY <2>1 DEF StartServer
      <3>2. QED
        BY <1>1, <3>1, OrderFrame DEF ClientInv
    <2>2. CASE StopServer
      BY <2>2, StopOrder DEF ClientInv
    <2>3. CASE ServerReceives
      BY <2>3, ServerReceivesOrder DEF ClientInv
    <2>4. CASE ServerReplies
      BY <2>4, ServerRepliesOrder DEF ClientInv
    <2>5. QED
      BY <2>1, <2>2, <2>3, <2>4
  <1>4. QED
    BY <1>1, <1>2, <1>3 DEF ClientInv

(* Initially nothing is on its way.                                        *)
LEMMA InitInv == Init => IInv
  <1> SUFFICES ASSUME Init PROVE IInv
    OBVIOUS
  <1>1. TypeOK
    <2>1. \A c \in Clients : [from |-> c, line |-> 0] \in Datagrams
      BY DEF Datagrams
    <2>2. printed \in [Clients -> Datagrams]
      BY <2>1 DEF Init
    <2>3. srvq \in Seq(Datagrams) /\ cliq \in [Clients -> Seq(Datagrams)]
      BY EmptySeq DEF Init
    <2>4. QED
      BY <2>2, <2>3 DEF Init, TypeOK, Statements
  <1>2. ASSUME NEW c \in Clients
        PROVE  ClientInv(c)
    <2>1. /\ srvq = <<>> /\ msg = None /\ cliq[c] = <<>> /\ line[c] = 0
          /\ printed[c].from = c /\ printed[c].line = 0 /\ timeouts[c] = 0
      BY DEF Init
    <2>2. 1..Len(srvq) = {} /\ 1..Len(cliq[c]) = {}
      BY <2>1
    <2>3. InOrder(c)
      BY <2>1, <2>2 DEF InOrder, Answers, Held, Queued
    <2>4. Lags(c) /\ NoTimeouts(c)
      BY <2>1 DEF Lags, NoTimeouts
    <2>5. QED
      BY <2>3, <2>4 DEF ClientInv
  <1>3. QED
    BY <1>1, <1>2 DEF IInv

(* Every step keeps the types and, for each client, the order and the lag, *)
(* and what a client prints is new only when it is later.                  *)
LEMMA StepInv ==
  ASSUME IInv, [Next]_vars
  PROVE  /\ IInv'
         /\ \A c \in Clients : printed'[c] # printed[c] =>
              printed'[c].from = c /\ printed'[c].line > printed[c].line
  <1>1. CASE StartServer \/ StopServer \/ ServerReceives \/ ServerReplies
    <2>1. TypeOK'
      BY <1>1, ServerTypes DEF IInv
    <2>2. \A c \in Clients : ClientInv(c)' /\ UNCHANGED printed
      BY <1>1, ServerInv DEF IInv
    <2>3. QED
      BY <2>1, <2>2 DEF IInv
  <1>2. ASSUME NEW d \in Clients, Client(d)
        PROVE  /\ IInv'
               /\ \A c \in Clients : printed'[c] # printed[c] =>
                    printed'[c].from = c /\ printed'[c].line > printed[c].line
    <2>1. TypeOK'
      BY <1>2, ClientTypes DEF IInv
    <2>2. /\ ClientInv(d)'
          /\ printed'[d] # printed[d] =>
               printed'[d].from = d /\ printed'[d].line > printed[d].line
      BY <1>2, <2>1, OwnInv DEF IInv
    <2>3. ASSUME NEW c \in Clients, c # d
          PROVE  ClientInv(c)' /\ printed'[c] = printed[c]
      <3>1. ClientInv(c)'
        BY <1>2, <2>3, OthersInv DEF IInv
      <3>2. printed' = printed \/ \E x : printed' = [printed EXCEPT ![d] = x]
        BY <1>2, ClientSteps DEF Send, Receive, Quiet, Arm, EnterReceive, Readable,
           Disarm, Timeout, SigAlarm, SelectTimeout, SocketTimeout, EndOfInput
      <3>3. printed \in [Clients -> Datagrams]
        BY DEF IInv, TypeOK
      <3>4. QED
        BY <2>3, <3>1, <3>2, <3>3
    <2>4. QED
      BY <2>1, <2>2, <2>3 DEF IInv
  <1>3. CASE UNCHANGED vars
    <2>1. UNCHANGED <<srvq, msg, cliq, mode, pc, line, timer, printed, timeouts>>
      BY <1>3 DEF vars, server
    <2>2. TypeOK'
      BY <2>1 DEF IInv, TypeOK
    <2>3. ASSUME NEW c \in Clients
          PROVE  ClientInv(c)'
      <3>1. InOrder(c) /\ Lags(c) /\ NoTimeouts(c)
        BY DEF IInv, ClientInv
      <3>2. InOrder(c)'
        BY <2>1, <3>1, OrderFrame
      <3>3. Lags(c)' /\ NoTimeouts(c)'
        BY <2>1, <3>1, LagFrame
      <3>4. QED
        BY <3>2, <3>3 DEF ClientInv
    <2>4. QED
      BY <2>1, <2>2, <2>3 DEF IInv
  <1>4. QED
    BY <1>1, <1>2, <1>3 DEF Next

(* For any clients, lines and queues: the datagrams of each client are on  *)
(* their way in the order it sent them, and its lag is counted.            *)
THEOREM Invariance == Spec => []IInv
  <1>1. IInv /\ [Next]_vars => IInv'
    BY StepInv
  <1>2. QED
    BY <1>1, InitInv, PTL DEF Spec

(* What a client prints lags behind what it sent by no more than the       *)
(* timeouts it had, whatever the server, the network and the others do.    *)
THEOREM LagBounded == Spec => []LagsByTimeouts
  <1>1. IInv => LagsByTimeouts
    BY DEF IInv, ClientInv, Lags, LagsByTimeouts
  <1>2. QED
    BY <1>1, Invariance, PTL

(* A client prints lines of its own, each at most once and in order: no    *)
(* datagram overtakes another on its way, and none goes to another client. *)
THEOREM OwnLinesInOrder == Spec => PrintsOwnLinesInOrder
  <1>1. IInv /\ [Next]_vars =>
          [\A c \in Clients : printed'[c] # printed[c] =>
             printed'[c].from = c /\ printed'[c].line > printed[c].line]_vars
    BY StepInv
  <1>2. QED
    BY <1>1, Invariance, PTL DEF Spec, PrintsOwnLinesInOrder

\* A plain client that is about to read the next line, or has ended
PlainEchoes ==
  \A c \in Clients : mode[c] = "plain" /\ pc[c] \in {"read", "exited"} =>
    printed[c] = [from |-> c, line |-> line[c]]

(* client.c, which waits for as long as it takes, prints the echo of the   *)
(* very line it sent.                                                      *)
THEOREM PlainClientEchoes == Spec => []PlainEchoes
  <1>1. IInv => PlainEchoes
    <2>1. SUFFICES ASSUME IInv, NEW c \in Clients, mode[c] = "plain",
                          pc[c] \in {"read", "exited"}
                   PROVE  printed[c] = [from |-> c, line |-> line[c]]
      BY DEF PlainEchoes
    <2>2. /\ timeouts[c] = 0 /\ line[c] - printed[c].line <= timeouts[c]
          /\ printed[c].from = c /\ printed[c].line <= line[c]
      BY <2>1 DEF IInv, ClientInv, Lags, NoTimeouts, InOrder
    <2>3. line[c] \in Nat /\ printed[c].line \in Nat /\ printed[c] \in Datagrams
      BY <2>1, OrderTypes DEF IInv, TypeOK
    <2>4. printed[c].line = line[c]
      BY <2>2, <2>3
    <2>5. QED
      BY <2>2, <2>3, <2>4 DEF Datagrams
  <1>2. QED
    BY <1>1, Invariance, PTL

=============================================================================
