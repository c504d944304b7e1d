------------------------------- MODULE UdpEcho -------------------------------
(***************************************************************************)
(* The UDP echo programs of Lecture10.  A client reads a line, sends it,   *)
(* and waits for an answer that it takes for the echo of that line; the    *)
(* server returns each datagram to its sender.  The four kinds of client   *)
(* differ in how long they wait:                                           *)
(*   "plain"   recvfrom, for as long as it takes (client.c)                *)
(*   "alarm"   recvfrom, interrupted by SIGALRM (client1.c, client_act.c)  *)
(*   "select"  select with a timeout, then recvfrom                        *)
(*   "sockopt" recvfrom on a socket with SO_RCVTIMEO                       *)
(* The servers time out in the same four ways, and then wait again: they   *)
(* are one program here.                                                   *)
(*                                                                         *)
(* All clients send to 127.0.0.1: datagrams keep their order and are not   *)
(* duplicated, but one is lost when the receiver's queue is full or its    *)
(* socket is not there.  A line is its number.                             *)
(***************************************************************************)
EXTENDS Integers, Sequences

CONSTANTS
  Clients,
  N,      \* bound on the lines each client reads
  Room    \* datagrams that the queue of a socket holds

ASSUME NAssumption == N \in Nat
ASSUME RoomAssumption == Room \in Nat

Modes == {"plain", "alarm", "select", "sockopt"}

VARIABLES
  up,        \* whether a server is bound to the port
  srvq,      \* the queue of its socket
  msg,       \* the datagram it is about to return with its address pcliaddr
  cliq,      \* the queue of each client's socket
  mode,      \* the kind of each client
  pc,        \* its statement
  line,      \* the last line it read
  timer,     \* whether its alarm is set
  printed,   \* the datagram it printed last
  timeouts   \* how often it printed "socket timeout"

server == <<up, srvq, msg>>
vars == <<server, cliq, mode, pc, line, timer, printed, timeouts>>

None == <<>>

Init ==
  /\ up = FALSE
  /\ srvq = <<>>
  /\ msg = None
  /\ cliq = [c \in Clients |-> <<>>]
  /\ mode \in [Clients -> Modes]
  /\ pc = [c \in Clients |-> "read"]
  /\ line = [c \in Clients |-> 0]
  /\ timer = [c \in Clients |-> FALSE]
  /\ printed = [c \in Clients |-> [from |-> c, line |-> 0]]
  /\ timeouts = [c \in Clients |-> 0]

Goto(c, l) == pc' = [pc EXCEPT ![c] = l]

\* The queue of a socket after a datagram arrived: a full one drops it.
Arrive(q, d) == IF Len(q) < Room THEN Append(q, d) ELSE q

-----------------------------------------------------------------------------
(* The server *)

\* A server is started, or ended by its user, at any time.
StartServer ==
  /\ ~up
  /\ up' = TRUE
  /\ UNCHANGED <<srvq, msg, cliq, mode, pc, line, timer, printed, timeouts>>

StopServer ==
  /\ up
  /\ up' = FALSE
  /\ srvq' = <<>>
  /\ msg' = None
  /\ UNCHANGED <<cliq, mode, pc, line, timer, printed, timeouts>>

ServerReceives ==
  /\ up /\ msg = None /\ srvq # <<>>
  /\ msg' = Head(srvq)
  /\ srvq' = Tail(srvq)
  /\ UNCHANGED <<up, cliq, mode, pc, line, timer, printed, timeouts>>

\* Mutated form: the answer goes to every client.
ServerBroadcasts ==
  /\ up /\ msg # None
  /\ cliq' = [c \in Clients |-> Arrive(cliq[c], msg)]
  /\ msg' = None
  /\ UNCHANGED <<up, srvq, mode, pc, line, timer, printed, timeouts>>

\* sendto: a client that has exited has no socket any more.
ServerReplies ==
  /\ up /\ msg # None
  /\ cliq' = IF pc[msg.from] = "exited"
             THEN cliq
             ELSE [cliq EXCEPT ![msg.from] = Arrive(@, msg)]
  /\ msg' = None
  /\ UNCHANGED <<up, srvq, mode, pc, line, timer, printed, timeouts>>

-----------------------------------------------------------------------------
(* A client *)

\* fgets and sendto.
Send(c) ==
  /\ pc[c] = "read" /\ line[c] < N
  /\ line' = [line EXCEPT ![c] = @ + 1]
  /\ srvq' = IF up THEN Arrive(srvq, [from |-> c, line |-> line'[c]]) ELSE srvq
  /\ Goto(c, IF mode[c] = "alarm" THEN "arm" ELSE "wait")
  /\ UNCHANGED <<up, msg, cliq, mode, timer, printed, timeouts>>

\* alarm(5): the signal may arrive before the call of recvfrom.
Arm(c) ==
  /\ pc[c] = "arm"
  /\ timer' = [timer EXCEPT ![c] = TRUE]
  /\ Goto(c, "enter")
  /\ UNCHANGED <<server, cliq, mode, line, printed, timeouts>>

EnterReceive(c) ==
  /\ pc[c] = "enter"
  /\ Goto(c, "wait")
  /\ UNCHANGED <<server, cliq, mode, line, timer, printed, timeouts>>

\* select reports that the socket is readable.
Readable(c) ==
  /\ pc[c] = "wait" /\ cliq[c] # <<>>
  /\ Goto(c, "ready")
  /\ UNCHANGED <<server, cliq, mode, line, timer, printed, timeouts>>

\* Mutated form: an answer is accepted without waiting for one.
ReceiveOrGoOn(c) ==
  /\ pc[c] = IF mode[c] = "select" THEN "ready" ELSE "wait"
  /\ \/ /\ cliq[c] # <<>>
        /\ printed' = [printed EXCEPT ![c] = Head(cliq[c])]
        /\ cliq' = [cliq EXCEPT ![c] = Tail(@)]
     \/ cliq[c] = <<>> /\ UNCHANGED <<printed, cliq>>
  /\ Goto(c, IF mode[c] = "alarm" THEN "disarm" ELSE "read")
  /\ UNCHANGED <<server, mode, line, timer, timeouts>>

\* recvfrom and fputs.
Receive(c) ==
  /\ pc[c] = IF mode[c] = "select" THEN "ready" ELSE "wait"
  /\ cliq[c] # <<>>
  /\ printed' = [printed EXCEPT ![c] = Head(cliq[c])]
  /\ cliq' = [cliq EXCEPT ![c] = Tail(@)]
  /\ Goto(c, IF mode[c] = "alarm" THEN "disarm" ELSE "read")
  /\ UNCHANGED <<server, mode, line, timer, timeouts>>

\* alarm(0).
Disarm(c) ==
  /\ pc[c] = "disarm"
  /\ timer' = [timer EXCEPT ![c] = FALSE]
  /\ Goto(c, "read")
  /\ UNCHANGED <<server, cliq, mode, line, printed, timeouts>>

\* recvfrom or select returns without a datagram.
GiveUp(c) ==
  /\ timeouts' = [timeouts EXCEPT ![c] = @ + 1]
  /\ Goto(c, "read")

\* SIGALRM runs sig_alrm, which only returns.  It makes a recvfrom that is
\* waiting fail with EINTR; anywhere else it has no effect, and it comes once.
SigAlarm(c) ==
  /\ timer[c]
  /\ timer' = [timer EXCEPT ![c] = FALSE]
  /\ IF pc[c] = "wait" /\ cliq[c] = <<>> THEN GiveUp(c) ELSE UNCHANGED <<pc, timeouts>>
  /\ UNCHANGED <<server, cliq, mode, line, printed>>

\* Mutated form: select is given no timeout.
SelectForever(c) == FALSE /\ UNCHANGED vars

SelectTimeout(c) ==
  /\ pc[c] = "wait" /\ cliq[c] = <<>>
  /\ GiveUp(c)
  /\ UNCHANGED <<server, cliq, mode, line, timer, printed>>

SocketTimeout(c) ==
  /\ pc[c] = "wait" /\ cliq[c] = <<>>
  /\ GiveUp(c)
  /\ UNCHANGED <<server, cliq, mode, line, timer, printed>>

\* The end of the input: exit closes the socket.
EndOfInput(c) ==
  /\ pc[c] = "read" /\ line[c] = N
  /\ cliq' = [cliq EXCEPT ![c] = <<>>]
  /\ Goto(c, "exited")
  /\ UNCHANGED <<server, mode, line, timer, printed, timeouts>>

\* What each kind of client does with a line it has read.
PlainClient(c) == mode[c] = "plain" /\ (Send(c) \/ Receive(c))

AlarmClient(c) ==
  /\ mode[c] = "alarm"
  /\ Send(c) \/ Arm(c) \/ EnterReceive(c) \/ Receive(c) \/ Disarm(c) \/ SigAlarm(c)

SelectClient(c) ==
  /\ mode[c] = "select"
  /\ Send(c) \/ Readable(c) \/ Receive(c) \/ SelectTimeout(c)

SocketClient(c) == mode[c] = "sockopt" /\ (Send(c) \/ Receive(c) \/ SocketTimeout(c))

Client(c) ==
  PlainClient(c) \/ AlarmClient(c) \/ SelectClient(c) \/ SocketClient(c) \/ EndOfInput(c)

Next ==
  \/ StartServer \/ StopServer \/ ServerReceives \/ ServerReplies
  \/ \E c \in Clients : Client(c)

Spec == Init /\ [][Next]_vars

\* The kernel runs a client that can take a step, and delivers its timeouts;
\* nothing is asked of the server, which may not be running.
FairSpec == Spec /\ \A c \in Clients : WF_vars(Client(c))

-----------------------------------------------------------------------------
(* Whatever is lost, and whichever clients share the server, what a client *)
(* prints are lines of its own, each at most once and in the order in      *)
(* which it sent them.                                                     *)
PrintsOwnLinesInOrder ==
  [][\A c \in Clients : printed'[c] # printed[c] =>
       printed'[c].from = c /\ printed'[c].line > printed[c].line]_vars

(* Nothing in a datagram says which line it answers: after a timeout a     *)
(* late answer is printed for a later line.  But what a client prints lags *)
(* behind what it sent by no more than its timeouts; a client that never   *)
(* timed out, a plain one always, prints the line it has just sent.        *)
LagsByTimeouts ==
  \A c \in Clients : pc[c] \in {"read", "exited"} => line[c] - printed[c].line <= timeouts[c]

\* The alarm was taken before recvfrom was called: the client now waits like
\* a plain one.
AlarmSpent(c) == mode[c] = "alarm" /\ pc[c] = "wait" /\ ~timer[c]

(* A client with a timeout reaches the end of its input whatever becomes   *)
(* of the server and of the datagrams, unless its alarm came too early.    *)
TimedClientsEnd ==
  \A c \in Clients : mode[c] # "plain" => <>(pc[c] = "exited" \/ AlarmSpent(c))

=============================================================================
