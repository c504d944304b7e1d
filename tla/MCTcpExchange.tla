---------------------------- MODULE MCTcpExchange ----------------------------
(***************************************************************************)
(* The small programs that exchange a few messages: over one TCP           *)
(* connection (TcpExchange), over two of them (TcpServers), or through     *)
(* pipes, FIFOs and a message queue (Channels); and the one that reads a   *)
(* file which others write (SubstringCount).  They never meet: the first   *)
(* state chooses one, and the rest stays as it is.                         *)
(*                                                                         *)
(* A file of seven bytes through buffers of three and a connection that    *)
(* holds two: reads return less than they ask for, and the end of the file *)
(* does not fill the buffer.  Three children; four messages through a      *)
(* channel of three, so that popen waits for sort; two requests of a       *)
(* client of the FIFO, and one of another.  Files of up to four            *)
(* characters, the longest one longer than an int counts, and arguments    *)
(* that overlap themselves, are longer than the file, or empty.  A longer  *)
(* and a shorter message for the servers, with descriptors for one         *)
(* connection or for both.                                                 *)
(***************************************************************************)
EXTENDS TcpExchange

CONSTANTS
  Suites, Children, Messages, Requests, ChannelRoom, Contents, Arguments, IntHalf,
  ServedLen, Limits

VARIABLES
  suite,
  program, chanpc, chanstate, there, readers, writers, content, sent, taken,
  text, present, changed, system_flag, at, size, memory, ptr, offset, reported,
  kind, limit, ckind, main, cur, backlog, handler, descriptors, conn, request, response,
  buffer, printed, client

Chan == INSTANCE Channels WITH
  Room <- ChannelRoom, pc <- chanpc, state <- chanstate, got <- taken

ASSUME ChannelAssumption == Children \in Nat /\ Messages \in Nat /\ Requests \in Nat

File == INSTANCE SubstringCount WITH file <- text

IsSequence(s) == s \in Seq({s[k] : k \in DOMAIN s})

ASSUME CountAssumption ==
  /\ \A contents \in Contents : IsSequence(contents)
  /\ IsSequence(Arguments) /\ \A i \in DOMAIN Arguments : IsSequence(Arguments[i])
  /\ IntHalf \in Nat \ {0}

Servers == INSTANCE TcpServers WITH MsgLen <- ServedLen, held <- descriptors

ASSUME ServedAssumption ==
  ServedLen \in [Servers!Socks -> 1..Servers!MaxLen] /\ Limits \subseteq Nat \ {0}

\* Two letters, one with its capital: the lower case is FALSE.
small == <<"a", FALSE>>
capital == <<"a", TRUE>>
other == <<"b", FALSE>>
SomeContents ==
  UNION {[1..n -> {small, capital, other}] : n \in 0..2}
    \cup {<<small, capital, small>>, <<other, small, capital>>, <<capital, small, other, small>>}
SomeArguments == << <<small, small>>, <<other, capital>>, <<capital>>, <<>> >>

chanVars == <<program, chanpc, chanstate, there, readers, writers, content, sent, taken>>
fileVars == <<text, present, changed, system_flag, at, size, memory, ptr, offset, reported>>
serverVars == <<kind, limit, ckind, main, cur, backlog, handler, descriptors, conn,
                request, response, buffer, printed, client>>
allVars == <<suite, vars, chanVars, fileVars, serverVars>>

SomeServedLen == [s \in {1, 2} |-> IF s = 1 THEN 2 ELSE 1]

MCInit ==
  /\ suite \in Suites
  /\ Init /\ Chan!Init /\ File!Init /\ Servers!Init
  /\ suite # "channels" => program = Chan!Queue
  /\ suite # "tcp" => pair = [server |-> HelloServer, client |-> HelloClient]
  /\ suite # "file" => text = <<>> /\ present /\ system_flag
  /\ suite # "servers" =>
       kind = "web" /\ ckind = "both" /\ main = "exited" /\ \A l \in Limits : limit <= l

OnTcp(A) == suite = "tcp" /\ A /\ UNCHANGED <<suite, chanVars, fileVars, serverVars>>
OnChannels(A) == suite = "channels" /\ A /\ UNCHANGED <<suite, vars, fileVars, serverVars>>
OnFile(A) == suite = "file" /\ A /\ UNCHANGED <<suite, vars, chanVars, serverVars>>
OnServers(A) == suite = "servers" /\ A /\ UNCHANGED <<suite, vars, chanVars, fileVars>>

MCNext ==
  OnTcp(Next) \/ OnChannels(Chan!Next) \/ OnFile(File!Next) \/ OnServers(Servers!Next)

\* The fairness of the specifications; that of the file has none.
MCSpec ==
  /\ MCInit /\ [][MCNext]_allVars
  /\ WF_allVars(OnTcp(Server)) /\ WF_allVars(OnTcp(Client))
  /\ \A p \in Chan!Everyone : WF_allVars(OnChannels(p \in Chan!Processes /\ Chan!Step(p)))
  /\ WF_allVars(OnServers(Servers!Server))
  /\ \A s \in Servers!Socks :
       WF_allVars(OnServers(Servers!Handler(s))) /\ WF_allVars(OnServers(Servers!Read(s)))

-----------------------------------------------------------------------------
(* Assignment1/jwh139-p01/p01.c 24-35, 104-111, 138-145: a file that       *)
(* nobody changes meanwhile is counted right, and no place is counted that *)
(* is not in the buffer.                                                   *)
CountsOccurrences == File!CountsOccurrences

(* Over TCP: once connected, the two programs both end, or the server is   *)
(* back at accept, even if one is killed or fails.                         *)
ExchangesEnd == suite = "tcp" => BothEnd

(* Homework1 and ipc_code: if all processes run to their end, each message *)
(* was read once and in order, but for what a client writes to the FIFO    *)
(* when the server has read its end.                                       *)
ChannelsLoseNothing == Chan!NothingLost

(* ipc_code/fifo/server.c 12, "reads message and writes response": a       *)
(* client that has written and run to its end has read a response.         *)
RequestsAnswered == Chan!RequestsAnswered

(* Homework1 and ipc_code: all processes end, even if one is killed or a   *)
(* fork fails, unless a FIFO's peer never comes, nobody sends to the queue *)
(* or one client of the FIFO took the other's answer.                      *)
ProcessesEnd == suite = "channels" => Chan!ProcessesEnd

(* Lecture7 and Lecture8: a child or thread prints the message of its own  *)
(* client, whole and with no rest of another.                              *)
PrintsOwnMessage == Servers!PrintsOwnMessage

(* Lecture6 to Lecture8: accept fails only while the process has as many   *)
(* connections in use as it has descriptors for, or has lost them to a     *)
(* failed pthread_create.                                                  *)
FailsOnlyWhenBusy == Servers!FailsOnlyWhenBusy

(* Lecture7 and Lecture8: a client that has written gets a response or the *)
(* end of the connection, whether or not the other client ever writes.     *)
IdleClientDelaysNobody == suite = "servers" => Servers!IdleClientDelaysNobody

=============================================================================
