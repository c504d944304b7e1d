----------------------------- MODULE TcpExchange -----------------------------
(***************************************************************************)
(* The pairs of programs of Lecture4 to Lecture6 in which one client       *)
(* connects to a server and each side writes and reads a little.  A        *)
(* program is the sequence of the calls it makes on its connection; when   *)
(* they are over it exits, which closes the connection.  A server that     *)
(* loops is back at accept.                                                *)
(*                                                                         *)
(* A message is shorter than the buffers and arrives whole; the file of    *)
(* Lecture6/readnbytes does not.  Bytes are counted.  Calls that set up a  *)
(* socket end the program when they fail: a server that is not there.      *)
(***************************************************************************)
EXTENDS Integers, Sequences

CONSTANTS
  MsgLen,      \* bytes of a message
  PointerLen,  \* sizeof(char *)
  FileLen,     \* bytes of data_1MB.txt
  BufLen,      \* size of every buffer
  Room         \* bytes that a connection holds in one direction

ASSUME MsgAssumption == MsgLen \in Nat \ {0} /\ MsgLen <= BufLen
ASSUME PointerAssumption == PointerLen \in 1..MsgLen
ASSUME FileAssumption == FileLen \in Nat /\ BufLen \in Nat /\ Room \in Nat \ {0}

Sides == {"server", "client"}
Other(p) == IF p = "server" THEN "client" ELSE "server"

-----------------------------------------------------------------------------
(* The programs. "reply" writes as many bytes as were read, "read_n" and   *)
(* "read_all" read until there is no more, "read_or_exit" exits when read  *)
(* fails, "name" prints the client's address, which may not fit.           *)

HelloServer == <<"accept", "read", "write">>
HelloClient == <<"connect", "write", "read">>

\* The client writes sizeof(msg) bytes, the size of a pointer; the server
\* writes strlen(buffer) bytes of its own message.
HelloCopyServer == <<"accept", "read", "reply">>
HelloCopyClient == <<"connect", "write_pointer", "read">>

HelloNamesServer == <<"accept", "read", "write">>
HelloNamesClient == <<"connect", "write", "read">>

MoreHelloServer == <<"accept", "read", "write", "close", "accept">>
MoreHelloClient == <<"connect", "write", "read">>

\* ip_str has room for an IPv4 address only.
V6HelloServer == <<"accept", "read", "name", "write">>
V6HelloClient == <<"connect", "write", "read">>

DaytimeServer == <<"accept", "write", "close", "accept">>
DaytimeReuseServer == <<"accept", "write", "close", "accept">>
DaytimeClient == <<"connect", "read_all">>

\* Mutated form: the server reads first, as its client does.
FromServerReads == <<"accept", "read", "write">>
FromServerServer == <<"accept", "write", "read">>
FromServerClient == <<"connect", "read", "write">>

RequestServer == <<"accept", "read", "write">>
RequestClient == <<"connect", "write", "read">>

AddrInfoServer == <<"accept", "read_or_exit", "write", "close">>
AddrInfoClient == <<"connect", "write", "read_or_exit", "close">>

FileServer == <<"accept", "read_n", "close">>
FileClient == <<"connect", "send_file", "close">>

Pairs ==
  {[server |-> HelloServer, client |-> HelloClient],
   [server |-> HelloCopyServer, client |-> HelloCopyClient],
   [server |-> HelloNamesServer, client |-> HelloNamesClient],
   [server |-> MoreHelloServer, client |-> MoreHelloClient],
   [server |-> V6HelloServer, client |-> V6HelloClient],
   [server |-> DaytimeServer, client |-> DaytimeClient],
   [server |-> DaytimeReuseServer, client |-> DaytimeClient],
   [server |-> FromServerServer, client |-> FromServerClient],
   [server |-> RequestServer, client |-> RequestClient],
   [server |-> AddrInfoServer, client |-> AddrInfoClient],
   [server |-> FileServer, client |-> FileClient]}

-----------------------------------------------------------------------------
VARIABLES
  pair,     \* the two programs
  pc,       \* which of its calls each side makes next
  state,    \* whether it runs, or how it ended
  link,     \* its end of the connection
  reset,    \* whether it was told that the other side reset the connection
  wrote,    \* bytes it has written
  got,      \* bytes it has read
  held,     \* bytes that readnbytes has in the buffer
  stored    \* bytes that the server has written to receive.txt

bytes == <<wrote, got>>
file == <<held, stored>>
vars == <<pair, pc, state, link, reset, bytes, file>>

Init ==
  /\ pair \in Pairs
  /\ pc = [p \in Sides |-> 1]
  /\ state = [p \in Sides |-> "running"]
  /\ link = [p \in Sides |-> "none"]
  /\ reset = [p \in Sides |-> FALSE]
  /\ wrote = [p \in Sides |-> 0]
  /\ got = [p \in Sides |-> 0]
  /\ held = 0
  /\ stored = 0

Unread(p) == wrote[Other(p)] - got[p]
Least(m, n) == IF m < n THEN m ELSE n

\* Side p is about to make this call.
Calls(p, call) ==
  /\ state[p] = "running"
  /\ pc[p] \in DOMAIN pair[p] /\ pair[p][pc[p]] = call

\* It goes on to the next one.
Return(p) ==
  /\ pc' = [pc EXCEPT ![p] = @ + 1]
  /\ UNCHANGED <<pair, state>>

\* The peer learns of a close by a reset if that left bytes unread, or if the
\* connection had not been accepted.
Refuses(p) ==
  \/ link[p] = "open" /\ Unread(p) > 0
  \/ p = "server" /\ link[p] = "none" /\ link["client"] # "none"

Shut(p) ==
  /\ link' = [link EXCEPT ![p] = IF @ = "open" THEN "closed" ELSE @]
  /\ reset' = [reset EXCEPT ![Other(p)] = @ \/ Refuses(p)]

\* The program ends, and its end of the connection is closed.
Leave(p, how) ==
  /\ state' = [state EXCEPT ![p] = how]
  /\ Shut(p)
  /\ UNCHANGED <<pair, pc, bytes, file>>

-----------------------------------------------------------------------------
Accept ==
  /\ Calls("server", "accept")
  /\ link["server"] = "none" /\ link["client"] # "none"
  /\ link' = [link EXCEPT !["server"] = "open"]
  /\ Return("server")
  /\ UNCHANGED <<reset, bytes, file>>

Connect ==
  /\ Calls("client", "connect")
  /\ state["server"] = "running"
  /\ link' = [link EXCEPT !["client"] = "open"]
  /\ Return("client")
  /\ UNCHANGED <<reset, bytes, file>>

\* No server listens.
ConnectFails == Calls("client", "connect") /\ Leave("client", "failed")

\* One read, into a buffer that is large enough.
Read(p) ==
  /\ Calls(p, "read") \/ Calls(p, "read_or_exit")
  /\ Unread(p) > 0
  /\ got' = [got EXCEPT ![p] = @ + Least(BufLen, Unread(p))]
  /\ Return(p)
  /\ UNCHANGED <<link, reset, wrote, file>>

AtEnd(p) == Unread(p) = 0 /\ link[Other(p)] = "closed" /\ ~reset[p]

\* read returns 0: every program goes on.
ReadEnd(p) ==
  /\ Calls(p, "read") \/ Calls(p, "read_or_exit") \/ Calls(p, "read_all")
  /\ AtEnd(p)
  /\ Return(p)
  /\ UNCHANGED <<link, reset, bytes, file>>

\* read returns -1, which most programs do not look at.
ReadFails(p) ==
  /\ Unread(p) = 0 /\ reset[p]
  /\ \/ Calls(p, "read") /\ Return(p) /\ UNCHANGED <<link, reset, bytes, file>>
     \/ (Calls(p, "read_or_exit") \/ Calls(p, "read_all")) /\ Leave(p, "failed")

\* The client of daytime reads and prints until there is no more.
ReadAll(p) ==
  /\ Calls(p, "read_all")
  /\ Unread(p) > 0
  /\ got' = [got EXCEPT ![p] = @ + Least(BufLen, Unread(p))]
  /\ UNCHANGED <<pair, pc, state, link, reset, wrote, file>>

-----------------------------------------------------------------------------
(* readnbytes fills the buffer, in as many reads as it takes; the server   *)
(* writes what it returns to receive.txt.  (It would drop what is in the   *)
(* buffer if a read failed; but it sends nothing that its client could     *)
(* leave unread, and is never reset.)                                      *)

ReadPiece ==
  /\ Calls("server", "read_n")
  /\ Unread("server") > 0
  /\ LET n == Least(BufLen - held, Unread("server"))
         filled == held + n = BufLen
     IN /\ got' = [got EXCEPT !["server"] = @ + n]
        /\ held' = IF filled THEN 0 ELSE held + n
        /\ stored' = IF filled THEN stored + BufLen ELSE stored
  /\ UNCHANGED <<pair, pc, state, link, reset, wrote>>

\* Mutated form: what was read before the end is forgotten.
LastPieceLost ==
  /\ Calls("server", "read_n")
  /\ AtEnd("server")
  /\ held' = 0
  /\ Return("server")
  /\ UNCHANGED <<link, reset, bytes, stored>>

\* At the end it returns what it has, and 0 the next time.
LastPiece ==
  /\ Calls("server", "read_n")
  /\ AtEnd("server")
  /\ stored' = stored + held
  /\ held' = 0
  /\ Return("server")
  /\ UNCHANGED <<link, reset, bytes>>

-----------------------------------------------------------------------------
Message(p) ==
  {<<"write", MsgLen>>, <<"write_pointer", PointerLen>>, <<"reply", got[p]>>}

Write(p) ==
  /\ \E m \in Message(p) :
       /\ Calls(p, m[1])
       /\ wrote' = [wrote EXCEPT ![p] = @ + m[2]]
  /\ link[Other(p)] # "closed" /\ ~reset[p]
  /\ Return(p)
  /\ UNCHANGED <<link, reset, got, file>>

\* The client reads the file and writes it, blocked while the server is behind.
SendFile ==
  /\ Calls("client", "send_file")
  /\ wrote["client"] < FileLen /\ Unread("server") < Room
  /\ link["server"] # "closed" /\ ~reset["client"]
  /\ wrote' = [wrote EXCEPT !["client"] = @ + 1]
  /\ UNCHANGED <<pair, pc, state, link, reset, got, file>>

FileSent ==
  /\ Calls("client", "send_file")
  /\ wrote["client"] = FileLen
  /\ Return("client")
  /\ UNCHANGED <<link, reset, bytes, file>>

\* What is written to a side that has closed is answered by a reset.
WriteToClosed(p) ==
  /\ \/ \E m \in Message(p) : Calls(p, m[1])
     \/ Calls(p, "send_file") /\ wrote[p] < FileLen
  /\ link[Other(p)] = "closed" /\ ~reset[p]
  /\ reset' = [reset EXCEPT ![p] = TRUE]
  /\ IF Calls(p, "send_file") THEN UNCHANGED <<pair, pc, state>> ELSE Return(p)
  /\ UNCHANGED <<link, bytes, file>>

\* After a reset write raises SIGPIPE or, the first time, may return -1.
WriteFails(p) ==
  /\ reset[p]
  /\ \/ \E m \in Message(p) :
          /\ Calls(p, m[1])
          /\ Return(p) /\ UNCHANGED <<link, reset, bytes, file>>
     \/ /\ \E m \in Message(p) : Calls(p, m[1])
        /\ Leave(p, "killed")
     \/ /\ Calls(p, "send_file") /\ wrote[p] < FileLen
        /\ \E how \in {"failed", "killed"} : Leave(p, how)

\* inet_ntop: the address fits, or the server exits.
Name(p) == Calls(p, "name") /\ Return(p) /\ UNCHANGED <<link, reset, bytes, file>>
NameTooLong(p) == Calls(p, "name") /\ Leave(p, "failed")

Close(p) ==
  /\ Calls(p, "close")
  /\ Shut(p)
  /\ Return(p)
  /\ UNCHANGED <<bytes, file>>

Exit(p) ==
  /\ state[p] = "running" /\ pc[p] > Len(pair[p])
  /\ Leave(p, "exited")

\* A signal ends a side, wherever it is.
Kill(p) == state[p] = "running" /\ Leave(p, "killed")

-----------------------------------------------------------------------------
Step(p) ==
  \/ Read(p) \/ ReadEnd(p) \/ ReadFails(p) \/ ReadAll(p) \/ Write(p)
  \/ WriteToClosed(p) \/ WriteFails(p) \/ Name(p) \/ Close(p) \/ Exit(p)

Server == Accept \/ ReadPiece \/ LastPiece \/ Step("server")
Client == Connect \/ SendFile \/ FileSent \/ Step("client")

Next ==
  \/ Server \/ Client \/ ConnectFails
  \/ \E p \in Sides : NameTooLong(p) \/ Kill(p)

Spec == Init /\ [][Next]_vars

\* Both programs are scheduled.
FairSpec == Spec /\ WF_vars(Server) /\ WF_vars(Client)

-----------------------------------------------------------------------------
(* Type correctness: the calls, the ends of the connection and the counts  *)
(* of bytes; a side reads no more than the other wrote, and readnbytes     *)
(* hands a full buffer over before it reads on.                            *)
TypeOK ==
  /\ pair \in Pairs
  /\ \A p \in Sides : pc[p] \in 1..(Len(pair[p]) + 1)
  /\ pc \in [Sides -> Nat]
  /\ state \in [Sides -> {"running", "exited", "failed", "killed"}]
  /\ link \in [Sides -> {"none", "open", "closed"}]
  /\ reset \in [Sides -> BOOLEAN]
  /\ wrote \in [Sides -> Nat] /\ got \in [Sides -> Nat]
  /\ \A p \in Sides : got[p] <= wrote[Other(p)]
  /\ held \in 0..(BufLen - 1) /\ stored \in Nat

\* Side p has done all it does for this client.
Through(p) ==
  state[p] = "exited" \/ (p = "server" /\ link[p] = "closed" /\ Calls(p, "accept"))

(* If both programs run to their end, whatever one wrote the other has     *)
(* read: nothing is left in a connection that a program's exit closes, so  *)
(* neither is ever reset, and receive.txt holds the file.                  *)
NothingLost ==
  Through("server") /\ Through("client") =>
    /\ \A p \in Sides : Unread(p) = 0 /\ ~reset[p]
    /\ pair["client"] = FileClient => stored = FileLen

(* Once connected, the two programs never wait for each other: both end,   *)
(* or the server is back at accept, even if one is killed or fails.        *)
BothEnd ==
  link["client"] # "none" ~>
    \A p \in Sides : state[p] # "running" \/ Through(p)

=============================================================================
