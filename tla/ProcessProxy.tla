---------------------------- MODULE ProcessProxy ----------------------------
(***************************************************************************)
(* The process version of the proxy as a whole: main's accept loop with    *)
(* its fork (proxy.c 374-382, 392-398, 676) and what a child does with its *)
(* connection (399-675), with the descriptors every process holds,         *)
(* composed with ProcessLog for the log.                                   *)
(*                                                                         *)
(* A child is named after the connection it was forked for.  A child that  *)
(* relayed a GET does not exit: it leaves the if statement, closes         *)
(* client_fd at 676 and accepts connections itself, with children of its   *)
(* own.                                                                    *)
(***************************************************************************)
EXTENDS LogEntries, FiniteSets

CONSTANT MaxFd   \* descriptors one process may have open

ASSUME MaxFdAssumption == MaxFd \in Nat \ {0}

VARIABLES
  pending,   \* connections not accepted yet
  at,        \* the statement each process is at
  client,    \* client_fd and client_address: the connection they belong to
  holds,     \* the open descriptors of each process
  parent,    \* the parent of each process
  file, present, lock, pc, offset   \* see ProcessLog

Log == INSTANCE ProcessLog

\* The connections that clients make, each with a child that logs it, and the
\* process that was started
Conns == Workers
Root == Past

procs == <<at, client, holds, parent>>
log == <<file, present, lock, pc, offset>>
vars == <<pending, procs, log>>

Procs == Conns \cup {Root}

Proxy == <<"proxy", Root>>   \* the listening socket
Client(c) == <<"client", c>>
Server(c) == <<"server", c>>
Sockets == {Proxy} \cup {Client(c) : c \in Conns} \cup {Server(c) : c \in Conns}

Ended == {"zombie", "gone"}
Ats == {"unborn", "accept", "reap", "fork", "close", "request", "get",
        "connect", "log get", "log connect"} \cup Ended

Init ==
  /\ pending = Conns
  /\ at = [p \in Procs |-> IF p = Root THEN "accept" ELSE "unborn"]
  /\ client = [p \in Procs |-> Root]
  /\ holds = [p \in Procs |-> IF p = Root THEN {Proxy} ELSE {}]
  /\ parent = [p \in Procs |-> Root]
  /\ Log!Init

Alive(p) == at[p] \notin Ended \cup {"unborn"}
MayOpen(p) == Cardinality(holds[p]) < MaxFd

Goto(p, from, to) ==
  /\ at[p] = from
  /\ at' = [at EXCEPT ![p] = to]

Opens(p, socket) == holds' = [holds EXCEPT ![p] = @ \cup {socket}]

\* The process is over.  Its descriptors are closed; it stays a zombie until
\* its parent waits for it, and its own zombies are left to init.
Over(p) ==
  /\ at' = [q \in Procs |->
              IF q = p
              THEN IF p = Root \/ ~Alive(parent[p]) THEN "gone" ELSE "zombie"
              ELSE IF at[q] = "zombie" /\ parent[q] = p THEN "gone" ELSE at[q]]
  /\ holds' = [holds EXCEPT ![p] = {}]
  /\ UNCHANGED <<pending, client, parent>>

-----------------------------------------------------------------------------
(* main's loop, in the first process and in children that served a GET *)

Accept(p, c) ==
  /\ Goto(p, "accept", "reap")
  /\ c \in pending /\ MayOpen(p)
  /\ pending' = pending \ {c}
  /\ client' = [client EXCEPT ![p] = c]
  /\ Opens(p, Client(c))
  /\ UNCHANGED <<parent, log>>

\* The system has no file left, or the client reset too early (ENFILE,
\* ECONNABORTED): the process that called accept exits.
AcceptFails(p) ==
  /\ at[p] = "accept" /\ pending # {}
  /\ Over(p) /\ UNCHANGED log

Zombies(p) == {q \in Procs : at[q] = "zombie" /\ parent[q] = p}

\* Mutated form: waitpid(-1, NULL, 0), which waits for children to end.
ReapWaits(p) ==
  /\ at[p] = "reap"
  /\ \A q \in Conns : parent[q] = p => at[q] \in Ended \cup {"unborn"}
  /\ at' = [q \in Procs |->
              IF q = p THEN "fork" ELSE IF q \in Zombies(p) THEN "gone" ELSE at[q]]
  /\ UNCHANGED <<pending, client, holds, parent, log>>

\* while (waitpid(-1, NULL, WNOHANG) > 0)
Reap(p) ==
  /\ at[p] = "reap"
  /\ at' = [q \in Procs |->
              IF q = p THEN "fork" ELSE IF q \in Zombies(p) THEN "gone" ELSE at[q]]
  /\ UNCHANGED <<pending, client, holds, parent, log>>

\* The child starts with copies of its parent's variables and descriptors.
Fork(p) ==
  LET c == client[p] IN
    /\ at[p] = "fork"
    /\ at' = [at EXCEPT ![p] = "close", ![c] = "request"]
    /\ client' = [client EXCEPT ![c] = c]
    /\ holds' = [holds EXCEPT ![c] = holds[p]]
    /\ parent' = [parent EXCEPT ![c] = p]
    /\ UNCHANGED <<pending, log>>

\* The process that could not fork exits, whichever it is.
ForkFails(p) == at[p] = "fork" /\ Over(p) /\ UNCHANGED log

\* Mutated form: only the child closes client_fd.
CloseInChild(p) ==
  /\ Goto(p, "close", "accept")
  /\ holds' = IF p = client[p]
              THEN [holds EXCEPT ![p] = @ \ {Client(client[p])}] ELSE holds
  /\ UNCHANGED <<pending, client, parent, log>>

\* close(client_fd), then back to accept: the parent, and after a GET the child.
CloseClient(p) ==
  /\ Goto(p, "close", "accept")
  /\ holds' = [holds EXCEPT ![p] = @ \ {Client(client[p])}]
  /\ UNCHANGED <<pending, client, parent, log>>

-----------------------------------------------------------------------------
(* a child's request *)

\* No request, not GET or CONNECT, a bad url, an unknown host, no socket.
Refuse(p) == at[p] = "request" /\ Over(p) /\ UNCHANGED log

OpenServer(p) ==
  /\ MayOpen(p)
  /\ Goto(p, "request", "get") \/ Goto(p, "request", "connect")
  /\ Opens(p, Server(p))
  /\ UNCHANGED <<pending, client, parent, log>>

\* connect or the write of the request fails, or poll reports an error.
ServerFails(p) == at[p] \in {"get", "connect"} /\ Over(p) /\ UNCHANGED log

\* The response is relayed, or the tunnel timed out.
Relayed(p) ==
  /\ Goto(p, "get", "log get") \/ Goto(p, "connect", "log connect")
  /\ Log!Finish(p)
  /\ UNCHANGED <<pending, client, holds, parent>>

Logging(p) == at[p] \in {"log get", "log connect"}

WriteLog(p) ==
  /\ Logging(p)
  /\ \/ Log!Open(p) /\ MayOpen(p)
     \/ Log!Lock(p) \/ Log!Seek(p) \/ Log!Write(p) \/ Log!WriteFails(p)
     \/ Log!Unlock(p) \/ Log!Close(p)
  /\ UNCHANGED <<pending, procs>>

OpenLogFails(p) ==
  /\ Logging(p)
  /\ Log!OpenFails(p) \/ Log!OpenRefused(p)
  /\ Over(p)

\* After a GET the child falls out of the if statement, to 676.
GetDone(p) ==
  /\ pc[p] = "done"
  /\ Goto(p, "log get", "close")
  /\ UNCHANGED <<pending, client, holds, parent, log>>

\* After a CONNECT it closes everything and exits.
ConnectDone(p) ==
  /\ at[p] = "log connect" /\ pc[p] = "done"
  /\ Over(p) /\ UNCHANGED log

\* A signal ends a child: SIGPIPE while it relays, another one at any time.
Killed(p) ==
  /\ Log!Kill(p)
  /\ at[p] \in {"request", "get", "connect"} \/ Logging(p)
  /\ Over(p)

Loop(p) == Reap(p) \/ Fork(p) \/ ForkFails(p) \/ CloseClient(p)

Serve(p) ==
  \/ Refuse(p) \/ OpenServer(p) \/ ServerFails(p) \/ Relayed(p)
  \/ WriteLog(p) \/ OpenLogFails(p) \/ GetDone(p) \/ ConnectDone(p)

Next ==
  \/ \E p \in Procs : Loop(p) \/ AcceptFails(p) \/ \E c \in Conns : Accept(p, c)
  \/ \E p \in Conns : Serve(p) \/ Killed(p)

Spec == Init /\ [][Next]_vars

\* The read of the request (401) waits for the client, and connect, the write
\* of the request and the relay or tunnel wait for both ends, maybe for ever.
AwaitsPeer(p) == at[p] \in {"request", "get", "connect"}

\* Every process is scheduled.  Nothing makes clients connect or send a request,
\* servers answer, or a relay or tunnel end (see GetRelay and ConnectTunnel for
\* when they do).
FairSpec ==
  /\ Spec
  /\ \A p \in Procs : WF_vars(Loop(p))
  /\ \A p \in Conns : WF_vars(~AwaitsPeer(p) /\ Serve(p))

-----------------------------------------------------------------------------
(* Type correctness of the connections, the processes and the log.         *)
TypeOK ==
  /\ pending \subseteq Conns
  /\ at \in [Procs -> Ats]
  /\ client \in [Procs -> Procs]
  /\ holds \in [Procs -> SUBSET Sockets]
  /\ parent \in [Procs -> Procs]
  /\ Log!TypeOK

(* README 14-15: the proxy "uses each child process to handle each         *)
(* connection": the client's descriptor is open in the child forked for it *)
(* and, up to 676, in the process that accepted it; no later child         *)
(* inherits it, although children go on to accept and fork.                *)
ClientHeldByItsOwn ==
  \A p \in Procs : \A c \in Conns :
    Client(c) \in holds[p] =>
      client[p] = c /\ at[p] \notin {"accept", "unborn"}

(* An accepted connection is closed in every process that had it open, so  *)
(* that the client sees its end, however the child's request ends (its     *)
(* closes and exits, 401-672), whether or not a child was forked, wherever *)
(* a child is killed that holds the lock on the log, and whoever else      *)
(* waits for a client or a server; only its own client or server may keep  *)
(* its child waiting for ever (401, 446-491, 600).                         *)
AcceptedIsClosed ==
  \A c \in Conns :
    \/ <>[]AwaitsPeer(c)
    \/ c \notin pending ~> \A p \in Procs : Client(c) \notin holds[p]

(* A process that accepted a connection is soon ready for the next one,    *)
(* whatever its children do: neither waitpid with WNOHANG (382) nor the    *)
(* child's relay keeps it, although children may never exit.               *)
BackToAccept ==
  \A p \in Procs : at[p] = "reap" ~> at[p] \in {"accept"} \cup Ended

(* Whatever the processes do, the log keeps its entries whole: between     *)
(* 535, where a child measures the file, and 536, where it writes, no      *)
(* other child, killed or alive, comes between.                            *)
LogStaysWhole == Log!AppendsWholeEntries

=============================================================================
