----------------------------- MODULE TcpServers -----------------------------
(***************************************************************************)
(* The TCP servers of the lectures and the clients with two sockets that   *)
(* talk to them.  Servers, by what they do after accept:                   *)
(*   "iterative"  read, respond, close (Lecture6/multipleclient)           *)
(*   "web"        respond and close without reading (Lecture6/webserver,   *)
(*                Lecture5/daytime)                                        *)
(*   "fork"       leave it to a child (Lecture7/concurrent_server)         *)
(*   "thread"     leave it to a thread (Lecture8/concurrent_server_thread) *)
(* Clients, by the order in which they use sock1 and sock2:                *)
(*   "sequence"   one exchange after the other (Lecture6/multipleclient)   *)
(*   "both"       connect both, write both, read both (Lecture8 client.c)  *)
(*   "apart"      a process (Lecture7) or thread (Lecture8) for each; the  *)
(*                orders of both are among those allowed here              *)
(*                                                                         *)
(* A message is short and arrives whole.  The buffer that a server reads   *)
(* into keeps what it held beyond the bytes it read, and is printed as a   *)
(* string: its contents are the sockets whose bytes it holds.              *)
(***************************************************************************)
EXTENDS Integers, Sequences, FiniteSets

CONSTANTS
  MsgLen,   \* the length of the message of each socket, from 1..MaxLen
  Limits    \* connections for which the server's process may have descriptors

Socks == {1, 2}
MaxLen == 2

ServerKinds == {"iterative", "web", "fork", "thread"}
ClientKinds == {"sequence", "both", "apart"}

VARIABLES
  kind, limit,    \* the server and its descriptors
  ckind,          \* the client
  main, cur,      \* main's statement, and the connection in new_socket
  backlog,        \* connections that main has not accepted yet
  handler,        \* the statement of the child or thread of a connection
  held,           \* who has a descriptor of a connection: "main", "child"
  conn,           \* the connection as the client sees it
  request,        \* the client's message: "none", "sent" or "read"
  response,       \* whether the server responded
  buffer,         \* the buffer of each connection's handler; main's is at 0
  printed,        \* what the server printed of each connection
  client          \* the client's statement on each socket, at the end what it read

serverVars == <<main, cur, backlog, handler, held, buffer, printed>>
kinds == <<kind, limit, ckind>>
vars == <<kinds, serverVars, conn, request, response, client>>

Blank == [i \in 1..MaxLen |-> 0]
Finished == {"response", "eof", "reset", "gone"}

Init ==
  /\ kind \in ServerKinds /\ limit \in Limits
  /\ ckind \in ClientKinds
  /\ main \in {"accept", "exited"} /\ cur = 0    \* exited: bind or listen failed
  /\ backlog = <<>>
  /\ handler = [s \in Socks |-> "none"]
  /\ held = [s \in Socks |-> {}]
  /\ conn = [s \in Socks |-> "new"]
  /\ request = [s \in Socks |-> "none"]
  /\ response = [s \in Socks |-> FALSE]
  /\ buffer = [s \in Socks \cup {0} |-> Blank]
  /\ printed = [s \in Socks |-> {}]
  /\ client = [s \in Socks |-> "start"]

-----------------------------------------------------------------------------
(* What the servers have in common *)

\* close, or the end of the process: the last descriptor ends the connection,
\* with a reset if a message is left unread.
Release(s, who) ==
  /\ held' = [held EXCEPT ![s] = @ \ {who}]
  /\ conn' = [conn EXCEPT ![s] = IF held'[s] # {} THEN @
                                 ELSE IF request[s] = "sent" THEN "reset" ELSE "closed"]

\* read and printf: the message, or nothing from a client that is gone.
ReadInto(b, s) ==
  /\ request[s] = "sent" \/ client[s] = "gone"
  /\ buffer' = IF request[s] = "sent"
               THEN [buffer EXCEPT ![b] = [i \in 1..MaxLen |-> IF i <= MsgLen[s] THEN s ELSE @[i]]]
               ELSE buffer
  /\ printed' = [printed EXCEPT ![s] = {buffer'[b][i] : i \in 1..MaxLen} \ {0}]
  /\ request' = [request EXCEPT ![s] = IF @ = "sent" THEN "read" ELSE @]

Respond(s) == response' = [response EXCEPT ![s] = TRUE]

Open == {s \in Socks : "main" \in held[s]}

Accept ==
  /\ main = "accept" /\ backlog # <<>> /\ Cardinality(Open) < limit
  /\ cur' = Head(backlog)
  /\ backlog' = Tail(backlog)
  /\ held' = [held EXCEPT ![cur'] = {"main"}]
  /\ conn' = [conn EXCEPT ![cur'] = "accepted"]
  /\ main' = "serve"
  /\ UNCHANGED <<kinds, handler, request, response, buffer, printed, client>>

\* accept fails: exit ends the threads and closes every descriptor of the
\* process; connections in the backlog are reset.
AcceptFails ==
  /\ main = "accept" /\ backlog # <<>> /\ Cardinality(Open) >= limit
  /\ main' = "exited"
  /\ backlog' = <<>>
  /\ held' = [s \in Socks |-> held[s] \ {"main"}]
  /\ conn' = [s \in Socks |->
       IF conn[s] = "queued" \/ (s \in Open /\ request[s] = "sent") THEN "reset"
       ELSE IF s \in Open THEN "closed" ELSE conn[s]]
  /\ handler' = [s \in Socks |-> IF s \in Open THEN "none" ELSE handler[s]]
  /\ UNCHANGED <<kinds, cur, request, response, buffer, printed, client>>

-----------------------------------------------------------------------------
(* Iterative servers: main serves the connection itself *)

MainReads ==
  /\ kind = "iterative" /\ main = "serve"
  /\ ReadInto(0, cur)
  /\ main' = "respond"
  /\ UNCHANGED <<kinds, cur, backlog, handler, held, conn, response, client>>

MainResponds ==
  /\ kind = "iterative" /\ main = "respond"
  /\ Respond(cur)
  /\ main' = "close"
  /\ UNCHANGED <<kinds, cur, backlog, handler, held, conn, request, buffer, printed, client>>

WebResponds ==
  /\ kind = "web" /\ main = "serve"
  /\ Respond(cur)
  /\ main' = "close"
  /\ UNCHANGED <<kinds, cur, backlog, handler, held, conn, request, buffer, printed, client>>

MainCloses ==
  /\ main = "close"
  /\ Release(cur, "main")
  /\ main' = "accept"
  /\ UNCHANGED <<kinds, cur, backlog, handler, request, response, buffer, printed, client>>

-----------------------------------------------------------------------------
(* The server with a child for each connection *)

\* Mutated form: main keeps the descriptor.
ForkAndKeep ==
  /\ kind = "fork" /\ main = "serve"
  /\ handler' = [handler EXCEPT ![cur] = "read"]
  /\ held' = [held EXCEPT ![cur] = @ \cup {"child"}]
  /\ buffer' = [buffer EXCEPT ![cur] = buffer[0]]
  /\ main' = "accept"
  /\ UNCHANGED <<kinds, cur, backlog, conn, request, response, printed, client>>

\* The child starts with a copy of main's buffer, which main never uses.
Fork ==
  /\ kind = "fork" /\ main = "serve"
  /\ handler' = [handler EXCEPT ![cur] = "read"]
  /\ held' = [held EXCEPT ![cur] = @ \cup {"child"}]
  /\ buffer' = [buffer EXCEPT ![cur] = buffer[0]]
  /\ main' = "close"
  /\ UNCHANGED <<kinds, cur, backlog, conn, request, response, printed, client>>

\* fork returns -1, for instance because main has not waited for so many
\* children: main goes on as if it had a child.
ForkFails ==
  /\ kind = "fork" /\ main = "serve"
  /\ main' = "close"
  /\ UNCHANGED <<kinds, cur, backlog, handler, held, conn, request, response, buffer, printed, client>>

-----------------------------------------------------------------------------
(* The server with a thread for each connection *)

\* Mutated form: main waits for the thread (pthread_join for pthread_detach).
CreateAndJoin ==
  /\ kind = "thread" /\ main = "serve"
  /\ \/ /\ handler[cur] = "none"
        /\ handler' = [handler EXCEPT ![cur] = "read"]
        /\ main' = main
     \/ /\ handler[cur] = "done"
        /\ main' = "accept"
        /\ handler' = handler
  /\ UNCHANGED <<kinds, cur, backlog, held, conn, request, response, buffer, printed, client>>

CreateThread ==
  /\ kind = "thread" /\ main = "serve"
  /\ handler' = [handler EXCEPT ![cur] = "read"]
  /\ main' = "accept"
  /\ UNCHANGED <<kinds, cur, backlog, held, conn, request, response, buffer, printed, client>>

\* pthread_create fails unnoticed: nobody will serve or close the connection.
CreateFails ==
  /\ kind = "thread" /\ main = "serve"
  /\ main' = "accept"
  /\ UNCHANGED <<kinds, cur, backlog, handler, held, conn, request, response, buffer, printed, client>>

-----------------------------------------------------------------------------
(* A child or a thread *)

\* Mutated form: one buffer for all.
HandlerReadsShared(s) ==
  /\ handler[s] = "read"
  /\ ReadInto(0, s)
  /\ handler' = [handler EXCEPT ![s] = "respond"]
  /\ UNCHANGED <<kinds, main, cur, backlog, held, conn, response, client>>

HandlerReads(s) ==
  /\ handler[s] = "read"
  /\ ReadInto(s, s)
  /\ handler' = [handler EXCEPT ![s] = "respond"]
  /\ UNCHANGED <<kinds, main, cur, backlog, held, conn, response, client>>

HandlerResponds(s) ==
  /\ handler[s] = "respond"
  /\ Respond(s)
  /\ handler' = [handler EXCEPT ![s] = "close"]
  /\ UNCHANGED <<kinds, main, cur, backlog, held, conn, request, buffer, printed, client>>

\* close in a thread, exit in a child.
HandlerCloses(s) ==
  /\ handler[s] = "close"
  /\ Release(s, IF kind = "fork" THEN "child" ELSE "main")
  /\ handler' = [handler EXCEPT ![s] = "done"]
  /\ UNCHANGED <<kinds, main, cur, backlog, request, response, buffer, printed, client>>

Server ==
  \/ Accept \/ AcceptFails \/ MainReads \/ MainResponds \/ WebResponds \/ MainCloses
  \/ Fork \/ CreateThread

Handler(s) == HandlerReads(s) \/ HandlerResponds(s) \/ HandlerCloses(s)

-----------------------------------------------------------------------------
(* The client *)

\* Whether the client's program has come to this call on this socket.
Sequence(s, state) == s = 2 => client[1] \in Finished
Both(s, state) ==
  CASE state = "start" -> s = 2 => client[1] # "start"
    [] state = "connected" -> IF s = 1 THEN client[2] # "start" ELSE client[1] # "connected"
    [] state = "wait" -> IF s = 1 THEN client[2] # "connected" ELSE client[1] \in Finished

At(s, state) ==
  /\ client[s] = state
  /\ ckind = "sequence" => Sequence(s, state)
  /\ ckind = "both" => Both(s, state)

\* The end of a client before its time ends all sockets of its process.
Gone(s) ==
  client' = [t \in Socks |->
    IF t = s \/ (ckind # "apart" /\ client[t] \notin Finished) THEN "gone" ELSE client[t]]

Connect(s) ==
  /\ At(s, "start") /\ main # "exited"
  /\ client' = [client EXCEPT ![s] = "connected"]
  /\ conn' = [conn EXCEPT ![s] = "queued"]
  /\ backlog' = Append(backlog, s)
  /\ UNCHANGED <<kinds, main, cur, handler, held, buffer, printed, request, response>>

ConnectFails(s) ==
  /\ At(s, "start") /\ main = "exited"
  /\ Gone(s)
  /\ UNCHANGED <<kinds, serverVars, conn, request, response>>

\* A message for a server that has closed the connection resets it.
Write(s) ==
  /\ At(s, "connected") /\ conn[s] # "reset"
  /\ client' = [client EXCEPT ![s] = "wait"]
  /\ IF conn[s] = "closed"
     THEN conn' = [conn EXCEPT ![s] = "reset"] /\ request' = request
     ELSE conn' = conn /\ request' = [request EXCEPT ![s] = "sent"]
  /\ UNCHANGED <<kinds, serverVars, response>>

\* The user interrupts the client, or SIGPIPE ends it.
Interrupt(s) ==
  /\ client[s] \in {"connected", "wait"}
  /\ Gone(s)
  /\ UNCHANGED <<kinds, serverVars, conn, request, response>>

\* A reset may overtake the response or not.
Read(s) ==
  /\ At(s, "wait")
  /\ \E got \in {"response", "eof", "reset"} :
       /\ got = "response" => response[s]
       /\ got = "eof" => conn[s] = "closed" /\ ~response[s]
       /\ got = "reset" => conn[s] = "reset"
       /\ client' = [client EXCEPT ![s] = got]
  /\ UNCHANGED <<kinds, serverVars, conn, request, response>>

Next ==
  \/ Server \/ ForkFails \/ CreateFails
  \/ \E s \in Socks :
       Handler(s) \/ Connect(s) \/ ConnectFails(s) \/ Write(s) \/ Interrupt(s) \/ Read(s)

Spec == Init /\ [][Next]_vars

\* Processes and threads run; fork and pthread_create may fail but need not.
\* No fairness for Connect and Write: a client may stay idle for ever.
FairSpec ==
  /\ Spec
  /\ WF_vars(Server)
  /\ \A s \in Socks : WF_vars(Handler(s)) /\ WF_vars(Read(s))

-----------------------------------------------------------------------------
(* Type correctness: main, the handlers, the connections and the buffers.  *)
TypeOK ==
  /\ kind \in ServerKinds /\ limit \in Limits /\ ckind \in ClientKinds
  /\ main \in {"accept", "serve", "respond", "close", "exited"}
  /\ cur \in Socks \cup {0}
  /\ backlog \in Seq(Socks)
  /\ handler \in [Socks -> {"none", "read", "respond", "close", "done"}]
  /\ held \in [Socks -> SUBSET {"main", "child"}]
  /\ conn \in [Socks -> {"new", "queued", "accepted", "closed", "reset"}]
  /\ request \in [Socks -> {"none", "sent", "read"}]
  /\ response \in [Socks -> BOOLEAN]
  /\ buffer \in [Socks \cup {0} -> [1..MaxLen -> Socks \cup {0}]]
  /\ printed \in [Socks -> SUBSET Socks]
  /\ client \in [Socks -> {"start", "connected", "wait"} \cup Finished]

(* A child or thread prints the message of its own client, whole and with  *)
(* no rest of another: its buffer is its own and blank.  The iterative     *)
(* server, which reads all messages into one buffer, prints the end of a   *)
(* longer message behind a shorter one.                                    *)
PrintsOwnMessage ==
  \A s \in Socks : kind \in {"fork", "thread"} => printed[s] \subseteq {s}

\* The connections for which pthread_create failed.
Forgotten(s) ==
  kind = "thread" /\ conn[s] = "accepted" /\ handler[s] = "none" /\ ~(main = "serve" /\ cur = s)

(* accept fails only while the process has as many connections in use as   *)
(* it has descriptors for, or has lost them to a failed pthread_create:    *)
(* whoever served a connection closed it, and a parent keeps none open.    *)
FailsOnlyWhenBusy ==
  [][main' = "exited" /\ main # "exited" =>
       /\ kind = "thread"
       /\ \A s \in Open : handler[s] \in {"read", "respond", "close"} \/ Forgotten(s)]_vars

(* What the concurrent servers are for: a client that has written gets a   *)
(* response, or at least the end of the connection, whether or not the     *)
(* other client ever writes, unless no thread could be created.  (The      *)
(* client "both" reads only after it has written on both its sockets.)     *)
IdleClientDelaysNobody ==
  \A s \in Socks :
    (kind \in {"fork", "thread"} /\ ckind # "both" /\ client[s] = "wait")
      ~> (client[s] \in Finished \/ Forgotten(s))

=============================================================================
