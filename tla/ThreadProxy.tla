----------------------------- MODULE ThreadProxy -----------------------------
(***************************************************************************)
(* The thread version of the proxy as a whole: main's accept loop (proxy.c *)
(* 374-391) and thread_handle (34-289), with the process's descriptor      *)
(* table, composed with ThreadLog for the log.                             *)
(*                                                                         *)
(* main fills one clinfo on its own stack in every turn of the loop and    *)
(* passes its address to the new thread, which copies it some time later;  *)
(* nothing keeps main from accepting the next connection before that.      *)
(* A thread is named after the connection it was created for.              *)
(*                                                                         *)
(* How bytes are relayed is the subject of GetRelay and ConnectTunnel;     *)
(* here a relay ends, or fails, and closes what the code closes.           *)
(***************************************************************************)
EXTENDS LogEntries

CONSTANTS
  MaxFd       \* descriptors the process may have open for connections and log

ASSUME MaxFdAssumption == MaxFd \in Nat \ {0}

VARIABLES
  pending,   \* connections not accepted yet
  fds,       \* what each descriptor refers to
  main,      \* the statement main is at, client_fd and client_address
  slot,      \* the clinfo on main's stack
  overwritten, \* main has filled it while a thread had yet to copy it
  copy,      \* each thread's copy of it
  server,    \* server_fd of each thread, 0 if it has none
  stream,    \* the descriptor of each thread's log_fp, 0 if it has none
  todo,      \* the descriptors a thread has yet to close before it returns
  pc,        \* the part of thread_handle each thread is in
  file, mutex, lpc, tm, buf, process   \* see ThreadLog

Log == INSTANCE ThreadLog WITH pc <- lpc

\* The connections that clients make, each with a thread that logs it
Conns == Workers
NoConn == Past

loop == <<pending, main, slot, overwritten>>
handler == <<copy, server, stream, todo, pc>>
log == <<file, mutex, lpc, tm, buf, process>>
vars == <<fds, loop, handler, log>>

Fds == 1..MaxFd
Free == <<"free", NoConn>>
Files == {"client", "server", "log"} \X Conns
FreeFds == {f \in Fds : fds[f] = Free}

\* A new descriptor is the lowest one that is free.
NewFd(f) == f \in FreeFds /\ \A g \in FreeFds : f <= g

PCs == {"none", "copying", "copied", "request", "server", "logging",
        "closing", "ended", "uncreated"}

Init ==
  /\ pending = Conns
  /\ fds = [f \in Fds |-> Free]
  /\ main = [at |-> "accept", fd |-> 0, conn |-> NoConn]
  /\ slot = [fd |-> 0, conn |-> NoConn]
  /\ overwritten = FALSE
  /\ copy = [t \in Conns |-> [fd |-> 0, conn |-> NoConn]]
  /\ server = [t \in Conns |-> 0]
  /\ stream = [t \in Conns |-> 0]
  /\ todo = [t \in Conns |-> <<>>]
  /\ pc = [t \in Conns |-> "none"]
  /\ Log!Init

Running == process # "dead"

-----------------------------------------------------------------------------
(* main *)

\* accept fills client_fd and client_address; waitpid finds no children.
Accept(c) ==
  /\ process = "running" /\ main.at = "accept"
  /\ c \in pending
  /\ \E f \in Fds :
       /\ NewFd(f)
       /\ fds' = [fds EXCEPT ![f] = <<"client", c>>]
       /\ main' = [at |-> "fill fd", fd |-> f, conn |-> c]
  /\ pending' = pending \ {c}
  /\ UNCHANGED <<slot, overwritten, handler, log>>

\* No descriptor left here or in the system, or the client reset too early:
\* main exits, for all threads.
AcceptFails ==
  /\ main.at = "accept" /\ pending # {}
  /\ Log!Exit
  /\ UNCHANGED <<fds, loop, handler>>

\* Whether main writes to the clinfo under a thread that is not done with it:
\* history only, nothing in the code knows.
Overwrites == overwritten' =
  (overwritten \/ \E t \in Conns : pc[t] \in {"copying", "copied"})

FillFd ==
  /\ process = "running" /\ main.at = "fill fd"
  /\ slot' = [slot EXCEPT !.fd = main.fd]
  /\ Overwrites
  /\ main' = [main EXCEPT !.at = "fill address"]
  /\ UNCHANGED <<fds, pending, handler, log>>

FillAddress ==
  /\ process = "running" /\ main.at = "fill address"
  /\ slot' = [slot EXCEPT !.conn = main.conn]
  /\ Overwrites
  /\ main' = [main EXCEPT !.at = "create"]
  /\ UNCHANGED <<fds, pending, handler, log>>

\* Mutated form: main closes client_fd as the process version does at 676.
CreateAndClose ==
  /\ process = "running" /\ main.at = "create"
  /\ pc' = [pc EXCEPT ![main.conn] = "copying"]
  /\ main' = [main EXCEPT !.at = "accept"]
  /\ fds' = [fds EXCEPT ![main.fd] = Free]
  /\ UNCHANGED <<pending, slot, overwritten, copy, server, stream, todo, log>>

Create ==
  /\ process = "running" /\ main.at = "create"
  /\ pc' = [pc EXCEPT ![main.conn] = "copying"]
  /\ main' = [main EXCEPT !.at = "accept"]
  /\ UNCHANGED <<fds, pending, slot, overwritten, copy, server, stream, todo, log>>

\* pthread_create's result is not checked: the connection stays open.
CreateFails ==
  /\ process = "running" /\ main.at = "create"
  /\ pc' = [pc EXCEPT ![main.conn] = "uncreated"]
  /\ main' = [main EXCEPT !.at = "accept"]
  /\ UNCHANGED <<fds, pending, slot, overwritten, copy, server, stream, todo, log>>

-----------------------------------------------------------------------------
(* thread_handle *)

\* clinfo client = *((clinfo *)vargp), one member after the other
CopyFd(t) ==
  /\ Running /\ pc[t] = "copying"
  /\ copy' = [copy EXCEPT ![t].fd = slot.fd]
  /\ pc' = [pc EXCEPT ![t] = "copied"]
  /\ UNCHANGED <<fds, loop, server, stream, todo, log>>

CopyAddress(t) ==
  /\ Running /\ pc[t] = "copied"
  /\ copy' = [copy EXCEPT ![t].conn = slot.conn]
  /\ pc' = [pc EXCEPT ![t] = "request"]
  /\ UNCHANGED <<fds, loop, server, stream, todo, log>>

\* The thread closes these descriptors, in this order, and returns.
Leave(t, descriptors) ==
  /\ pc' = [pc EXCEPT ![t] = "closing"]
  /\ todo' = [todo EXCEPT ![t] = descriptors]

\* No request, not GET or CONNECT, a bad url, an unknown host, no socket.
Refuse(t) ==
  /\ Running /\ pc[t] = "request"
  /\ Leave(t, <<copy[t].fd>>)
  /\ UNCHANGED <<fds, loop, copy, server, stream, log>>

OpenServer(t) ==
  /\ Running /\ pc[t] = "request"
  /\ \E f \in Fds :
       /\ NewFd(f)
       /\ fds' = [fds EXCEPT ![f] = <<"server", t>>]
       /\ server' = [server EXCEPT ![t] = f]
  /\ pc' = [pc EXCEPT ![t] = "server"]
  /\ UNCHANGED <<loop, copy, stream, todo, log>>

\* connect or the write of the request fails, or poll reports an error.
ServerFails(t) ==
  /\ Running /\ pc[t] = "server"
  /\ Leave(t, <<copy[t].fd, server[t]>>)
  /\ UNCHANGED <<fds, loop, copy, server, stream, log>>

\* Mutated form: server_fd is closed as soon as the response is relayed, too.
RelayedAndClosed(t) ==
  /\ pc[t] = "server"
  /\ Log!Finish(t)
  /\ pc' = [pc EXCEPT ![t] = "logging"]
  /\ fds' = [fds EXCEPT ![server[t]] = Free]
  /\ UNCHANGED <<loop, copy, server, stream, todo>>

\* The response is relayed, or the tunnel timed out.
Relayed(t) ==
  /\ pc[t] = "server"
  /\ Log!Finish(t)
  /\ pc' = [pc EXCEPT ![t] = "logging"]
  /\ UNCHANGED <<fds, loop, copy, server, stream, todo>>

OpenLog(t) ==
  /\ Log!Fopen(t)
  /\ \E f \in Fds :
       /\ NewFd(f)
       /\ fds' = [fds EXCEPT ![f] = <<"log", t>>]
       /\ stream' = [stream EXCEPT ![t] = f]
  /\ UNCHANGED <<loop, copy, server, todo, pc>>

\* Only client_fd is closed: server_fd stays open for good.
OpenLogFails(t) ==
  /\ Log!FopenFails(t)
  /\ Leave(t, <<copy[t].fd>>)
  /\ UNCHANGED <<fds, loop, copy, server, stream>>

WriteLog(t) ==
  /\ Log!Lock(t) \/ Log!Localtime(t) \/ Log!PrintEntry(t) \/ Log!Unlock(t)
  /\ UNCHANGED <<fds, loop, handler>>

CloseLog(t) ==
  /\ Log!Fclose(t)
  /\ fds' = [fds EXCEPT ![stream[t]] = Free]
  /\ Leave(t, <<server[t], copy[t].fd>>)
  /\ UNCHANGED <<loop, copy, server, stream>>

\* close of a descriptor, whatever it refers to by now
CloseNext(t) ==
  /\ Running /\ pc[t] = "closing" /\ todo[t] # <<>>
  /\ fds' = [fds EXCEPT ![Head(todo[t])] = Free]
  /\ todo' = [todo EXCEPT ![t] = Tail(@)]
  /\ UNCHANGED <<loop, copy, server, stream, pc, log>>

Return(t) ==
  /\ Running /\ pc[t] = "closing" /\ todo[t] = <<>>
  /\ pc' = [pc EXCEPT ![t] = "ended"]
  /\ UNCHANGED <<fds, loop, copy, server, stream, todo, log>>

\* The process ends under the threads, see ThreadLog.
ProcessEnds ==
  /\ \/ (\E t \in Conns : pc[t] = "server") /\ Log!Sigpipe
     \/ Log!ExitEnds
     \/ \E t \in Conns : Log!ExitFlushes(t)
  /\ UNCHANGED <<fds, loop, handler>>

Thread(t) ==
  \/ CopyFd(t) \/ CopyAddress(t) \/ Refuse(t) \/ OpenServer(t)
  \/ ServerFails(t) \/ Relayed(t) \/ OpenLog(t) \/ OpenLogFails(t)
  \/ WriteLog(t) \/ CloseLog(t) \/ CloseNext(t) \/ Return(t)

Main == FillFd \/ FillAddress \/ Create \/ CreateFails

Next ==
  \/ Main \/ AcceptFails \/ ProcessEnds
  \/ \E c \in Conns : Accept(c) \/ Thread(c)

Spec == Init /\ [][Next]_vars

\* The read of the request (40) waits for the client, and connect, the write of
\* the request and the relay or tunnel wait for both ends, maybe for ever.
AwaitsPeer(t) == pc[t] \in {"request", "server"}

\* main and the threads are scheduled.  Nothing makes clients connect or send a
\* request, servers answer, or a relay or tunnel end (see GetRelay and
\* ConnectTunnel for when they do).
FairSpec ==
  Spec /\ WF_vars(Main) /\ \A t \in Conns : WF_vars(~AwaitsPeer(t) /\ Thread(t))

-----------------------------------------------------------------------------
(* Type correctness of main's loop, the descriptor table and the threads.  *)
TypeOK ==
  /\ pending \subseteq Conns
  /\ fds \in [Fds -> Files \cup {Free}]
  /\ main \in [at : {"accept", "fill fd", "fill address", "create"},
               fd : Fds \cup {0}, conn : Conns \cup {NoConn}]
  /\ slot \in [fd : Fds \cup {0}, conn : Conns \cup {NoConn}]
  /\ overwritten \in BOOLEAN
  /\ copy \in [Conns -> [fd : Fds \cup {0}, conn : Conns \cup {NoConn}]]
  /\ server \in [Conns -> Fds \cup {0}]
  /\ stream \in [Conns -> Fds \cup {0}]
  /\ todo \in [Conns -> Seq(Fds \cup {0})]
  /\ pc \in [Conns -> PCs]
  /\ Log!TypeOK

(* README 15-16: the proxy "uses each thread to handle each connection in  *)
(* the thread version": a thread that has its copy (35) reads, relays and  *)
(* logs with the descriptor and the address of the connection it was       *)
(* created for.                                                            *)
HandlesItsConnection ==
  \A t \in Conns :
    pc[t] \in {"request", "server", "logging"} =>
      /\ copy[t].conn = t
      /\ fds[copy[t].fd] = <<"client", t>>

(* A thread writes to its own server's connection (117, 256) and its own   *)
(* stream (164), and a descriptor it is about to close still refers to     *)
(* what it opened, or was given, for its connection: no descriptor is      *)
(* closed twice or after its number was used again.  When it has returned  *)
(* it holds none but its server's if the log could not be opened (154-158).*)
UsesOwnDescriptors ==
  \A t \in Conns :
    /\ pc[t] \in {"server", "logging"} => fds[server[t]] = <<"server", t>>
    /\ lpc[t] \in {"locking", "timing", "printing", "unlocking", "flushing"}
         => fds[stream[t]] = <<"log", t>>
    /\ \A i \in DOMAIN todo[t] : fds[todo[t][i]][2] = t
    /\ pc[t] = "ended" =>
         \A f \in Fds : fds[f][2] = t => fds[f] = <<"server", t>> /\ lpc[t] = "failed"

(* Only main's own haste makes a thread handle a connection that is not    *)
(* its own: as long as main has not written to the clinfo (386-387) before *)
(* a new thread's copy (35) was complete, no interleaving and no failing   *)
(* call does.                                                              *)
OwnConnectionUnlessOverwritten == overwritten \/ HandlesItsConnection

(* ... nor use or close a descriptor that is not its own, although numbers *)
(* are reused as soon as they are closed.                                  *)
OwnDescriptorsUnlessOverwritten == overwritten \/ UsesOwnDescriptors

(* Whatever thread_handle and main do, the log keeps its entries whole,    *)
(* each with the time of its own thread although localtime's result (700)  *)
(* belongs to all: written by fclose (168), outside the mutex, or by       *)
(* main's exit.                                                            *)
LogStaysWhole == Log!AppendsWholeEntries

(* An accepted connection is closed, in every way its request can end and  *)
(* whoever else waits for log_mutex, for a client or for a server; except  *)
(* that its own client or server may keep it waiting for ever (40, 85-126, *)
(* 226), and that no thread closes it if none could be created (389) or    *)
(* its clinfo was overwritten.                                             *)
AcceptedIsClosed ==
  \A c \in Conns :
    \/ <>[]AwaitsPeer(c)
    \/ c \notin pending ~>
         \/ \A f \in Fds : fds[f] # <<"client", c>>
         \/ pc[c] = "uncreated" \/ overwritten \/ process # "running"

=============================================================================
