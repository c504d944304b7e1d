--------------------------- MODULE SequentialProxy ---------------------------
(***************************************************************************)
(* The sequential proxy (Assignment2 proxy.c): main serves one connection  *)
(* after the other, and any error ends the whole program (63-215).         *)
(*                                                                         *)
(* The request that is sent decides how the response ends: the chunked     *)
(* loop (177-181) waits until the web server closes the connection, which  *)
(* a server does when the request asks for it.                             *)
(***************************************************************************)
EXTENDS RequestRewrite, FiniteSets

CONSTANTS
  Clients,    \* the connections that clients make
  Nobody,     \* no connection
  Requests,   \* the requests that clients may send, as sequences of lines
  MaxFd       \* descriptors the program may have open

ASSUME NobodyAssumption == Nobody \notin Clients
ASSUME RequestsAssumption ==
  \A r \in Requests : r \in Seq(Lines) /\ Len(r) > 0
ASSUME MaxFdAssumption == MaxFd \in Nat \ {0}

VARIABLES
  pending,   \* connections not accepted yet
  request,   \* what each client sends
  at,        \* the statement main is at
  client,    \* client_fd: the connection it belongs to
  sent,      \* the request written to server_fd
  open,      \* the open descriptors
  logfile,   \* the connections whose entries are in logfile.txt, in order
  unlogged   \* those whose entry could not be written; main does not know

log == <<logfile, unlogged>>
vars == <<pending, request, at, client, sent, open, log>>

Proxy == <<"proxy", Nobody>>
Client(c) == <<"client", c>>
Server(c) == <<"server", c>>

Init ==
  /\ pending = Clients
  /\ request \in [Clients -> Requests]
  /\ at = "accept"
  /\ client = Nobody
  /\ sent = <<>>
  /\ open = {Proxy}
  /\ logfile = <<>>
  /\ unlogged = {}

MayOpen == Cardinality(open) < MaxFd

Goto(from, to) == at = from /\ at' = to

Accept(c) ==
  /\ Goto("accept", "read")
  /\ c \in pending /\ MayOpen
  /\ pending' = pending \ {c}
  /\ client' = c
  /\ open' = open \cup {Client(c)}
  /\ UNCHANGED <<request, sent, log>>

\* Something arrives, and it is a GET of a well-formed url.
ReadRequest ==
  /\ Goto("read", "lookup")
  /\ request[client][1] = AbsoluteLine
  /\ UNCHANGED <<pending, request, client, sent, open, log>>

\* The lookup, the socket and the connection to the web server succeed.
Connect ==
  /\ Goto("lookup", "send")
  /\ MayOpen
  /\ open' = open \cup {Server(client)}
  /\ UNCHANGED <<pending, request, client, sent, log>>

SendRequest ==
  /\ Goto("send", "response")
  /\ sent' = Rewrite(request[client])
  /\ UNCHANGED <<pending, request, client, open, log>>

\* The first read does not fill the buffer: it is taken for the response.
ShortResponse ==
  /\ Goto("response", "log")
  /\ UNCHANGED <<pending, request, client, sent, open, log>>

\* It does: the rest of a given length, or all until the server closes.
LongResponse ==
  /\ Goto("response", "log") \/ Goto("response", "rest")
  /\ UNCHANGED <<pending, request, client, sent, open, log>>

ServerCloses ==
  /\ Goto("rest", "log")
  /\ AsksToClose(sent)
  /\ UNCHANGED <<pending, request, client, sent, open, log>>

\* A server may close, or reset, a connection it was not asked to close.
ServerGivesUp ==
  /\ Goto("rest", "log")
  /\ UNCHANGED <<pending, request, client, sent, open, log>>

\* Mutated form: a log that cannot be opened is passed over.
WriteLogIfOpen ==
  /\ Goto("log", "close")
  /\ logfile' = IF MayOpen THEN Append(logfile, client) ELSE logfile
  /\ UNCHANGED <<pending, request, client, sent, open, unlogged>>

\* fopen, fprintf, fclose
WriteLog ==
  /\ Goto("log", "close")
  /\ MayOpen
  /\ logfile' = Append(logfile, client)
  /\ UNCHANGED <<pending, request, client, sent, open, unlogged>>

\* A full disk or an error of it when the stream is written out: the results
\* of fprintf and fclose are not looked at.
WriteLogFails ==
  /\ Goto("log", "close")
  /\ MayOpen
  /\ unlogged' = unlogged \cup {client}
  /\ UNCHANGED <<pending, request, client, sent, open, logfile>>

\* close(client_fd); server_fd stays open.
CloseClient ==
  /\ Goto("close", "accept")
  /\ open' = open \ {Client(client)}
  /\ UNCHANGED <<pending, request, client, sent, log>>

\* No descriptor for a socket or the log
MustExit == at \in {"lookup", "log"} /\ ~MayOpen

\* Whatever fails, and whatever the request is if not a GET, main exits; a
\* client that reset its connection ends the program by SIGPIPE.
Exit ==
  /\ \/ at = "accept" /\ pending # {}
     \/ at \in {"read", "lookup", "send", "response", "rest", "log"}
  /\ at' = "exited"
  /\ open' = {}
  /\ UNCHANGED <<pending, request, client, sent, log>>

\* What main does when nothing fails and the server keeps to the protocol
Serve ==
  \/ ReadRequest \/ Connect \/ SendRequest \/ ShortResponse \/ LongResponse
  \/ ServerCloses \/ WriteLog \/ CloseClient

Next == Serve \/ WriteLogFails \/ ServerGivesUp \/ Exit \/ \E c \in Clients : Accept(c)

Spec == Init /\ [][Next]_vars

\* The read of the request (73) waits for the client, maybe for ever.
AwaitsClient == at = "read"

\* The program runs, web servers answer and close as they are asked to, and
\* what cannot succeed fails.  Nothing makes a client send its request.
FairSpec == Spec /\ WF_vars(~AwaitsClient /\ (Serve \/ (MustExit /\ Exit)))

-----------------------------------------------------------------------------
(* 140-156: of a request with the one line "Connection: keep-alive",       *)
(* wherever it stands, the server gets every line, with the first and that *)
(* one changed as the comments at 140 and 143 say.                         *)
RewritesKeepAlive ==
  at \in {"response", "rest", "log", "close"} /\ FromBrowser(request[client])
    => sent = Rewritten(request[client])

(* A client that asks as browsers do is answered and its connection        *)
(* closed, by main or by its exit, unless it connects and never sends its  *)
(* request (73): the rewritten request makes the server close, on which    *)
(* the relay of a long response waits.                                     *)
AcceptedIsClosed ==
  \A c \in Clients :
    \/ <>[](AwaitsClient /\ client = c)
    \/ c \notin pending /\ FromBrowser(request[c]) ~> Client(c) \notin open

(* README: the proxy "finally logs this entry": back at accept it has      *)
(* logged every connection it accepted, each once, and misses only those   *)
(* whose write to the log failed (207-208), not one more.                  *)
LogsEveryConnection ==
  at = "accept" =>
    LET served == (Clients \ pending) \ unlogged IN
      /\ {logfile[i] : i \in DOMAIN logfile} = served
      /\ Len(logfile) = Cardinality(served)

=============================================================================
