------------------------------ MODULE GetRelay ------------------------------
(***************************************************************************)
(* How a GET response goes from the web server to the client (proxy.c      *)
(* 125-150 in a thread, 491-516 in a child): one read of at most BufSize   *)
(* bytes; if it fills the buffer, one more read of the rest that           *)
(* Content-Length announces or, without that header, reads until the       *)
(* server closes.  What was read is written to the client, and counted in  *)
(* the total that the log reports; the results of the writes are not       *)
(* looked at.                                                              *)
(*                                                                         *)
(* Bytes are counted, not named: every write sends the bytes of the read   *)
(* before it, so the client has a prefix of the response.  The server      *)
(* hands its response to the network in pieces of any size.                *)
(***************************************************************************)
EXTENDS Integers

CONSTANTS
  BufSize,      \* sizeof(response), 1024 in the code
  Responses,    \* the responses a server may give, see ResponseType
  GarbageLens   \* values of remainingLength when the header end is not found

\* head: bytes up to and with the blank line; body: bytes after it;
\* field: where in the head a line "Content-Length: <body>" ends, 0 if none;
\* closes: the server closes the connection after the response.
ResponseType ==
  {r \in [head : Nat, body : Nat, field : Nat, closes : BOOLEAN] :
     r.head > 0 /\ r.field < r.head}

ASSUME BufSizeAssumption == BufSize \in Nat \ {0}
ASSUME ResponsesAssumption == Responses \subseteq ResponseType
ASSUME GarbageAssumption == GarbageLens \subseteq Int

VARIABLES
  response,   \* the response of the server, chosen by it
  sent,       \* bytes of it the network has brought to server_fd so far
  server,     \* "open", "closed" by the server, or "reset"
  client,     \* "open", "reset", or "dead" once the reset was reported
  taken,      \* bytes read from server_fd
  delivered,  \* bytes that write to client_fd accepted
  total,      \* total in the code, an int
  remaining,  \* remainingLength in the code
  pc          \* the statement the relay is at

vars == <<response, sent, server, client, taken, delivered, total, remaining, pc>>
network == <<response, sent, server, client>>

Size == response.head + response.body
Available == sent - taken
Least(m, n) == IF m < n THEN m ELSE n

Init ==
  /\ response \in Responses
  /\ sent = 0 /\ server = "open" /\ client = "open"
  /\ taken = 0 /\ delivered = 0 /\ total = 0 /\ remaining = 0
  /\ pc = "first"

-----------------------------------------------------------------------------
(* The server and the client *)

Send ==
  /\ server = "open"
  /\ \E k \in 1..(Size - sent) : sent' = sent + k
  /\ UNCHANGED <<response, server, client, taken, delivered, total, remaining, pc>>

CloseServer ==
  /\ server = "open" /\ sent = Size /\ response.closes
  /\ server' = "closed"
  /\ UNCHANGED <<response, sent, client, taken, delivered, total, remaining, pc>>

\* A reset discards what the proxy has not read yet.
ResetServer ==
  /\ server = "open"
  /\ server' = "reset"
  /\ sent' = taken
  /\ UNCHANGED <<response, client, taken, delivered, total, remaining, pc>>

ResetClient ==
  /\ client = "open"
  /\ client' = "reset"
  /\ UNCHANGED <<response, sent, server, taken, delivered, total, remaining, pc>>

-----------------------------------------------------------------------------
(* The proxy *)

\* What read(server_fd, ..., count) can return now; nothing while it blocks.
\* A negative count is a huge size_t: EFAULT.
ReadResults(count) ==
  {n \in {-1, 0, Least(Available, count)} :
     \/ count < 0 /\ n = -1
     \/ count = 0 /\ n = 0
     \/ count > 0 /\ Available > 0 /\ n = Least(Available, count)
     \/ count > 0 /\ Available = 0 /\ server = "closed" /\ n = 0
     \/ count > 0 /\ Available = 0 /\ server = "reset" /\ n = -1}

Sent(n) == IF n > 0 THEN n ELSE 0

\* read n and write(client_fd, ..., n), whose result the code ignores.  A
\* connection that was reset reports that once; another write to it, or the
\* first if the client had closed before, raises SIGPIPE, even one of no
\* bytes.  A negative n is no size: EFAULT, before the connection is looked at.
Relay(n, counted, next) ==
  /\ taken' = taken + Sent(n)
  /\ UNCHANGED <<response, sent, server, remaining>>
  /\ \/ /\ client = "open" \/ n < 0
        /\ delivered' = delivered + Sent(n)
        /\ total' = total + counted
        /\ pc' = next
        /\ UNCHANGED client
     \/ /\ client = "reset" /\ n >= 0
        /\ client' = "dead"
        /\ total' = total + counted
        /\ pc' = next
        /\ UNCHANGED delivered
     \/ /\ client # "open" /\ n >= 0
        /\ pc' = "killed"
        /\ UNCHANGED <<client, delivered, total>>

\* Mutated form: the first bytes are relayed but total starts at zero.
FirstReadUncounted ==
  /\ pc = "first"
  /\ \E n \in ReadResults(BufSize) :
       Relay(n, 0, IF n = BufSize THEN "more" ELSE "logging")

FirstRead ==
  /\ pc = "first"
  /\ \E n \in ReadResults(BufSize) :
       Relay(n, n, IF n = BufSize THEN "more" ELSE "logging")

\* strstr(response, "Content-Length:") and the end of the head, in the buffer
FieldFound == response.field \in 1..BufSize
HeadFound == response.head <= BufSize

\* No Content-Length in the buffer: the code takes the response for chunked.
TakeChunked ==
  /\ pc = "more" /\ ~FieldFound
  /\ pc' = "chunked"
  /\ UNCHANGED <<network, taken, delivered, total, remaining>>

\* remainingLength = cLength + headerSize - 1024
TakeContentLength ==
  /\ pc = "more" /\ FieldFound /\ HeadFound
  /\ remaining' = response.body + response.head - BufSize
  /\ pc' = "rest"
  /\ UNCHANGED <<network, taken, delivered, total>>

\* strstr returns NULL for the end of the head: headerSize is a null pointer
\* minus the buffer's address, so remainingLength is any number, and an
\* array of that size may not fit the stack.
TakeGarbageLength ==
  /\ pc = "more" /\ FieldFound /\ ~HeadFound
  /\ \/ /\ remaining' \in GarbageLens
        /\ pc' = "rest"
     \/ /\ pc' = "killed"
        /\ UNCHANGED remaining
  /\ UNCHANGED <<network, taken, delivered, total>>

\* The loop ends without a write.
EndLoop ==
  /\ pc' = "logging"
  /\ UNCHANGED <<network, taken, delivered, total, remaining>>

\* Mutated form: the loop also stops at a read that does not fill the buffer.
ReadChunkOnce ==
  /\ pc = "chunked"
  /\ \E n \in ReadResults(BufSize) :
       IF n > 0 THEN Relay(n, n, IF n = BufSize THEN "chunked" ELSE "logging")
       ELSE EndLoop

ReadChunk ==
  /\ pc = "chunked"
  /\ \E n \in ReadResults(BufSize) :
       IF n > 0 THEN Relay(n, n, "chunked") ELSE EndLoop

\* Mutated form: the rest is read until the server closes, as in the loop.
ReadRestToEnd ==
  /\ pc = "rest"
  /\ \E n \in ReadResults(BufSize) :
       Relay(n, Sent(n), IF n > 0 THEN "rest" ELSE "logging")

ReadRest ==
  /\ pc = "rest"
  /\ \E n \in ReadResults(remaining) : Relay(n, n, "logging")

\* The entry with total is logged and both connections are closed.
Log ==
  /\ pc = "logging"
  /\ pc' = "done"
  /\ UNCHANGED <<network, taken, delivered, total, remaining>>

Step ==
  \/ FirstRead \/ TakeChunked \/ TakeContentLength \/ TakeGarbageLength
  \/ ReadChunk \/ ReadRest \/ Log

Next == Step \/ Send \/ CloseServer \/ ResetServer \/ ResetClient

Spec == Init /\ [][Next]_vars

\* The proxy runs; a server that is not reset sends all of its response and
\* closes the connection if that is what it does.
FairSpec == Spec /\ WF_vars(Step) /\ WF_vars(Send) /\ WF_vars(CloseServer)

-----------------------------------------------------------------------------
(* Type correctness of the relay's counters and of the network.            *)
TypeOK ==
  /\ response \in Responses
  /\ sent \in 0..Size
  /\ server \in {"open", "closed", "reset"}
  /\ client \in {"open", "reset", "dead"}
  /\ taken \in 0..sent
  /\ delivered \in 0..taken
  /\ total \in Int
  /\ remaining \in Int
  /\ pc \in {"first", "more", "chunked", "rest", "logging", "done", "killed"}

(* What is read is written: a client that is not reset has been given all  *)
(* of it.  The size in the log entry (163, 533) is the number of bytes     *)
(* read, whatever became of the writes, and one less if the last read      *)
(* failed and its -1 was added: after a reset of the server, or when the   *)
(* head ends beyond the buffer and the length asked for is negative.       *)
CountsWhatItDelivers ==
  /\ pc # "killed" /\ client = "open" => delivered = taken
  /\ pc = "done" =>
       \/ total = taken
       \/ total = taken - 1 /\ (server = "reset" \/ (FieldFound /\ ~HeadFound))

(* The chunked loop (134-138) ends, without a reset of the server, only    *)
(* when the whole response was read, and a client that is not reset has    *)
(* all of it; the single read of the rest (146) asks for exactly what the  *)
(* response still has.                                                     *)
ChunkedIsComplete ==
  /\ pc = "done" /\ taken >= BufSize /\ ~FieldFound /\ server # "reset" =>
       taken = Size /\ (client = "open" => delivered = Size)
  /\ pc = "rest" /\ HeadFound => remaining = Size - taken

(* The comment at 125: "Get the response from the web server, and write    *)
(* the response to the client_fd".  Between peers that do not reset, the   *)
(* client has the whole response when the relay is logged.                 *)
RelaysWholeResponse ==
  pc = "done" /\ server # "reset" /\ client = "open" => delivered = Size

(* The relay ends when the server closes after its response, and also when *)
(* the server keeps the connection open but the length was found in the    *)
(* first buffer: only the chunked loop depends on the server closing.      *)
RelayEnds ==
  response.closes \/ (FieldFound /\ HeadFound) ~> pc \in {"done", "killed"}

=============================================================================
