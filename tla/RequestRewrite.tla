--------------------------- MODULE RequestRewrite ---------------------------
(***************************************************************************)
(* How both proxies rewrite a GET request before they send it to the web   *)
(* server (Assignment2 proxy.c 140-156, Assignment3 proxy.c 98-114 and     *)
(* 463-479).                                                               *)
(*                                                                         *)
(* A request is the sequence of its lines; a header line is a record of a  *)
(* name and a value.  The code looks for the text                          *)
(* "Connection: keep-alive\r\n", which also ends the line                  *)
(* "Proxy-Connection: keep-alive\r\n".                                     *)
(***************************************************************************)
EXTENDS Naturals, Sequences

\* The first line as the client sent it, and as the proxy prints it.
AbsoluteLine == [name |-> "GET", value |-> "http://host/resource"]
ResourceLine == [name |-> "GET", value |-> "/resource"]

Names == {"Connection", "Proxy-Connection", "Host"}
Values == {"keep-alive", "close", "host"}
Lines == [name : Names, value : Values] \cup {AbsoluteLine, ResourceLine}

Matches(line) ==
  line.value = "keep-alive" /\ line.name \in {"Connection", "Proxy-Connection"}

Found(lines) == {i \in DOMAIN lines : Matches(lines[i])}

\* strstr: the first line in which the text occurs
First(lines) == CHOOSE i \in Found(lines) : \A j \in Found(lines) : i <= j

\* The text in the line is replaced, and what precedes it in the line stays.
Closing(line) == [line EXCEPT !.value = "close"]

\* Mutated form: header is not moved past the text that was replaced.
RewriteKeepsLine(request) ==
  LET remaining == Tail(request)
      i == First(remaining)
  IN  IF Found(remaining) = {} THEN remaining
      ELSE <<ResourceLine>> \o SubSeq(remaining, 1, i - 1)
             \o <<[name |-> "Connection", value |-> "close"]>>
             \o SubSeq(remaining, i, Len(remaining))

\* Mutated form: the connection is left as it is.
RewriteFirstLine(request) == <<ResourceLine>> \o Tail(request)

\* Without a match strcpy(request, remaining) overwrites the first line.
Rewrite(request) ==
  LET remaining == Tail(request)
      i == First(remaining)
  IN  IF Found(remaining) = {} THEN remaining
      ELSE <<ResourceLine>> \o SubSeq(remaining, 1, i - 1)
             \o <<Closing(remaining[i])>>
             \o SubSeq(remaining, i + 1, Len(remaining))

\* Without this line an HTTP/1.1 server keeps the connection open.
AsksToClose(request) ==
  [name |-> "Connection", value |-> "close"] \in {request[i] : i \in DOMAIN request}

\* The request of a browser: one line with the text, and of the right name.
KeepAliveLine == [name |-> "Connection", value |-> "keep-alive"]
FromBrowser(request) ==
  /\ request[1] = AbsoluteLine
  /\ {request[i] : i \in Found(request)} = {KeepAliveLine}
  /\ \A i, j \in Found(request) : i = j

\* What Assignment2 proxy.c 140 and 143 say: "Rewrite the first line" and, for
\* the rest, "if connection is keep-alive, change to close".
Rewritten(request) ==
  [i \in DOMAIN request |->
     IF i = 1 THEN ResourceLine
     ELSE IF request[i] = KeepAliveLine THEN Closing(KeepAliveLine)
     ELSE request[i]]

=============================================================================
