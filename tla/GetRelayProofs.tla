--------------------------- MODULE GetRelayProofs ---------------------------
(***************************************************************************)
(* For every buffer size and every set of responses: what the relay of a   *)
(* GET response counts, and when it is complete.                           *)
(***************************************************************************)
EXTENDS GetRelay, TLAPS

(* total counts the bytes read (127, 136, 148), less one at the end if the *)
(* last read failed; and all of them went to a client that is not reset.   *)
Counted ==
  /\ pc # "killed" /\ client = "open" => delivered = taken
  /\ pc # "killed" =>
       \/ total = taken
       \/ /\ pc \in {"logging", "done"} /\ total = taken - 1
          /\ server = "reset" \/ (FieldFound /\ ~HeadFound)

(* What the relay knows at each statement about how far it has read.       *)
Progress ==
  /\ server = "closed" => sent = Size
  /\ pc = "first" => taken = 0 /\ total = 0
  /\ pc = "more" => taken = BufSize
  /\ pc = "chunked" => taken >= BufSize /\ ~FieldFound
  /\ pc = "rest" => FieldFound /\ (HeadFound => remaining = Size - taken)
  /\ pc \in {"logging", "done"} /\ taken >= BufSize
       /\ ~FieldFound /\ server # "reset" => taken = Size

IInv == TypeOK /\ Counted /\ Progress

(* A response has a size, and the size of its parts bounds it.             *)
LEMMA SizeType ==
  ASSUME TypeOK
  PROVE  /\ response.head \in Nat /\ response.body \in Nat /\ response.field \in Nat
         /\ Size = response.head + response.body /\ Size \in Nat
  BY ResponsesAssumption DEF TypeOK, ResponseType, Size

(* read returns a count between -1 and what was asked and is there; -1     *)
(* only for a reset or a negative length, 0 only at the end of the stream. *)
LEMMA ReadBounds ==
  ASSUME TypeOK, NEW count \in Int, NEW n \in ReadResults(count)
  PROVE  /\ n \in Int
         /\ n <= Available
         /\ n > 0 => n <= count
         /\ n < 0 => n = -1 /\ (count < 0 \/ server = "reset")
         /\ n <= 0 /\ count > 0 /\ server # "reset" => n = 0 /\ server = "closed"
  <1>1. Available \in Nat
    BY SizeType DEF TypeOK, Available
  <1>2. QED
    BY <1>1 DEF ReadResults, Least, TypeOK

(* The loop of 134 stops, without a reset, only at the end of the response. *)
LEMMA ReadAtEnd ==
  ASSUME TypeOK, NEW n \in ReadResults(BufSize), n <= 0, server = "closed"
  PROVE  taken = sent
  <1>1. Available \in Nat /\ BufSize \in Nat \ {0}
    BY SizeType, BufSizeAssumption DEF TypeOK, Available
  <1>2. Available = 0
    BY <1>1 DEF ReadResults, Least
  <1>3. QED
    BY <1>2, SizeType DEF TypeOK, Available

(* The relay of n bytes keeps what was read and what was written in step,  *)
(* and a client that is still open after the write was given them.         *)
LEMMA RelayStep ==
  ASSUME TypeOK, NEW count \in Int, NEW n \in ReadResults(count),
         NEW counted \in Int, NEW next \in {"more", "chunked", "logging"},
         Relay(n, counted, next)
  PROVE  /\ TypeOK'
         /\ Size' = Size /\ HeadFound' = HeadFound /\ FieldFound' = FieldFound
         /\ UNCHANGED <<sent, server, remaining>>
         /\ taken' = taken + Sent(n)
         /\ client' = "open" => /\ client = "open"
                                /\ delivered' = delivered + Sent(n)
         /\ pc' # "killed" => pc' = next /\ total' = total + counted
  <1>1. /\ sent \in Nat /\ taken \in Nat /\ delivered \in Nat /\ taken <= sent
        /\ delivered <= taken /\ total \in Int
    BY SizeType DEF TypeOK
  <1>2. Sent(n) \in Nat /\ Sent(n) <= sent - taken
    BY <1>1, ReadBounds DEF Sent, Available
  <1>3. /\ UNCHANGED <<response, sent, server, remaining>>
        /\ taken' = taken + Sent(n)
    BY DEF Relay
  <1>4. /\ \/ delivered' = delivered
           \/ delivered' = delivered + Sent(n)
        /\ \/ pc' = "killed" /\ total' = total
           \/ pc' = next /\ total' = total + counted
        /\ client' \in {"open", "reset", "dead"}
        /\ client' = "open" => /\ client = "open"
                               /\ delivered' = delivered + Sent(n)
    BY <1>2, ReadBounds DEF Relay, TypeOK, Sent
  <1>5. Size' = Size /\ HeadFound' = HeadFound /\ FieldFound' = FieldFound
    BY <1>3 DEF Size, HeadFound, FieldFound
  <1>6. TypeOK'
    BY <1>1, <1>2, <1>3, <1>4, <1>5 DEF TypeOK
  <1>7. QED
    BY <1>3, <1>4, <1>5, <1>6

(* The relay starts with nothing read.                                     *)
LEMMA InitInv == Init => IInv
  <1> SUFFICES ASSUME Init PROVE IInv
    OBVIOUS
  <1>1. Size \in Nat
    BY ResponsesAssumption DEF Init, ResponseType, Size
  <1>2. TypeOK
    BY <1>1 DEF Init, TypeOK
  <1>3. Counted /\ Progress
    BY DEF Init, Counted, Progress
  <1>4. QED
    BY <1>2, <1>3 DEF IInv

(* The server, the client and the network never undo what was relayed.     *)
LEMMA NetworkInv ==
  ASSUME IInv, Send \/ CloseServer \/ ResetServer \/ ResetClient
  PROVE  IInv'
  <1> USE DEF IInv, TypeOK, Counted, Progress, HeadFound, FieldFound
  <1>0. /\ sent \in Nat /\ taken \in Nat /\ delivered \in Nat /\ taken <= sent
        /\ delivered <= taken /\ Size \in Nat /\ sent <= Size
    BY SizeType
  <1>1. CASE Send
    <2>1. PICK k \in 1..(Size - sent) : sent' = sent + k
      BY <1>1 DEF Send
    <2>2. QED
      BY <1>0, <1>1, <2>1 DEF Send, Size
  <1>2. CASE CloseServer
    BY <1>0, <1>2 DEF CloseServer, Size
  <1>3. CASE ResetServer
    BY <1>0, <1>3 DEF ResetServer, Size
  <1>4. CASE ResetClient
    BY <1>0, <1>4 DEF ResetClient, Size
  <1>5. QED
    BY <1>1, <1>2, <1>3, <1>4

(* Looking for Content-Length (132-144) reads and writes nothing.          *)
LEMMA DecideInv ==
  ASSUME IInv, TakeChunked \/ TakeContentLength \/ TakeGarbageLength
  PROVE  IInv'
  <1>1. /\ UNCHANGED <<response, sent, server, client, taken, delivered, total>>
        /\ pc = "more" /\ taken = BufSize /\ Size' = Size
    BY DEF TakeChunked, TakeContentLength, TakeGarbageLength, network, IInv,
           Progress, Size
  <1>2. BufSize \in Nat \ {0} /\ remaining \in Int
        /\ response.head \in Nat /\ response.body \in Nat
        /\ Size = response.head + response.body
    BY SizeType, BufSizeAssumption DEF IInv, TypeOK
  <1>3. HeadFound' = HeadFound /\ FieldFound' = FieldFound
    BY <1>1 DEF HeadFound, FieldFound
  <1>4. \/ ~FieldFound /\ pc' = "chunked" /\ remaining' = remaining
        \/ /\ FieldFound /\ pc' = "rest" /\ remaining' \in Int
           /\ HeadFound => remaining' = Size - taken
        \/ pc' = "killed" /\ remaining' = remaining
    <2>1. CASE TakeChunked
      BY <2>1 DEF TakeChunked
    <2>2. CASE TakeContentLength
      BY <2>2, <1>1, <1>2 DEF TakeContentLength
    <2>3. CASE TakeGarbageLength
      BY <2>3, GarbageAssumption DEF TakeGarbageLength
    <2>4. QED
      BY <2>1, <2>2, <2>3
  <1>5. TypeOK'
    BY <1>1, <1>2, <1>4 DEF IInv, TypeOK
  <1>6. QED
    BY <1>1, <1>2, <1>3, <1>4, <1>5 DEF IInv, Counted, Progress

(* What a relay of n bytes, counted as given, leaves behind (see RelayStep) *)
After(n, counted, next) ==
  /\ TypeOK'
  /\ Size' = Size /\ HeadFound' = HeadFound /\ FieldFound' = FieldFound
  /\ UNCHANGED <<sent, server, remaining>>
  /\ taken' = taken + Sent(n)
  /\ client' = "open" => client = "open" /\ delivered' = delivered + Sent(n)
  /\ pc' # "killed" => pc' = next /\ total' = total + counted

(* Each read and write of the relay keeps the invariant.                   *)
LEMMA StepInv == IInv /\ [Next]_vars => IInv'
  <1> SUFFICES ASSUME IInv, [Next]_vars PROVE IInv'
    OBVIOUS
  <1>0. /\ TypeOK
        /\ sent \in Nat /\ taken \in Nat /\ delivered \in Nat /\ taken <= sent
        /\ delivered <= taken /\ Size \in Nat /\ sent <= Size
        /\ BufSize \in Nat \ {0}
        /\ response.head \in Nat /\ response.body \in Nat
        /\ Size = response.head + response.body
    BY SizeType, BufSizeAssumption DEF IInv, TypeOK
  <1>1. CASE FirstRead
    <2>1. PICK n \in ReadResults(BufSize) :
            Relay(n, n, IF n = BufSize THEN "more" ELSE "logging")
      BY <1>1 DEF FirstRead
    <2>2. taken = 0 /\ delivered = 0 /\ total = 0
      BY <1>0, <1>1 DEF FirstRead, IInv, Progress
    <2>3. n \in Int /\ n <= BufSize /\ (n < 0 => n = -1 /\ server = "reset")
      BY <1>0, <2>1, ReadBounds
    <2>4. CASE n = BufSize
      <3>1. Relay(n, n, "more")
        BY <2>1, <2>4
      <3>2. After(n, n, "more")
        BY <1>0, <2>1, <2>3, <3>1, RelayStep DEF After
      <3>3. QED
        BY <1>0, <2>2, <2>4, <3>2
        DEF After, IInv, Counted, Progress, Sent
    <2>5. CASE n # BufSize
      <3>1. Relay(n, n, "logging")
        BY <2>1, <2>5
      <3>2. After(n, n, "logging")
        BY <1>0, <2>1, <2>3, <3>1, RelayStep DEF After
      <3>3. QED
        BY <1>0, <2>2, <2>3, <2>5, <3>2
        DEF After, IInv, Counted, Progress, Sent
    <2>6. QED
      BY <2>4, <2>5
  <1>2. CASE TakeChunked \/ TakeContentLength \/ TakeGarbageLength
    BY <1>0, <1>2, DecideInv
  <1>3. CASE ReadChunk
    <2>1. PICK n \in ReadResults(BufSize) :
            IF n > 0 THEN Relay(n, n, "chunked") ELSE EndLoop
      BY <1>3 DEF ReadChunk
    <2>2. taken >= BufSize /\ ~FieldFound /\ total = taken
          /\ (client = "open" => delivered = taken)
      BY <1>3 DEF ReadChunk, IInv, Counted, Progress
    <2>3. n \in Int /\ (n <= 0 /\ server # "reset" => server = "closed")
      BY <1>0, <2>1, ReadBounds
    <2>4. CASE n > 0
      <3>1. Relay(n, n, "chunked")
        BY <2>1, <2>4
      <3>2. After(n, n, "chunked")
        BY <1>0, <2>1, <2>3, <3>1, RelayStep DEF After
      <3>3. QED
        BY <1>0, <2>2, <2>3, <2>4, <3>2
        DEF After, IInv, Counted, Progress, Sent
    <2>5. CASE ~(n > 0)
      <3>1. EndLoop
        BY <2>1, <2>5
      <3>2. server = "closed" => taken = Size
        BY <1>0, <2>1, <2>3, <2>5, ReadAtEnd DEF IInv, Progress
      <3>3. TypeOK' /\ Size' = Size
        BY <1>0, <3>1 DEF EndLoop, network, TypeOK, Size
      <3>4. QED
        BY <1>0, <2>2, <2>3, <2>5, <3>1, <3>2, <3>3
        DEF EndLoop, network, IInv, Counted, Progress, HeadFound, FieldFound
    <2>6. QED
      BY <2>4, <2>5
  <1>4. CASE ReadRest
    <2>1. PICK n \in ReadResults(remaining) : Relay(n, n, "logging")
      BY <1>4 DEF ReadRest
    <2>2. /\ FieldFound /\ total = taken /\ remaining \in Int
          /\ client = "open" => delivered = taken
          /\ HeadFound => remaining >= 0
      BY <1>0, <1>4 DEF ReadRest, IInv, TypeOK, Counted, Progress
    <2>3. n \in Int /\ (n < 0 => n = -1 /\ (remaining < 0 \/ server = "reset"))
      BY <1>0, <2>1, <2>2, ReadBounds
    <2>4. After(n, n, "logging")
      BY <1>0, <2>1, <2>2, <2>3, RelayStep DEF After
    <2>5. QED
      BY <1>0, <2>2, <2>3, <2>4
      DEF After, IInv, Counted, Progress, Sent
  <1>5. CASE Log
    <2>1. TypeOK' /\ Size' = Size
      BY <1>0, <1>5 DEF Log, network, TypeOK, Size
    <2>2. QED
      BY <1>0, <1>5, <2>1
      DEF Log, network, IInv, Counted, Progress, HeadFound, FieldFound
  <1>6. CASE Send \/ CloseServer \/ ResetServer \/ ResetClient
    BY <1>6, NetworkInv
  <1>7. CASE UNCHANGED vars
    BY <1>7 DEF vars, IInv, TypeOK, Counted, Progress, HeadFound, FieldFound, Size
  <1>8. QED
    BY <1>1, <1>2, <1>3, <1>4, <1>5, <1>6, <1>7 DEF Next, Step

(* The strengthened invariant holds in every reachable state.              *)
THEOREM Invariance == Spec => []IInv
  BY InitInv, StepInv, PTL DEF Spec

(* The counters of the relay (125-150) stay in range: never more is        *)
(* written than read, nor read than sent.                                  *)
THEOREM TypeCorrect == Spec => []TypeOK
  BY Invariance, PTL DEF IInv

(* The size logged (163, 533) is the number of bytes read, and what was    *)
(* given to a client that is not reset, for every buffer size and response *)
(* and whatever read or write fails; only a failed last read makes it one  *)
(* less.                                                                   *)
THEOREM CountsDelivered == Spec => []CountsWhatItDelivers
  <1>1. IInv => CountsWhatItDelivers
    BY DEF IInv, Counted, CountsWhatItDelivers
  <1>2. QED
    BY <1>1, Invariance, PTL

(* The loop of 134-138 ends with the whole response read, for every buffer *)
(* size and response, unless the server resets, and the rest that is asked *)
(* for at 146 is what the response still has.                              *)
THEOREM ChunkedComplete == Spec => []ChunkedIsComplete
  <1>1. IInv => ChunkedIsComplete
    BY DEF IInv, Counted, Progress, ChunkedIsComplete
  <1>2. QED
    BY <1>1, Invariance, PTL

=============================================================================
