------------------------ MODULE SequentialProxyProofs ------------------------
(***************************************************************************)
(* The sequential proxy rewrites the request of a browser as the comments  *)
(* of proxy.c say, for requests of any length, and logs every connection   *)
(* it serves to the end, each once.                                        *)
(***************************************************************************)
EXTENDS SequentialProxy, SequenceTheorems, FiniteSetTheorems, TLAPS

-----------------------------------------------------------------------------
(* The rewriting of a request *)

(* The lines of a concatenation, by the lengths of its parts.              *)
LEMMA ConcatLines ==
  ASSUME NEW s \in Seq(Lines), NEW t \in Seq(Lines)
  PROVE  /\ s \o t \in Seq(Lines)
         /\ Len(s \o t) = Len(s) + Len(t)
         /\ \A i \in 1..(Len(s) + Len(t)) : i <= Len(s) => (s \o t)[i] = s[i]
         /\ \A i \in 1..(Len(s) + Len(t)) : i > Len(s) => (s \o t)[i] = t[i - Len(s)]
  <1>1. /\ s \o t \in Seq(Lines)
        /\ Len(s \o t) = Len(s) + Len(t)
        /\ \A i \in 1..(Len(s) + Len(t)) :
             (s \o t)[i] = IF i <= Len(s) THEN s[i] ELSE t[i - Len(s)]
    BY ConcatProperties
  <1>2. Len(s) \in Nat /\ Len(t) \in Nat
    BY LenProperties
  <1>3. QED
    BY <1>1, <1>2

(* Exactly one line of a browser's request matches, and not the first.     *)
LEMMA OneMatch ==
  ASSUME NEW r \in Seq(Lines), r # <<>>, FromBrowser(r)
  PROVE  \E k \in 2..Len(r) :
           /\ r[k] = KeepAliveLine
           /\ \A i \in 1..Len(r) : Matches(r[i]) <=> i = k
  <1>1. PICK k \in Found(r) : r[k] = KeepAliveLine
    BY DEF FromBrowser
  <1>2. k \in 1..Len(r) /\ \A i \in 1..Len(r) : Matches(r[i]) => i = k
    BY <1>1, LenProperties DEF FromBrowser, Found
  <1>3. Matches(r[k])
    BY DEF Found
  <1>4. k # 1
    BY <1>1 DEF FromBrowser, AbsoluteLine, KeepAliveLine
  <1>5. QED
    BY <1>1, <1>2, <1>3, <1>4, LenProperties

(* What strstr finds in the rest of the request is that line.              *)
LEMMA FirstMatch ==
  ASSUME NEW r \in Seq(Lines), r # <<>>, NEW k \in 2..Len(r),
         \A i \in 1..Len(r) : Matches(r[i]) <=> i = k
  PROVE  /\ Found(Tail(r)) = {k - 1}
         /\ First(Tail(r)) = k - 1
  <1>1. /\ DOMAIN Tail(r) = 1..(Len(r) - 1)
        /\ \A i \in 1..(Len(r) - 1) : Tail(r)[i] = r[i + 1]
    BY HeadTailProperties, LenProperties
  <1>2. \A i \in 1..(Len(r) - 1) : Matches(Tail(r)[i]) <=> i = k - 1
    <2>1. SUFFICES ASSUME NEW i \in 1..(Len(r) - 1)
                   PROVE  Matches(r[i + 1]) <=> i = k - 1
      BY <1>1
    <2>2. i + 1 \in 1..Len(r) /\ (i + 1 = k <=> i = k - 1)
      BY LenProperties
    <2>3. QED
      BY <2>2
  <1>3. k - 1 \in 1..(Len(r) - 1)
    BY LenProperties
  <1>4. Found(Tail(r)) = {k - 1}
    BY <1>1, <1>2, <1>3 DEF Found
  <1>5. QED
    BY <1>3, <1>4 DEF First

(* A match becomes a line that asks to close, also with the name in front. *)
LEMMA ClosingIsLine ==
  ASSUME NEW l \in Lines, Matches(l)
  PROVE  Closing(l) \in Lines
  <1>1. l \in [name : Names, value : Values]
    BY DEF Lines, Matches, AbsoluteLine, ResourceLine
  <1>2. "close" \in Values
    BY DEF Values
  <1>3. QED
    BY <1>1, <1>2 DEF Closing, Lines

(* 140-156: the four strings that are put together are the request line by *)
(* line, with the first line and the matching one changed.                 *)
LEMMA RewriteAtMatch ==
  ASSUME NEW r \in Seq(Lines), r # <<>>, NEW k \in 2..Len(r),
         \A i \in 1..Len(r) : Matches(r[i]) <=> i = k
  PROVE  /\ Rewrite(r) \in Seq(Lines)
         /\ Len(Rewrite(r)) = Len(r)
         /\ \A i \in 1..Len(r) :
              Rewrite(r)[i] = IF i = 1 THEN ResourceLine
                              ELSE IF i = k THEN Closing(r[k]) ELSE r[i]
  <1> DEFINE rest == Tail(r)
             before == SubSeq(rest, 1, k - 2)
             after == SubSeq(rest, k, Len(r) - 1)
             one == <<ResourceLine>>
             closing == <<Closing(r[k])>>
  <1>1. Len(r) \in Nat /\ k \in Nat /\ k >= 2 /\ k <= Len(r)
    BY LenProperties
  <1>2. /\ rest \in Seq(Lines) /\ Len(rest) = Len(r) - 1
        /\ \A i \in 1..(Len(r) - 1) : rest[i] = r[i + 1]
    BY HeadTailProperties
  <1>3. \A i \in 1..(Len(r) - 1) : rest[i] \in Lines
    BY <1>2, ElementOfSeq
  <1>4. /\ before \in Seq(Lines) /\ Len(before) = k - 2
        /\ \A i \in 1..(k - 2) : before[i] = r[i + 1]
    <2>1. \A i \in 1..(k - 2) : i \in 1..(Len(r) - 1)
      BY <1>1
    <2>2. /\ before \in Seq(Lines)
          /\ Len(before) = IF 1 <= k - 2 THEN (k - 2) - 1 + 1 ELSE 0
          /\ \A i \in 1..((k - 2) - 1 + 1) : before[i] = rest[1 + i - 1]
      BY <1>1, <1>3, <2>1, SubSeqProperties
    <2>3. Len(before) = k - 2
      BY <1>1, <2>2
    <2>4. \A i \in 1..(k - 2) : before[i] = rest[i]
      BY <1>1, <2>2
    <2>5. QED
      BY <1>2, <2>1, <2>2, <2>3, <2>4
  <1>5. /\ after \in Seq(Lines) /\ Len(after) = Len(r) - k
        /\ \A i \in 1..(Len(r) - k) : after[i] = r[k + i]
    <2>1. \A i \in k..(Len(r) - 1) : i \in 1..(Len(r) - 1)
      BY <1>1
    <2>2. /\ after \in Seq(Lines)
          /\ Len(after) = IF k <= Len(r) - 1 THEN (Len(r) - 1) - k + 1 ELSE 0
          /\ \A i \in 1..((Len(r) - 1) - k + 1) : after[i] = rest[k + i - 1]
      BY <1>1, <1>3, <2>1, SubSeqProperties
    <2>3. Len(after) = Len(r) - k
      BY <1>1, <2>2
    <2>4. ASSUME NEW i \in 1..(Len(r) - k)
          PROVE  after[i] = r[k + i]
      <3>1. i \in 1..((Len(r) - 1) - k + 1) /\ k + i - 1 \in 1..(Len(r) - 1)
        BY <1>1
      <3>2. after[i] = rest[k + i - 1]
        BY <2>2, <3>1
      <3>3. rest[k + i - 1] = r[(k + i - 1) + 1]
        BY <1>2, <3>1
      <3>4. (k + i - 1) + 1 = k + i
        BY <1>1
      <3>5. QED
        BY <3>2, <3>3, <3>4
    <2>5. QED
      BY <2>2, <2>3, <2>4
  <1>6. /\ one \in Seq(Lines) /\ Len(one) = 1 /\ one[1] = ResourceLine
    BY DEF Lines
  <1>7. /\ closing \in Seq(Lines) /\ Len(closing) = 1 /\ closing[1] = Closing(r[k])
    BY ClosingIsLine, ElementOfSeq
  <1>8. Rewrite(r) = one \o before \o closing \o after
    <2>1. Found(rest) # {} /\ First(rest) = k - 1
      BY FirstMatch
    <2>2. rest[k - 1] = r[k]
      BY <1>1, <1>2
    <2>3. (k - 1) - 1 = k - 2 /\ (k - 1) + 1 = k
      BY <1>1
    <2>4. QED
      BY <1>2, <2>1, <2>2, <2>3 DEF Rewrite
  <1> HIDE DEF rest, before, after, one, closing
  <1>9. /\ one \o before \in Seq(Lines) /\ Len(one \o before) = k - 1
        /\ \A i \in 1..(k - 1) :
             (one \o before)[i] = IF i = 1 THEN ResourceLine ELSE r[i]
    <2>1. /\ one \o before \in Seq(Lines)
          /\ Len(one \o before) = 1 + (k - 2)
          /\ \A i \in 1..(1 + (k - 2)) : i <= 1 => (one \o before)[i] = one[i]
          /\ \A i \in 1..(1 + (k - 2)) : i > 1 => (one \o before)[i] = before[i - 1]
      <3>1. /\ one \o before \in Seq(Lines)
            /\ Len(one \o before) = Len(one) + Len(before)
            /\ \A i \in 1..(Len(one) + Len(before)) :
                 i <= Len(one) => (one \o before)[i] = one[i]
            /\ \A i \in 1..(Len(one) + Len(before)) :
                 i > Len(one) => (one \o before)[i] = before[i - Len(one)]
        BY <1>4, <1>6, ConcatLines
      <3>2. Len(one) = 1 /\ Len(before) = k - 2
        BY <1>4, <1>6
      <3>3. QED
        BY <3>1, <3>2
    <2>2. 1 + (k - 2) = k - 1
      BY <1>1
    <2>3. ASSUME NEW i \in 1..(k - 1), i # 1
          PROVE  before[i - 1] = r[i]
      <3>1. i - 1 \in 1..(k - 2) /\ (i - 1) + 1 = i
        BY <1>1, <2>3
      <3>2. QED
        BY <1>4, <3>1
    <2>4. QED
      BY <1>6, <2>1, <2>2, <2>3
  <1>10. /\ one \o before \o closing \in Seq(Lines)
         /\ Len(one \o before \o closing) = k
         /\ \A i \in 1..k :
              (one \o before \o closing)[i] = IF i = 1 THEN ResourceLine
                                              ELSE IF i = k THEN Closing(r[k])
                                              ELSE r[i]
    <2>1. /\ (one \o before) \o closing \in Seq(Lines)
          /\ Len((one \o before) \o closing) = (k - 1) + 1
          /\ \A i \in 1..((k - 1) + 1) :
               i <= k - 1 => (one \o before \o closing)[i] = (one \o before)[i]
          /\ \A i \in 1..((k - 1) + 1) :
               i > k - 1 => (one \o before \o closing)[i] = closing[i - (k - 1)]
      <3>1. /\ (one \o before) \o closing \in Seq(Lines)
            /\ Len((one \o before) \o closing) = Len(one \o before) + Len(closing)
            /\ \A i \in 1..(Len(one \o before) + Len(closing)) :
                 i <= Len(one \o before) =>
                   (one \o before \o closing)[i] = (one \o before)[i]
            /\ \A i \in 1..(Len(one \o before) + Len(closing)) :
                 i > Len(one \o before) =>
                   (one \o before \o closing)[i] = closing[i - Len(one \o before)]
        BY <1>7, <1>9, ConcatLines
      <3>2. Len(one \o before) = k - 1 /\ Len(closing) = 1
        BY <1>7, <1>9
      <3>3. QED
        BY <3>1, <3>2
    <2>2. (k - 1) + 1 = k /\ k - (k - 1) = 1
      BY <1>1
    <2>3. ASSUME NEW i \in 1..k, i # k
          PROVE  (one \o before \o closing)[i] = IF i = 1 THEN ResourceLine ELSE r[i]
      <3>1. i \in 1..(k - 1) /\ i <= k - 1
        BY <1>1, <2>3
      <3>2. QED
        BY <1>9, <2>1, <2>2, <3>1
    <2>4. (one \o before \o closing)[k] = Closing(r[k])
      <3>1. k \in 1..k /\ k > k - 1
        BY <1>1
      <3>2. QED
        BY <1>7, <2>1, <2>2, <3>1
    <2>5. QED
      BY <1>1, <2>1, <2>2, <2>3, <2>4
  <1>11. /\ Rewrite(r) \in Seq(Lines)
         /\ Len(Rewrite(r)) = Len(r)
         /\ \A i \in 1..Len(r) :
              i <= k => Rewrite(r)[i] = (one \o before \o closing)[i]
         /\ \A i \in 1..Len(r) : i > k => Rewrite(r)[i] = after[i - k]
    <2>1. k + (Len(r) - k) = Len(r)
      BY <1>1
    <2> DEFINE front == one \o before \o closing
    <2>2. front \in Seq(Lines) /\ Len(front) = k /\ Len(after) = Len(r) - k
      BY <1>5, <1>10
    <2>3. /\ front \o after \in Seq(Lines)
          /\ Len(front \o after) = Len(front) + Len(after)
          /\ \A i \in 1..(Len(front) + Len(after)) :
               i <= Len(front) => (front \o after)[i] = front[i]
          /\ \A i \in 1..(Len(front) + Len(after)) :
               i > Len(front) => (front \o after)[i] = after[i - Len(front)]
      BY <1>5, <2>2, ConcatLines
    <2>4. Rewrite(r) = front \o after
      BY <1>8
    <2> HIDE DEF front
    <2>5. /\ front \o after \in Seq(Lines)
          /\ Len(front \o after) = Len(r)
          /\ \A i \in 1..Len(r) : i <= k => (front \o after)[i] = front[i]
          /\ \A i \in 1..Len(r) : i > k => (front \o after)[i] = after[i - k]
      BY <2>1, <2>2, <2>3
    <2>6. QED
      BY <2>4, <2>5 DEF front
  <1>12. ASSUME NEW i \in 1..Len(r), i > k
         PROVE  after[i - k] = r[i]
    <2>1. i - k \in 1..(Len(r) - k) /\ k + (i - k) = i
      BY <1>1, <1>12
    <2>2. QED
      BY <1>5, <2>1
  <1>13. ASSUME NEW i \in 1..Len(r)
         PROVE  Rewrite(r)[i] = IF i = 1 THEN ResourceLine
                                ELSE IF i = k THEN Closing(r[k]) ELSE r[i]
    <2>1. CASE i > k
      <3>1. i # 1 /\ i # k
        BY <1>1, <2>1
      <3>2. QED
        BY <1>11, <1>12, <2>1, <3>1
    <2>2. CASE ~(i > k)
      <3>1. i \in 1..k /\ i <= k
        BY <1>1, <2>2
      <3>2. QED
        BY <1>10, <1>11, <3>1
    <2>3. QED
      BY <2>1, <2>2
  <1>14. QED
    BY <1>11, <1>13

(* The request of a browser is rewritten as the comments at 140 and 143    *)
(* say, and then asks the web server to close the connection.              *)
THEOREM RewriteOfBrowser ==
  ASSUME NEW r \in Seq(Lines), r # <<>>, FromBrowser(r)
  PROVE  /\ Rewrite(r) = Rewritten(r)
         /\ AsksToClose(Rewrite(r))
  <1>1. PICK k \in 2..Len(r) :
               /\ r[k] = KeepAliveLine
               /\ \A i \in 1..Len(r) : Matches(r[i]) <=> i = k
    BY OneMatch
  <1>2. /\ Rewrite(r) \in Seq(Lines)
        /\ Len(Rewrite(r)) = Len(r)
        /\ \A i \in 1..Len(r) :
             Rewrite(r)[i] = IF i = 1 THEN ResourceLine
                             ELSE IF i = k THEN Closing(r[k]) ELSE r[i]
    BY <1>1, RewriteAtMatch
  <1>3. DOMAIN Rewrite(r) = 1..Len(r) /\ DOMAIN r = 1..Len(r)
    BY <1>2, LenProperties
  <1>4. \A i \in 1..Len(r) : i = k <=> r[i] = KeepAliveLine
    BY <1>1 DEF Matches, KeepAliveLine
  <1>5. Rewrite(r) = Rewritten(r)
    <2>1. Rewrite(r) = [i \in 1..Len(r) |-> Rewrite(r)[i]]
      BY <1>2, <1>3, LenProperties
    <2>2. \A i \in 1..Len(r) :
            Rewrite(r)[i] = IF i = 1 THEN ResourceLine
                            ELSE IF r[i] = KeepAliveLine THEN Closing(KeepAliveLine)
                            ELSE r[i]
      BY <1>1, <1>2, <1>4
    <2>3. QED
      BY <1>3, <2>1, <2>2 DEF Rewritten
  <1>6. Rewrite(r)[k] = [name |-> "Connection", value |-> "close"]
    <2>1. Rewrite(r)[k] = Closing(KeepAliveLine)
      BY <1>1, <1>2, LenProperties
    <2>2. QED
      BY <2>1 DEF Closing, KeepAliveLine
  <1>7. k \in DOMAIN Rewrite(r)
    BY <1>3, LenProperties
  <1>8. QED
    BY <1>5, <1>6, <1>7 DEF AsksToClose

-----------------------------------------------------------------------------
(* The inductive invariant *)

Statements ==
  {"accept", "read", "lookup", "send", "response", "rest", "log", "close", "exited"}

TypeOK ==
  /\ pending \in SUBSET Clients
  /\ request \in [Clients -> Requests]
  /\ at \in Statements
  /\ client \in Clients \cup {Nobody}
  /\ logfile \in Seq(Clients)
  /\ unlogged \in SUBSET Clients

\* Between accept and close main serves a connection it has accepted.
ServesAccepted == at \notin {"accept", "exited"} => client \in Clients \ pending

\* The request that was sent is still the client's request, rewritten.
SentRewritten ==
  at \in {"response", "rest", "log", "close"} => sent = Rewrite(request[client])

\* Only a connection that was accepted can have lost its entry, and the one
\* being served has not come to its entry yet.
UnloggedPast ==
  /\ unlogged \cap pending = {}
  /\ at \notin {"accept", "close", "exited"} => client \notin unlogged

\* The accepted connections whose entry was not lost
Kept == (Clients \ pending) \ unlogged

\* The log has one entry for each of these connections and no other.
LogHas(served) ==
  /\ IsFiniteSet(served)
  /\ {logfile[i] : i \in DOMAIN logfile} = served
  /\ Len(logfile) = Cardinality(served)

\* The connection being served is the only one of these without an entry.
LogFollows ==
  /\ at \in {"accept", "close"} => LogHas(Kept)
  /\ at \notin {"accept", "close", "exited"} => LogHas(Kept \ {client})

IInv == TypeOK /\ ServesAccepted /\ SentRewritten /\ UnloggedPast /\ LogFollows

(* The lines of each request are what the assumption on Requests says.     *)
LEMMA RequestType ==
  ASSUME TypeOK, NEW c \in Clients
  PROVE  request[c] \in Seq(Lines) /\ request[c] # <<>>
  <1>1. request[c] \in Requests
    BY DEF TypeOK
  <1>2. request[c] \in Seq(Lines) /\ Len(request[c]) > 0
    BY <1>1, RequestsAssumption
  <1>3. QED
    BY <1>2, EmptySeq

(* fprintf of an entry that the log does not have adds just this one.      *)
LEMMA LogAppended ==
  ASSUME NEW f \in Seq(Clients), NEW served, IsFiniteSet(served),
         {f[i] : i \in DOMAIN f} = served, Len(f) = Cardinality(served),
         NEW c \in Clients, c \notin served
  PROVE  /\ IsFiniteSet(served \cup {c})
         /\ {Append(f, c)[i] : i \in DOMAIN Append(f, c)} = served \cup {c}
         /\ Len(Append(f, c)) = Cardinality(served \cup {c})
  <1>1. /\ Append(f, c) \in Seq(Clients)
        /\ Len(Append(f, c)) = Len(f) + 1
        /\ \A i \in 1..Len(f) : Append(f, c)[i] = f[i]
        /\ Append(f, c)[Len(f) + 1] = c
    BY AppendProperties
  <1>2. DOMAIN f = 1..Len(f) /\ DOMAIN Append(f, c) = 1..(Len(f) + 1) /\ Len(f) \in Nat
    BY <1>1, LenProperties
  <1>3. {Append(f, c)[i] : i \in DOMAIN Append(f, c)} = served \cup {c}
    <2>1. ASSUME NEW i \in 1..(Len(f) + 1)
          PROVE  Append(f, c)[i] \in served \cup {c}
      <3>1. CASE i = Len(f) + 1
        BY <1>1, <3>1
      <3>2. CASE i # Len(f) + 1
        <4>1. i \in 1..Len(f)
          BY <1>2, <3>2
        <4>2. QED
          BY <1>1, <1>2, <4>1
      <3>3. QED
        BY <3>1, <3>2
    <2>2. ASSUME NEW d \in served
          PROVE  \E i \in 1..(Len(f) + 1) : Append(f, c)[i] = d
      <3>1. PICK i \in 1..Len(f) : f[i] = d
        BY <1>2
      <3>2. i \in 1..(Len(f) + 1) /\ Append(f, c)[i] = d
        BY <1>1, <1>2, <3>1
      <3>3. QED
        BY <3>2
    <2>3. \E i \in 1..(Len(f) + 1) : Append(f, c)[i] = c
      BY <1>1, <1>2
    <2>4. QED
      BY <1>2, <2>1, <2>2, <2>3
  <1>4. QED
    BY <1>1, <1>3, FS_AddElement

(* Initially nothing is accepted and the log is empty.                     *)
LEMMA InitInv == Init => IInv
  <1> SUFFICES ASSUME Init PROVE IInv
    OBVIOUS
  <1>1. TypeOK
    BY EmptySeq DEF Init, TypeOK, Statements
  <1>2. ServesAccepted /\ SentRewritten /\ UnloggedPast
    BY DEF Init, ServesAccepted, SentRewritten, UnloggedPast
  <1>3. LogFollows
    <2>1. Kept = {} /\ logfile = <<>>
      BY DEF Init, Kept
    <2>2. {logfile[i] : i \in DOMAIN logfile} = {}
      BY <2>1
    <2>3. IsFiniteSet({}) /\ Cardinality({}) = 0
      BY FS_EmptySet
    <2>4. LogHas(Kept)
      BY <2>1, <2>2, <2>3, EmptySeq DEF LogHas
    <2>5. QED
      BY <2>4 DEF LogFollows, Init
  <1>4. QED
    BY <1>1, <1>2, <1>3 DEF IInv

(* A statement that neither accepts nor logs nor sends keeps the invariant *)
(* when it goes to one that asks nothing new of the log and the request.   *)
LEMMA KeepsLog ==
  ASSUME IInv, UNCHANGED <<pending, request, client, sent, logfile, unlogged>>,
         at \notin {"accept", "log", "close", "exited"},
         at' \in {"lookup", "send", "rest", "log"},
         at' \in {"rest", "log"} => at \in {"response", "rest"}
  PROVE  IInv'
  <1>1. TypeOK'
    BY DEF IInv, TypeOK, Statements
  <1>2. ServesAccepted' /\ UnloggedPast'
    BY DEF IInv, ServesAccepted, UnloggedPast
  <1>3. SentRewritten'
    BY DEF IInv, SentRewritten
  <1>4. LogFollows'
    <2>1. LogHas(Kept \ {client})
      BY DEF IInv, LogFollows
    <2>2. LogHas(Kept \ {client})'
      BY <2>1 DEF LogHas, Kept
    <2>3. QED
      BY <2>2 DEF LogFollows
  <1>5. QED
    BY <1>1, <1>2, <1>3, <1>4 DEF IInv

(* accept: the new connection is the one accepted and not logged.          *)
LEMMA AcceptInv ==
  ASSUME IInv, NEW c \in Clients, Accept(c)
  PROVE  IInv'
  <1>1. /\ at = "accept" /\ at' = "read" /\ c \in pending /\ pending' = pending \ {c}
        /\ client' = c /\ UNCHANGED <<request, sent, logfile, unlogged>>
    BY DEF Accept, Goto, log
  <1>2. TypeOK'
    BY <1>1 DEF IInv, TypeOK, Statements
  <1>3. ServesAccepted' /\ SentRewritten' /\ UnloggedPast'
    BY <1>1 DEF IInv, ServesAccepted, SentRewritten, UnloggedPast
  <1>4. LogFollows'
    <2>1. LogHas(Kept)
      BY <1>1 DEF IInv, LogFollows
    <2>2. (Kept \ {client})' = Kept
      BY <1>1 DEF IInv, UnloggedPast, Kept
    <2>3. LogHas(Kept \ {client})'
      BY <1>1, <2>1, <2>2 DEF LogHas
    <2>4. QED
      BY <1>1, <2>3 DEF LogFollows
  <1>5. QED
    BY <1>2, <1>3, <1>4 DEF IInv

(* write to server_fd: what is sent is the client's request, rewritten.    *)
LEMMA SendInv ==
  ASSUME IInv, SendRequest
  PROVE  IInv'
  <1>1. /\ at = "send" /\ at' = "response" /\ sent' = Rewrite(request[client])
        /\ UNCHANGED <<pending, request, client, logfile, unlogged>>
    BY DEF SendRequest, Goto, log
  <1>2. TypeOK'
    BY <1>1 DEF IInv, TypeOK, Statements
  <1>3. ServesAccepted' /\ SentRewritten' /\ UnloggedPast'
    BY <1>1 DEF IInv, ServesAccepted, SentRewritten, UnloggedPast
  <1>4. LogFollows'
    <2>1. LogHas(Kept \ {client})
      BY <1>1 DEF IInv, LogFollows
    <2>2. LogHas(Kept \ {client})'
      BY <1>1, <2>1 DEF LogHas, Kept
    <2>3. QED
      BY <1>1, <2>2 DEF LogFollows
  <1>5. QED
    BY <1>2, <1>3, <1>4 DEF IInv

(* fprintf: the entry of the connection being served joins the others.     *)
LEMMA LogInv ==
  ASSUME IInv, WriteLog
  PROVE  IInv'
  <1>1. /\ at = "log" /\ at' = "close" /\ logfile' = Append(logfile, client)
        /\ UNCHANGED <<pending, request, client, sent, unlogged>>
    BY DEF WriteLog, Goto
  <1>2. client \in Clients \ pending
    BY <1>1 DEF IInv, ServesAccepted
  <1>3. logfile \in Seq(Clients)
    BY DEF IInv, TypeOK
  <1>4. TypeOK'
    <2>1. logfile' \in Seq(Clients)
      BY <1>1, <1>2, <1>3, AppendProperties
    <2>2. QED
      BY <1>1, <2>1 DEF IInv, TypeOK, Statements
  <1>5. ServesAccepted' /\ SentRewritten' /\ UnloggedPast'
    BY <1>1 DEF IInv, ServesAccepted, SentRewritten, UnloggedPast
  <1>6. LogFollows'
    <2> DEFINE served == Kept \ {client}
    <2>1. LogHas(served)
      BY <1>1 DEF IInv, LogFollows
    <2>2. /\ IsFiniteSet(served)
          /\ {logfile[i] : i \in DOMAIN logfile} = served
          /\ Len(logfile) = Cardinality(served)
      BY <2>1 DEF LogHas
    <2>3. client \notin served /\ served \cup {client} = Kept
      BY <1>1, <1>2 DEF IInv, UnloggedPast, Kept
    <2> HIDE DEF served
    <2>4. /\ IsFiniteSet(served \cup {client})
          /\ {Append(logfile, client)[i] : i \in DOMAIN Append(logfile, client)}
               = served \cup {client}
          /\ Len(Append(logfile, client)) = Cardinality(served \cup {client})
      BY <1>2, <1>3, <2>2, <2>3, LogAppended
    <2>5. LogHas(Kept)'
      BY <1>1, <2>3, <2>4 DEF LogHas, Kept
    <2>6. QED
      BY <1>1, <2>5 DEF LogFollows
  <1>7. QED
    BY <1>4, <1>5, <1>6 DEF IInv

(* 207-208: a failed write loses the entry of the connection being served, *)
(* and of no other.                                                        *)
LEMMA LogLostInv ==
  ASSUME IInv, WriteLogFails
  PROVE  IInv'
  <1>1. /\ at = "log" /\ at' = "close" /\ unlogged' = unlogged \cup {client}
        /\ UNCHANGED <<pending, request, client, sent, logfile>>
    BY DEF WriteLogFails, Goto
  <1>2. client \in Clients \ pending
    BY <1>1 DEF IInv, ServesAccepted
  <1>3. TypeOK'
    BY <1>1, <1>2 DEF IInv, TypeOK, Statements
  <1>4. ServesAccepted' /\ SentRewritten' /\ UnloggedPast'
    BY <1>1, <1>2 DEF IInv, ServesAccepted, SentRewritten, UnloggedPast
  <1>5. LogFollows'
    <2>1. LogHas(Kept \ {client})
      BY <1>1 DEF IInv, LogFollows
    <2>2. Kept' = Kept \ {client}
      BY <1>1 DEF Kept
    <2>3. LogHas(Kept)'
      BY <1>1, <2>1, <2>2 DEF LogHas
    <2>4. QED
      BY <1>1, <2>3 DEF LogFollows
  <1>6. QED
    BY <1>3, <1>4, <1>5 DEF IInv

(* close(client_fd): main is back at accept and all entries are written.   *)
LEMMA CloseInv ==
  ASSUME IInv, CloseClient
  PROVE  IInv'
  <1>1. /\ at = "close" /\ at' = "accept"
        /\ UNCHANGED <<pending, request, client, sent, logfile, unlogged>>
    BY DEF CloseClient, Goto, log
  <1>2. TypeOK'
    BY <1>1 DEF IInv, TypeOK, Statements
  <1>3. ServesAccepted' /\ SentRewritten' /\ UnloggedPast'
    BY <1>1 DEF IInv, ServesAccepted, SentRewritten, UnloggedPast
  <1>4. LogFollows'
    <2>1. LogHas(Kept)
      BY <1>1 DEF IInv, LogFollows
    <2>2. LogHas(Kept)'
      BY <1>1, <2>1 DEF LogHas, Kept
    <2>3. QED
      BY <1>1, <2>2 DEF LogFollows
  <1>5. QED
    BY <1>2, <1>3, <1>4 DEF IInv

(* exit: nothing more is sent or logged.                                   *)
LEMMA ExitInv ==
  ASSUME IInv, Exit
  PROVE  IInv'
  <1>1. at' = "exited" /\ UNCHANGED <<pending, request, client, logfile, unlogged>>
    BY DEF Exit, log
  <1>2. QED
    BY <1>1 DEF IInv, TypeOK, Statements, ServesAccepted, SentRewritten, UnloggedPast,
      LogFollows

(* A step that changes none of the variables keeps the invariant.          *)
LEMMA StutterInv ==
  ASSUME IInv, UNCHANGED vars
  PROVE  IInv'
  <1>1. UNCHANGED <<pending, request, at, client, sent, logfile, unlogged>>
    BY DEF vars, log
  <1>2. TypeOK'
    BY <1>1 DEF IInv, TypeOK
  <1>3. ServesAccepted' /\ SentRewritten' /\ UnloggedPast'
    BY <1>1 DEF IInv, ServesAccepted, SentRewritten, UnloggedPast
  <1>4. LogFollows'
    BY <1>1 DEF IInv, LogFollows, LogHas, Kept
  <1>5. QED
    BY <1>2, <1>3, <1>4 DEF IInv

(* What main knows of the connection it serves, of what it sent to the web *)
(* server and of its log, at every statement.                              *)
THEOREM Invariance == Spec => []IInv
  <1>1. ASSUME IInv, [Next]_vars
        PROVE  IInv'
    <2>1. CASE ReadRequest
      BY <1>1, <2>1, KeepsLog DEF ReadRequest, Goto, log
    <2>2. CASE Connect
      BY <1>1, <2>2, KeepsLog DEF Connect, Goto, log
    <2>3. CASE SendRequest
      BY <1>1, <2>3, SendInv
    <2>4. CASE ShortResponse
      BY <1>1, <2>4, KeepsLog DEF ShortResponse, Goto, log
    <2>5. CASE LongResponse
      BY <1>1, <2>5, KeepsLog DEF LongResponse, Goto, log
    <2>6. CASE ServerCloses
      BY <1>1, <2>6, KeepsLog DEF ServerCloses, Goto, log
    <2>7. CASE ServerGivesUp
      BY <1>1, <2>7, KeepsLog DEF ServerGivesUp, Goto, log
    <2>8. CASE WriteLog
      BY <1>1, <2>8, LogInv
    <2>9. CASE CloseClient
      BY <1>1, <2>9, CloseInv
    <2>10. CASE Exit
      BY <1>1, <2>10, ExitInv
    <2>11. CASE \E c \in Clients : Accept(c)
      BY <1>1, <2>11, AcceptInv
    <2>12. CASE UNCHANGED vars
      BY <1>1, <2>12, StutterInv
    <2>13. CASE WriteLogFails
      BY <1>1, <2>13, LogLostInv
    <2>14. QED
      BY <1>1, <2>1, <2>2, <2>3, <2>4, <2>5, <2>6, <2>7, <2>8, <2>9, <2>10, <2>11,
         <2>12, <2>13 DEF Next, Serve
  <1>2. QED
    BY <1>1, InitInv, PTL DEF Spec

(* 140-156: whatever requests the clients send, what the web server gets   *)
(* of a browser's request is that request with its first line and its      *)
(* "Connection: keep-alive" changed and all others in place.               *)
THEOREM SendsRewritten == Spec => []RewritesKeepAlive
  <1>1. IInv => RewritesKeepAlive
    <2>1. SUFFICES ASSUME IInv, at \in {"response", "rest", "log", "close"},
                          FromBrowser(request[client])
                   PROVE  sent = Rewritten(request[client])
      BY DEF RewritesKeepAlive
    <2>2. client \in Clients
      BY <2>1 DEF IInv, ServesAccepted
    <2>3. request[client] \in Seq(Lines) /\ request[client] # <<>>
      BY <2>1, <2>2, RequestType DEF IInv
    <2>4. sent = Rewrite(request[client])
      BY <2>1 DEF IInv, SentRewritten
    <2>5. QED
      BY <2>1, <2>3, <2>4, RewriteOfBrowser
  <1>2. QED
    BY <1>1, Invariance, PTL

\* While main waits for the web server to close the connection, the request
\* it sent has asked the server to do so.
WaitsAsAsked ==
  at \in {"response", "rest"} /\ FromBrowser(request[client]) => AsksToClose(sent)

(* 177-181: the loop over a long response ends when the web server closes, *)
(* and for a browser's request main has asked it to.                       *)
THEOREM ServerWillClose == Spec => []WaitsAsAsked
  <1>1. IInv => WaitsAsAsked
    <2>1. SUFFICES ASSUME IInv, at \in {"response", "rest"},
                          FromBrowser(request[client])
                   PROVE  AsksToClose(sent)
      BY DEF WaitsAsAsked
    <2>2. client \in Clients
      BY <2>1 DEF IInv, ServesAccepted
    <2>3. request[client] \in Seq(Lines) /\ request[client] # <<>>
      BY <2>1, <2>2, RequestType DEF IInv
    <2>4. sent = Rewrite(request[client])
      BY <2>1 DEF IInv, SentRewritten
    <2>5. QED
      BY <2>1, <2>3, <2>4, RewriteOfBrowser
  <1>2. QED
    BY <1>1, Invariance, PTL

(* README, "finally logs this entry": for any number of connections, main  *)
(* returns to accept only with each of them logged once, the ones whose    *)
(* write to the log failed (207-208) excepted, and no other is missing.    *)
THEOREM LoggedOnceEach == Spec => []LogsEveryConnection
  <1>1. IInv => LogsEveryConnection
    BY DEF IInv, LogFollows, LogHas, Kept, LogsEveryConnection
  <1>2. QED
    BY <1>1, Invariance, PTL

=============================================================================
