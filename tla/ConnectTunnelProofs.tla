------------------------- MODULE ConnectTunnelProofs -------------------------
(***************************************************************************)
(* For every size of the buffer, of the connections and of an int, and any *)
(* number of bytes: the tunnel passes on exactly what it reads, and times  *)
(* out only when nothing is left to read and neither peer has hung up.     *)
(***************************************************************************)
EXTENDS ConnectTunnel, TLAPS

IInv == TypeOK /\ PassesOnWhatItReads

(* A long below 2^31 survives its conversion to the int of 275 and 654.    *)
LEMMA IntHolds ==
  ASSUME NEW n \in Nat, NEW half \in Nat, n < half
  PROVE  ((n + half) % (2 * half)) - half = n
  OBVIOUS

LEMMA OtherSide == \A i \in Sides : Other(i) \in Sides /\ Other(i) # i
  BY DEF Sides, Other

(* No byte has moved when the tunnel opens.                                *)
LEMMA InitInv == Init => IInv
  <1> SUFFICES ASSUME Init PROVE IInv
    OBVIOUS
  <1>1. TypeOK
    BY MaxSendAssumption, BufSizeAssumption DEF Init, TypeOK, Sides, Ended
  <1>2. PassesOnWhatItReads
    BY DEF Init, PassesOnWhatItReads, InHand, Ended
  <1>3. QED
    BY <1>1, <1>2 DEF IInv

(* The two counts of one direction, without the entry: what an action has  *)
(* to keep; the entry follows from TypeOK.                                 *)
Passed(i) ==
  /\ written[i] + InHand(i) <= total[i] /\ total[i] <= sent[i]
  /\ conn[Other(i)] # "reset" => written[i] + InHand(i) = total[i]

LEMMA PassedSuffices ==
  ASSUME TypeOK', \A i \in Sides : Passed(i)'
  PROVE  PassesOnWhatItReads'
  <1> SUFFICES ASSUME NEW i \in Sides,
                      conn'[Other(i)] # "reset", pc' = "done", total'[i] < IntHalf
               PROVE  LoggedTotal(i)' = written'[i]
    BY DEF PassesOnWhatItReads, Passed
  <1>1. written'[i] \in Nat /\ total'[i] \in Nat
    BY DEF TypeOK
  <1>2. InHand(i)' = 0
    BY DEF InHand
  <1>3. LoggedTotal(i)' = total'[i]
    BY <1>1, IntHolds, IntHalfAssumption DEF LoggedTotal
  <1>4. QED
    BY <1>1, <1>2, <1>3 DEF Passed

LEMMA PassedHolds ==
  ASSUME PassesOnWhatItReads, NEW i \in Sides
  PROVE  Passed(i)
  BY DEF PassesOnWhatItReads, Passed

(* The peers' calls: only what has not been read can be lost.              *)
LEMMA PeersInv ==
  ASSUME IInv, Peers
  PROVE  IInv'
  <1>1. TypeOK /\ \A i \in Sides : Passed(i)
    BY PassedHolds DEF IInv
  <1>2. PICK i \in Sides : Send(i) \/ Receive(i) \/ Close(i) \/ Reset(i)
    BY DEF Peers
  <1>3. CASE Send(i)
    <2>1. TypeOK'
      BY <1>1, <1>3, MaxSendAssumption DEF Send, TypeOK, proxy
    <2>2. \A j \in Sides : Passed(j)'
      BY <1>1, <1>3, MaxSendAssumption DEF Send, TypeOK, proxy, Passed, InHand
    <2>3. QED
      BY <2>1, <2>2, PassedSuffices DEF IInv
  <1>4. CASE Receive(i)
    <2>1. TypeOK'
      BY <1>1, <1>4, OtherSide DEF Receive, TypeOK, proxy
    <2>2. \A j \in Sides : Passed(j)'
      BY <1>1, <1>4 DEF Receive, TypeOK, proxy, Passed, InHand
    <2>3. QED
      BY <2>1, <2>2, PassedSuffices DEF IInv
  <1>5. CASE Close(i)
    <2>1. TypeOK'
      BY <1>1, <1>5 DEF Close, TypeOK, proxy
    <2>2. \A j \in Sides : Passed(j)'
      BY <1>1, <1>5, OtherSide DEF Close, TypeOK, proxy, Passed, InHand
    <2>3. QED
      BY <2>1, <2>2, PassedSuffices DEF IInv
  <1>6. CASE Reset(i)
    <2>0. total[i] \in 0..MaxSend
      BY <1>1, MaxSendAssumption DEF TypeOK, Passed
    <2>1. TypeOK'
      BY <1>1, <1>6, <2>0 DEF Reset, TypeOK, proxy
    <2>2. \A j \in Sides : Passed(j)'
      BY <1>1, <1>6, OtherSide DEF Reset, TypeOK, proxy, Passed, InHand
    <2>3. QED
      BY <2>1, <2>2, PassedSuffices DEF IInv
  <1>7. QED
    BY <1>2, <1>3, <1>4, <1>5, <1>6

(* The steps of the proxy that move no byte.                               *)
LEMMA QuietStepInv ==
  ASSUME IInv,
         \/ Greet \/ Poll \/ Timeout \/ PollFails \/ Abort
         \/ ReadNothing \/ NothingReported \/ Log
  PROVE  IInv'
  <1>1. TypeOK /\ \A i \in Sides : Passed(i)
    BY PassedHolds DEF IInv
  <1>2. /\ UNCHANGED <<conn, sent, got, total, written, chunk>>
        /\ pc # "write" /\ pc' # "write"
    BY DEF Greet, Poll, Timeout, PollFails, Abort, ReadNothing,
           NothingReported, Log, NextSide, WriteToReset, network
  <1>3. /\ side' \in Sides
        /\ pc' \in Ended \cup {"greet", "poll", "scan", "write", "logging"}
    BY <1>1 DEF Greet, Poll, Timeout, PollFails, Abort, ReadNothing,
           NothingReported, Log, NextSide, WriteToReset, Ended, Sides, TypeOK
  <1>4. revents' \in [Sides -> SUBSET {"POLLIN", "POLLERR", "POLLHUP"}]
    <2>1. CASE Poll
      BY <2>1 DEF Poll, Events
    <2>2. CASE ~Poll
      BY <1>1, <2>2 DEF TypeOK, Greet, Timeout, PollFails, Abort, ReadNothing,
                        NothingReported, Log
    <2>3. QED
      BY <2>1, <2>2
  <1>5. err' \in [Sides -> BOOLEAN]
    BY <1>1 DEF Greet, Poll, Timeout, PollFails, Abort, ReadNothing,
           NothingReported, Log, WriteToReset, network, TypeOK
  <1>6. TypeOK'
    BY <1>1, <1>2, <1>3, <1>4, <1>5 DEF TypeOK
  <1>7. \A i \in Sides : Passed(i)'
    BY <1>1, <1>2 DEF Passed, InHand
  <1>8. QED
    BY <1>6, <1>7, PassedSuffices DEF IInv

(* A read puts in hand what the write that follows passes on.              *)
LEMMA MoveInv ==
  ASSUME IInv, Read \/ Write \/ WriteFails
  PROVE  IInv'
  <1>1. TypeOK /\ \A i \in Sides : Passed(i)
    BY PassedHolds DEF IInv
  <1>2. CASE Read
    <2>1. /\ side \in Sides /\ total[side] \in Nat /\ sent[side] \in Nat
          /\ BufSize \in Nat \ {0}
      BY <1>1, BufSizeAssumption DEF TypeOK
    <2>2. /\ chunk' \in 0..BufSize
          /\ total[side] + chunk' <= sent[side]
      BY <1>2, <2>1 DEF Read, Least, Available
    <2>3. TypeOK'
      BY <1>1, <1>2, <2>1, <2>2 DEF Read, TypeOK, network
    <2>4. pc = "scan" /\ pc' = "write" /\ side' = side
          /\ total' = [total EXCEPT ![side] = @ + chunk']
          /\ UNCHANGED <<conn, sent, written>>
      BY <1>2 DEF Read, network
    <2>5. \A i \in Sides : Passed(i)'
      BY <1>1, <2>1, <2>2, <2>4 DEF Passed, InHand, TypeOK
    <2>6. QED
      BY <2>3, <2>5, PassedSuffices DEF IInv
  <1>3. CASE Write
    <2>1. /\ side \in Sides /\ chunk \in Nat /\ BufSize \in Nat
      BY <1>1, BufSizeAssumption DEF TypeOK
    <2>2. TypeOK'
      BY <1>1, <1>3, <2>1 DEF Write, NextSide, TypeOK, network, Sides
    <2>3. pc = "write" /\ pc' # "write" /\ UNCHANGED <<conn, sent, total>>
          /\ written' = [written EXCEPT ![side] = @ + chunk]
      BY <1>3 DEF Write, NextSide, network
    <2>4. \A i \in Sides : Passed(i)'
      BY <1>1, <2>1, <2>3 DEF Passed, InHand, TypeOK
    <2>5. QED
      BY <2>2, <2>4, PassedSuffices DEF IInv
  <1>4. CASE WriteFails
    <2>1. /\ side \in Sides /\ BufSize \in Nat
      BY <1>1, BufSizeAssumption DEF TypeOK
    <2>2. TypeOK'
      <3>1. pc' \in {"scan", "poll", "killed"} /\ side' \in Sides
        BY <1>1, <1>4 DEF WriteFails, WriteToReset, NextSide, TypeOK, Sides
      <3>2. err' \in [Sides -> BOOLEAN]
        BY <1>1, <1>4 DEF WriteFails, WriteToReset, TypeOK
      <3>3. chunk' \in 0..BufSize
        BY <1>4, <2>1 DEF WriteFails
      <3>4. UNCHANGED <<conn, sent, got, total, written, revents>>
        BY <1>4 DEF WriteFails
      <3>5. QED
        BY <1>1, <3>1, <3>2, <3>3, <3>4 DEF TypeOK, Ended
    <2>3. pc = "write" /\ pc' # "write" /\ conn[Other(side)] = "reset"
          /\ UNCHANGED <<conn, sent, total, written>>
      BY <1>4 DEF WriteFails, WriteToReset, NextSide
    <2>4. \A i \in Sides : Passed(i)'
      BY <1>1, <2>1, <2>3 DEF Passed, InHand, TypeOK
    <2>5. QED
      BY <2>2, <2>4, PassedSuffices DEF IInv
  <1>5. QED
    BY <1>2, <1>3, <1>4

(* PassesOnWhatItReads needs no strengthening but the types.               *)
THEOREM Invariance == Spec => []IInv
  <1>1. IInv /\ [Next]_vars => IInv'
    <2> SUFFICES ASSUME IInv, [Next]_vars PROVE IInv'
      OBVIOUS
    <2>1. CASE UNCHANGED vars
      BY <2>1 DEF vars, network, IInv, TypeOK, PassesOnWhatItReads, InHand, LoggedTotal
    <2>2. QED
      BY <2>1, PeersInv, QuietStepInv, MoveInv DEF Next, Step
  <1>2. QED
    BY <1>1, InitInv, PTL DEF Spec

(* The tunnel's buffer (227) never overflows and its counters stay counts. *)
THEOREM TypeCorrect == Spec => []TypeOK
  BY Invariance, PTL DEF IInv

(* The tunnel of 226-262 loses and invents nothing between two peers that  *)
(* do not reset, and its entry says so, for all bounds.                    *)
THEOREM PassesOn == Spec => []PassesOnWhatItReads
  BY Invariance, PTL DEF IInv

(* 236-238: a tunnel that times out has nothing in hand and nothing left   *)
(* to read, and neither peer has hung up; for all bounds.                  *)
THEOREM TimesOutIdle == Spec => TimesOutOnlyWhenIdle
  <1> DEFINE A == pc = "poll" /\ pc' = "logging" =>
                    \A i \in Sides : conn[i] = "open" /\ written[i] = sent[i]
  <1>1. IInv /\ [Next]_vars => [A]_vars
    <2> SUFFICES ASSUME IInv, Next, pc = "poll", pc' = "logging", NEW i \in Sides
                 PROVE  conn[i] = "open" /\ written[i] = sent[i]
      OBVIOUS
    <2>1. Timeout
      BY DEF Next, Step, Timeout, PollFails, Peers, Send, Receive, Close, Reset, proxy,
             Greet, Poll, Abort, Read, ReadNothing, NothingReported, Write, WriteFails, Log
    <2>2. \A j \in Sides : conn[j] = "open" /\ ~(Available(j) > 0)
      <3>1. ASSUME NEW j \in Sides PROVE "POLLIN" \notin Events(j)
        BY <2>1 DEF Timeout
      <3>2. ASSUME NEW j \in Sides PROVE conn[j] = "open" /\ ~(Available(j) > 0)
        BY <3>1 DEF Events
      <3>3. QED
        BY <3>2
    <2>3. Other(i) \in Sides /\ InHand(i) = 0
      BY DEF Other, Sides, InHand
    <2>4. /\ written[i] + InHand(i) = total[i] /\ total[i] <= sent[i]
          /\ total[i] \in Nat /\ sent[i] \in Int /\ written[i] \in Nat
      BY <2>2, <2>3 DEF IInv, TypeOK, PassesOnWhatItReads
    <2>5. QED
      BY <2>2, <2>3, <2>4 DEF Available
  <1>2. QED
    BY <1>1, Invariance, PTL DEF Spec, TimesOutOnlyWhenIdle

=============================================================================
