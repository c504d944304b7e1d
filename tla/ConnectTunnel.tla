---------------------------- MODULE ConnectTunnel ----------------------------
(***************************************************************************)
(* The HTTPS tunnel of a CONNECT request (proxy.c 215-283 in a thread,     *)
(* 590-667 in a child): greet the client, then poll both connections for   *)
(* up to five seconds at a time, and pass on whatever can be read, until   *)
(* poll finds nothing (then the tunnel is logged and closed) or reports an *)
(* error (then it is closed without an entry).                             *)
(*                                                                         *)
(* Side 0 is the client and side 1 the server, as in fds and total.  Bytes *)
(* are counted.  The code tests revents for POLL_HUP, a si_code of siginfo *)
(* with the value 6 = POLLPRI + POLLOUT, neither of which is asked for:    *)
(* that test never succeeds, and a POLLHUP is not noticed.                 *)
(***************************************************************************)
EXTENDS Integers

CONSTANTS
  BufSize,   \* sizeof(buffer), 1024 in the code
  Room,      \* bytes a connection holds in each direction before it is read
  MaxSend,   \* bound on the bytes that each peer sends
  IntHalf    \* 2^31, the first value that an int cannot hold

ASSUME BufSizeAssumption == BufSize \in Nat \ {0}
ASSUME RoomAssumption == Room \in Nat /\ Room >= BufSize
ASSUME MaxSendAssumption == MaxSend \in Nat
ASSUME IntHalfAssumption == IntHalf \in Nat \ {0}

Sides == {0, 1}
Other(i) == 1 - i

VARIABLES
  conn,     \* what each peer did: "open", "closed" (FIN) or "reset" (RST)
  err,      \* a reset of the connection that no call has reported yet
  sent,     \* bytes of each peer that have reached the proxy
  total,    \* bytes read from each peer, as the code counts them
  written,  \* bytes of each peer that were written to the other connection
  got,      \* bytes of each peer that the other peer has read
  revents,  \* what the last poll reported
  side,     \* the loop variable i
  chunk,    \* sent_bytes: bytes read from side, to be written to the other
  pc        \* the statement the tunnel is at

network == <<conn, err, sent, got>>
vars == <<network, total, written, revents, side, chunk, pc>>

Ended == {"done", "aborted", "killed"}

Init ==
  /\ conn = [i \in Sides |-> "open"]
  /\ err = [i \in Sides |-> FALSE]
  /\ sent = [i \in Sides |-> 0]
  /\ total = [i \in Sides |-> 0]
  /\ written = [i \in Sides |-> 0]
  /\ got = [i \in Sides |-> 0]
  /\ revents = [i \in Sides |-> {}]
  /\ side = 0
  /\ chunk = 0
  /\ pc = "greet"

-----------------------------------------------------------------------------
(* The peers, while the tunnel lives *)

proxy == <<total, written, revents, side, chunk, pc>>
Available(i) == sent[i] - total[i]

Send(i) ==
  /\ pc \notin Ended /\ conn[i] = "open"
  /\ Available(i) < Room /\ sent[i] < MaxSend
  /\ sent' = [sent EXCEPT ![i] = @ + 1]
  /\ UNCHANGED <<conn, err, got, proxy>>

Receive(i) ==
  /\ pc \notin Ended /\ conn[i] = "open"
  /\ got[Other(i)] < written[Other(i)]
  /\ got' = [got EXCEPT ![Other(i)] = written[Other(i)]]
  /\ UNCHANGED <<conn, err, sent, proxy>>

Close(i) ==
  /\ pc \notin Ended /\ conn[i] = "open"
  /\ conn' = [conn EXCEPT ![i] = "closed"]
  /\ UNCHANGED <<err, sent, got, proxy>>

\* A reset discards what the proxy has not read.
Reset(i) ==
  /\ pc \notin Ended /\ conn[i] # "reset"
  /\ conn' = [conn EXCEPT ![i] = "reset"]
  /\ err' = [err EXCEPT ![i] = TRUE]
  /\ sent' = [sent EXCEPT ![i] = total[i]]
  /\ UNCHANGED <<got, proxy>>

Peers == \E i \in Sides : Send(i) \/ Receive(i) \/ Close(i) \/ Reset(i)

-----------------------------------------------------------------------------
(* The proxy *)

\* What poll reports for a connection; the end of a stream is readable.
Events(i) ==
  {e \in {"POLLIN", "POLLERR", "POLLHUP"} :
     \/ e = "POLLIN" /\ (Available(i) > 0 \/ conn[i] # "open")
     \/ e = "POLLERR" /\ err[i]
     \/ e = "POLLHUP" /\ conn[i] = "reset"}

\* A write to a reset connection reports the error, once, or raises SIGPIPE.
WriteToReset(i, next) ==
  /\ conn[i] = "reset"
  /\ \/ /\ err[i]
        /\ err' = [err EXCEPT ![i] = FALSE]
        /\ next
     \/ /\ pc' = "killed"
        /\ UNCHANGED <<err, side>>

\* "HTTP/1.1 200 Connection Established", whose result is not checked
Greet ==
  /\ pc = "greet"
  /\ \/ conn[0] # "reset" /\ pc' = "poll" /\ UNCHANGED <<err, side>>
     \/ WriteToReset(0, pc' = "poll" /\ UNCHANGED side)
  /\ UNCHANGED <<conn, sent, got, total, written, revents, chunk>>

\* Mutated form: events are asked for the client only.
PollClientOnly ==
  /\ pc = "poll"
  /\ Events(0) # {}
  /\ revents' = [i \in Sides |-> IF i = 0 THEN Events(i) ELSE {}]
  /\ side' = 0
  /\ pc' = "scan"
  /\ UNCHANGED <<network, total, written, chunk>>

Poll ==
  /\ pc = "poll"
  /\ \E i \in Sides : Events(i) # {}
  /\ revents' = [i \in Sides |-> Events(i)]
  /\ side' = 0
  /\ pc' = "scan"
  /\ UNCHANGED <<network, total, written, chunk>>

\* Mutated form: the time counts from the last byte of the client alone.
TimeoutClientIdle ==
  /\ pc = "poll"
  /\ Events(0) = {}
  /\ pc' = "logging"
  /\ UNCHANGED <<network, total, written, revents, side, chunk>>

\* poll returned 0: nothing to report for five seconds.
Timeout ==
  /\ pc = "poll"
  /\ \A i \in Sides : Events(i) = {}
  /\ pc' = "logging"
  /\ UNCHANGED <<network, total, written, revents, side, chunk>>

\* poll returned -1.
PollFails ==
  /\ pc = "poll"
  /\ pc' = "aborted"
  /\ UNCHANGED <<network, total, written, revents, side, chunk>>

NextSide ==
  /\ side' = 1
  /\ pc' = IF side = 0 THEN "scan" ELSE "poll"

\* revents & POLLERR: both connections are closed and nothing is logged.
Abort ==
  /\ pc = "scan" /\ "POLLERR" \in revents[side]
  /\ pc' = "aborted"
  /\ UNCHANGED <<network, total, written, revents, side, chunk>>

Least(m, n) == IF m < n THEN m ELSE n

\* revents & POLLIN, and there is something to read.
Read ==
  /\ pc = "scan" /\ "POLLERR" \notin revents[side]
  /\ "POLLIN" \in revents[side] /\ Available(side) > 0
  /\ chunk' = Least(Available(side), BufSize)
  /\ total' = [total EXCEPT ![side] = @ + chunk']
  /\ pc' = "write"
  /\ UNCHANGED <<network, written, revents, side>>

\* The read returns 0 at the end of the stream, or -1, which reports the
\* reset; neither is looked at.
ReadNothing ==
  /\ pc = "scan" /\ "POLLERR" \notin revents[side]
  /\ "POLLIN" \in revents[side] /\ Available(side) = 0
  /\ err' = [err EXCEPT ![side] = FALSE]
  /\ NextSide
  /\ UNCHANGED <<conn, sent, got, total, written, revents, chunk>>

NothingReported ==
  /\ pc = "scan" /\ revents[side] \cap {"POLLIN", "POLLERR"} = {}
  /\ NextSide
  /\ UNCHANGED <<network, total, written, revents, chunk>>

\* Mutated form: a write that would block is given up, like with MSG_DONTWAIT.
WriteOrDrop ==
  /\ pc = "write" /\ conn[Other(side)] # "reset"
  /\ written' = IF written[side] + chunk - got[side] <= Room
                THEN [written EXCEPT ![side] = @ + chunk] ELSE written
  /\ chunk' = 0
  /\ NextSide
  /\ UNCHANGED <<network, total, revents>>

\* The write to the other connection blocks until there is room.
Write ==
  /\ pc = "write" /\ conn[Other(side)] # "reset"
  /\ written[side] + chunk - got[side] <= Room
  /\ written' = [written EXCEPT ![side] = @ + chunk]
  /\ chunk' = 0
  /\ NextSide
  /\ UNCHANGED <<network, total, revents>>

WriteFails ==
  /\ pc = "write"
  /\ WriteToReset(Other(side), NextSide)
  /\ chunk' = 0
  /\ UNCHANGED <<conn, sent, got, total, written, revents>>

\* The tunnel is logged and both connections are closed.
Log ==
  /\ pc = "logging"
  /\ pc' = "done"
  /\ UNCHANGED <<network, total, written, revents, side, chunk>>

Step ==
  \/ Greet \/ Poll \/ Abort \/ Read \/ ReadNothing \/ NothingReported
  \/ Write \/ WriteFails \/ Log

Next == Step \/ Timeout \/ PollFails \/ Peers

Spec == Init /\ [][Next]_vars

\* The proxy runs, time passes for poll, and open peers read what comes; that
\* poll fails is possible but nothing to rely on.
FairSpec ==
  /\ Spec
  /\ WF_vars(Step) /\ WF_vars(Timeout)
  /\ \A i \in Sides : WF_vars(Receive(i))

-----------------------------------------------------------------------------
(* Type correctness of the tunnel's counters and of both connections.      *)
TypeOK ==
  /\ conn \in [Sides -> {"open", "closed", "reset"}]
  /\ err \in [Sides -> BOOLEAN]
  /\ sent \in [Sides -> 0..MaxSend]
  /\ total \in [Sides -> Nat]
  /\ written \in [Sides -> Nat]
  /\ got \in [Sides -> Nat]
  /\ revents \in [Sides -> SUBSET {"POLLIN", "POLLERR", "POLLHUP"}]
  /\ side \in Sides
  /\ chunk \in 0..BufSize
  /\ pc \in Ended \cup {"greet", "poll", "scan", "write", "logging"}

\* The long total is passed to format_connect_entry (275, 654) as an int.
LoggedTotal(i) == ((total[i] + IntHalf) % (2 * IntHalf)) - IntHalf

InHand(i) == IF pc = "write" /\ side = i THEN chunk ELSE 0

(* What was read from one peer was written to the other, all of it and     *)
(* nothing else, unless that peer reset its connection; then the entry     *)
(* (275, 654) reports the bytes passed on, as long as an int holds them.   *)
PassesOnWhatItReads ==
  \A i \in Sides :
    /\ written[i] + InHand(i) <= total[i] /\ total[i] <= sent[i]
    /\ conn[Other(i)] # "reset" =>
         /\ written[i] + InHand(i) = total[i]
         /\ pc = "done" /\ total[i] < IntHalf => LoggedTotal(i) = written[i]

(* poll times out (236-238) only on a tunnel with nothing left to read, so *)
(* an entry is only ever written while neither peer has hung up.           *)
TimesOutOnlyWhenIdle ==
  [][pc = "poll" /\ pc' = "logging" =>
       \A i \in Sides : conn[i] = "open" /\ written[i] = sent[i]]_vars

(* Bytes that reach a tunnel whose peers stay open are delivered to the    *)
(* other peer, even when both peers send all the time and the blocking     *)
(* writes (256, 632) wait for each in turn, unless the tunnel ends; and it *)
(* ends, by the timeout, when they say no more.                            *)
OpenTunnelServed ==
  /\ \A i \in Sides : \A n \in 1..MaxSend :
       sent[i] >= n ~> got[i] >= n \/ pc \in Ended \/ \E j \in Sides : conn[j] # "open"
  /\ <>[](\A i \in Sides : conn[i] = "open") => <>(pc \in Ended)

(* README 16-17: the proxy "supports HTTPS tunneling via the connect       *)
(* method, and logs all entries in the file proxy.log": once both peers    *)
(* have closed for good, the tunnel ends, so that it can be logged.         *)
ClosedTunnelEnds == <>[](\A i \in Sides : conn[i] = "closed") => <>(pc \in Ended)

=============================================================================
