-------------------------- MODULE ThreadProxyProofs --------------------------
(***************************************************************************)
(* The thread version for any number of connections, descriptors and       *)
(* lengths of entries.  First the log on its own: log_mutex keeps the      *)
(* shared struct tm to one thread at a time, and the O_APPEND flush in     *)
(* fclose implements AppendLog although it is outside the mutex.  Then the *)
(* proxy around it: every step of the proxy is a step of the log or none,  *)
(* and, as long as main has not overwritten its clinfo before a new        *)
(* thread's copy, a thread only ever uses and closes what is its own.      *)
(***************************************************************************)
EXTENDS ThreadProxy, SequenceTheorems, TLAPS

-----------------------------------------------------------------------------
(* The entries *)

(* The entry of format_log_entry (690-717) is a non-empty line of cells.   *)
LEMMA EntryType ==
  ASSUME NEW w \in Workers
  PROVE  /\ Entry(w) \in Seq(Cells)
         /\ Len(Entry(w)) = EntryLen[w]
         /\ EntryLen[w] \in Nat \ {0}
         /\ \A i \in DOMAIN Entry(w) : Entry(w)[i][1] = w
  <1>1. EntryLen[w] \in Nat \ {0}
    BY EntryLenAssumption
  <1>2. \A i \in 1..EntryLen[w] : <<w, i>> \in Cells
    BY <1>1 DEF Cells
  <1>3. QED
    BY <1>1, <1>2 DEF Entry

(* After appending the entry of w the workers logged are the old and w.    *)
LEMMA LoggedAfter ==
  ASSUME NEW f \in Seq(Cells), NEW w \in Workers, NEW v \in Workers
  PROVE  Logged(f \o Entry(w), v) => Logged(f, v) \/ v = w
  <1>1. SUFFICES ASSUME NEW i \in DOMAIN (f \o Entry(w)),
                        (f \o Entry(w))[i][1] = v
                 PROVE  Logged(f, v) \/ v = w
    BY DEF Logged
  <1>2. CASE i \in 1..Len(f)
    <2>1. (f \o Entry(w))[i] = f[i] /\ i \in DOMAIN f
      BY <1>2, EntryType
    <2>2. QED
      BY <1>1, <2>1 DEF Logged
  <1>3. CASE i \notin 1..Len(f)
    <2>1. /\ i - Len(f) \in DOMAIN Entry(w)
          /\ (f \o Entry(w))[i] = Entry(w)[i - Len(f)]
      BY <1>3, EntryType
    <2>2. QED
      BY <1>1, <2>1, EntryType
  <1>4. QED
    BY <1>2, <1>3

(* The old contents of proxy.log are cells of no worker of this run.       *)
LEMMA OldLogType ==
  /\ OldLog \in Seq(Cells)
  /\ \A w \in Workers : ~Logged(OldLog, w)
  <1>1. \A i \in 1..OldLen : <<Past, i>> \in Cells
    BY OldLenAssumption DEF Cells
  <1>2. OldLog \in Seq(Cells)
    BY <1>1, OldLenAssumption DEF OldLog
  <1>3. ASSUME NEW w \in Workers, NEW i \in DOMAIN OldLog
        PROVE  OldLog[i][1] # w
    <2>1. OldLog[i] = <<Past, i>>
      BY DEF OldLog
    <2>2. QED
      BY <2>1, WorkersAssumption
  <1>4. QED
    BY <1>2, <1>3 DEF Logged

-----------------------------------------------------------------------------
(* The log *)

(* Between localtime and strftime (700) the struct tm is the thread's own. *)
OwnTime == \A t \in Workers : lpc[t] = "printing" => tm = t

(* A thread that has not printed its entry (164), or whose stream still    *)
(* holds it, has nothing in the file.                                      *)
NotYetLogged ==
  \A t \in Workers :
    lpc[t] \in {"serving", "opening", "locking", "timing", "printing"}
      \/ buf[t] # <<>> => ~Logged(file, t)

LogInv ==
  /\ Log!TypeOK /\ Log!MutexHeld /\ Log!OwnEntryBuffered
  /\ OwnTime /\ NotYetLogged

(* The log's entries are those of LogEntries, whoever writes them.         *)
LEMMA SameEntries ==
  /\ Log!Cells = Cells /\ Log!OldLog = OldLog /\ Log!Nobody = Past
  /\ \A t \in Workers : Log!Entry(t) = Entry(t)
  /\ \A f, t : Log!Logged(f, t) <=> Logged(f, t)
  BY DEF Log!Cells, Cells, Log!OldLog, OldLog, Log!Nobody, Log!Entry, Entry,
         Log!Logged, Logged

(* With the thread's own time, the line printed (163-164) is its entry.    *)
LEMMA FormattedOwn ==
  ASSUME NEW t \in Workers, tm = t
  PROVE  Log!Formatted(t) = Entry(t) /\ <<>> \o Log!Formatted(t) = Entry(t)
  <1>1. Entry(t) \in Seq(Cells)
    BY EntryType
  <1>2. Log!Formatted(t) = [i \in 1..EntryLen[t] |-> <<t, i>>]
    BY DEF Log!Formatted, Log!Entry
  <1>3. QED
    BY <1>1, <1>2 DEF Entry

(* Nothing has been written, and no stream opened, when the threads start. *)
LEMMA LogInitInv == Log!Init => LogInv
  <1> SUFFICES ASSUME Log!Init PROVE LogInv
    OBVIOUS
  <1>1. file \in Seq(Cells) /\ \A t \in Workers : ~Logged(file, t)
    <2>1. <<>> \in Seq(Cells) /\ \A t \in Workers : ~Logged(<<>>, t)
      BY DEF Logged
    <2>2. file = <<>> \/ file = OldLog
      BY SameEntries DEF Log!Init
    <2>3. QED
      BY <2>1, <2>2, OldLogType
  <1>2. Log!TypeOK
    BY <1>1, SameEntries DEF Log!Init, Log!TypeOK, Log!PCs
  <1>3. Log!MutexHeld /\ Log!OwnEntryBuffered /\ OwnTime
    BY WorkersAssumption
    DEF Log!Init, Log!Nobody, Log!MutexHeld, Log!InCritical,
        Log!OwnEntryBuffered, OwnTime
  <1>4. QED
    BY <1>1, <1>2, <1>3 DEF LogInv, NotYetLogged

(* A flush, in fclose (168) or in exit, appends the entry of a thread that *)
(* was not yet logged, or nothing: also when its write fails.              *)
LEMMA FlushAppends ==
  ASSUME LogInv, NEW t \in Workers, Log!Fclose(t) \/ Log!ExitFlushes(t)
  PROVE  \/ ~Logged(file, t) /\ file' = file \o Entry(t)
         \/ file' = file
  <1>1. file' \in {file \o buf[t], file} /\ file \in Seq(Cells)
    BY SameEntries
    DEF LogInv, Log!TypeOK, Log!Fclose, Log!ExitFlushes, Log!Flushed
  <1>2. CASE buf[t] = <<>>
    BY <1>1, <1>2
  <1>3. CASE buf[t] # <<>>
    <2>1. buf[t] = Entry(t)
      BY <1>3, SameEntries DEF LogInv, Log!OwnEntryBuffered
    <2>2. ~Logged(file, t)
      BY <1>3 DEF LogInv, NotYetLogged
    <2>3. QED
      BY <1>1, <2>1, <2>2
  <1>4. QED
    BY <1>2, <1>3

(* After a flush a thread is logged only if it was, or if it is the one    *)
(* flushed.                                                                *)
LEMMA FlushLogs ==
  ASSUME LogInv, NEW t \in Workers, Log!Fclose(t) \/ Log!ExitFlushes(t)
  PROVE  /\ file' \in Seq(Log!Cells)
         /\ \A v \in Workers : v # t /\ ~Logged(file, v) => ~Logged(file', v)
  <1>1. file \in Seq(Cells) /\ Log!Cells = Cells
    BY SameEntries DEF LogInv, Log!TypeOK
  <1>2. CASE file' = file
    BY <1>1, <1>2
  <1>3. CASE file' = file \o Entry(t)
    BY <1>1, <1>3, EntryType, LoggedAfter
  <1>4. QED
    BY <1>2, <1>3, FlushAppends

(* A step of one thread, or the end of the process, keeps the log's        *)
(* invariant.                                                              *)
LEMMA LogStepInv == LogInv /\ [Log!Next]_(Log!vars) => LogInv'
  <1> SUFFICES ASSUME LogInv, [Log!Next]_(Log!vars) PROVE LogInv'
    OBVIOUS
  <1> USE DEF LogInv, Log!TypeOK, Log!PCs, Log!MutexHeld, Log!InCritical,
              Log!OwnEntryBuffered, OwnTime, NotYetLogged, Log!Nobody
  <1>1. ASSUME NEW t \in Workers, Log!Finish(t) PROVE LogInv'
    BY <1>1 DEF Log!Finish, Log!Goto
  <1>2. ASSUME NEW t \in Workers, Log!Fopen(t) PROVE LogInv'
    BY <1>2 DEF Log!Fopen, Log!Goto
  <1>3. ASSUME NEW t \in Workers, Log!FopenFails(t) PROVE LogInv'
    BY <1>3 DEF Log!FopenFails, Log!Goto
  <1>4. ASSUME NEW t \in Workers, Log!Lock(t) PROVE LogInv'
    BY <1>4, WorkersAssumption DEF Log!Lock, Log!Goto
  <1>5. ASSUME NEW t \in Workers, Log!Localtime(t) PROVE LogInv'
    BY <1>5 DEF Log!Localtime, Log!Goto
  <1>6. ASSUME NEW t \in Workers, Log!PrintEntry(t) PROVE LogInv'
    <2>1. buf' = [buf EXCEPT ![t] = Log!Entry(t)]
      BY <1>6, FormattedOwn, SameEntries DEF Log!PrintEntry, Log!Goto
    <2>2. Log!Entry(t) \in Seq(Log!Cells)
      BY EntryType, SameEntries
    <2>3. QED
      BY <1>6, <2>1, <2>2 DEF Log!PrintEntry, Log!Goto
  <1>7. ASSUME NEW t \in Workers, Log!Unlock(t) PROVE LogInv'
    BY <1>7, WorkersAssumption DEF Log!Unlock, Log!Goto
  <1>8. ASSUME NEW t \in Workers, Log!Fclose(t) PROVE LogInv'
    <2>1. /\ lpc[t] = "flushing"
          /\ lpc' = [lpc EXCEPT ![t] = "done"]
          /\ buf' = [buf EXCEPT ![t] = <<>>]
          /\ UNCHANGED <<mutex, tm, process>>
      BY <1>8 DEF Log!Fclose, Log!Goto
    <2>2. /\ file' \in Seq(Log!Cells)
          /\ \A v \in Workers : v # t /\ ~Logged(file, v) => ~Logged(file', v)
      BY <1>8, FlushLogs
    <2>3. Log!TypeOK' /\ Log!MutexHeld' /\ Log!OwnEntryBuffered' /\ OwnTime'
      BY <2>1, <2>2
    <2>4. NotYetLogged'
      BY <2>1, <2>2
    <2>5. QED
      BY <2>3, <2>4
  <1>9. ASSUME NEW t \in Workers, Log!ExitFlushes(t) PROVE LogInv'
    <2>1. /\ process = "exiting" /\ buf[t] # <<>>
          /\ buf' = [buf EXCEPT ![t] = <<>>]
          /\ UNCHANGED <<mutex, lpc, tm, process>>
      BY <1>9 DEF Log!ExitFlushes
    <2>2. /\ file' \in Seq(Log!Cells)
          /\ \A v \in Workers : v # t /\ ~Logged(file, v) => ~Logged(file', v)
      BY <1>9, FlushLogs
    <2>3. lpc[t] \in {"unlocking", "flushing"}
      BY <2>1
    <2>4. Log!TypeOK' /\ Log!MutexHeld' /\ Log!OwnEntryBuffered' /\ OwnTime'
      BY <2>1, <2>2, <2>3
    <2>5. NotYetLogged'
      BY <2>1, <2>2, <2>3
    <2>6. QED
      BY <2>4, <2>5
  <1>10. CASE Log!Sigpipe \/ Log!Exit \/ Log!ExitEnds
    BY <1>10 DEF Log!Sigpipe, Log!Exit, Log!ExitEnds
  <1>11. CASE UNCHANGED Log!vars
    BY <1>11 DEF Log!vars
  <1>12. QED
    BY <1>1, <1>2, <1>3, <1>4, <1>5, <1>6, <1>7, <1>8, <1>9, <1>10, <1>11
    DEF Log!Next, Log!Step

(* A step of the log appends one whole entry to the file or leaves it.     *)
LEMMA LogStepAppends == LogInv /\ [Log!Next]_(Log!vars) => [Log!AL!Next]_file
  <1> SUFFICES ASSUME LogInv, Log!Next PROVE [Log!AL!Next]_file
    BY DEF Log!vars
  <1>1. ASSUME NEW t \in Workers, Log!Fclose(t) \/ Log!ExitFlushes(t)
        PROVE  Log!AL!AppendEntry(t) \/ UNCHANGED file
    BY <1>1, FlushAppends
    DEF Log!AL!AppendEntry, Log!AL!Logged, Log!AL!Entry, Logged, Entry
  <1>2. ASSUME NEW t \in Workers,
               Log!Finish(t) \/ Log!Step(t), ~Log!Fclose(t)
        PROVE  UNCHANGED file
    BY <1>2 DEF Log!Finish, Log!Step, Log!Fopen, Log!FopenFails, Log!Lock,
                Log!Localtime, Log!PrintEntry, Log!Unlock
  <1>3. CASE Log!Sigpipe \/ Log!Exit \/ Log!ExitEnds
    BY <1>3 DEF Log!Sigpipe, Log!Exit, Log!ExitEnds
  <1>4. QED
    BY <1>1, <1>2, <1>3 DEF Log!Next, Log!Step, Log!AL!Next

(* The strengthened invariant of the log holds in every reachable state.   *)
THEOREM LogInvariance == Log!Spec => []LogInv
  BY LogInitInv, LogStepInv, PTL DEF Log!Spec

(* The variables of the logging code (152-168, 264-280) keep their types.  *)
THEOREM LogTypeCorrect == Log!Spec => []Log!TypeOK
  BY LogInvariance, PTL DEF LogInv

(* log_mutex (160, 272) admits one thread at a time.                       *)
THEOREM MutualExclusion == Log!Spec => []Log!MutexHeld
  BY LogInvariance, PTL DEF LogInv

(* What a thread prints to its stream (164, 276) is its own entry with its *)
(* own time, whatever the other threads do with localtime.                 *)
THEOREM BuffersOwnEntry == Log!Spec => []Log!OwnEntryBuffered
  BY LogInvariance, PTL DEF LogInv

(* The buffered print and the flush in fclose (164-168) implement          *)
(* AppendLog: the integrity of the file rests on O_APPEND.                 *)
THEOREM LogImplementsAppendLog == Log!Spec => Log!AppendsWholeEntries
  <1>1. Log!Init => Log!AL!Init
    BY DEF Log!Init, Log!AL!Init, Log!AL!OldLog, Log!OldLog
  <1>2. QED
    BY <1>1, LogInvariance, LogStepAppends, PTL
    DEF Log!Spec, Log!AppendsWholeEntries, Log!AL!Spec

(* Whatever main and thread_handle do, they touch the log as ThreadLog     *)
(* says: a step of the proxy is a step of the log, or leaves it.           *)
LEMMA StepsLog == [Next]_vars => [Log!Next]_(Log!vars)
  <1> SUFFICES ASSUME [Next]_vars PROVE [Log!Next]_(Log!vars)
    OBVIOUS
  <1> DEFINE Quiet == UNCHANGED Log!vars
  <1>1. CASE Main
    BY <1>1 DEF Main, FillFd, FillAddress, Create, CreateFails, log, Log!vars
  <1>2. CASE AcceptFails
    BY <1>2 DEF AcceptFails, Log!Next
  <1>3. CASE ProcessEnds
    BY <1>3 DEF ProcessEnds, Log!Next, Conns
  <1>4. ASSUME NEW t \in Conns, Accept(t) PROVE Quiet
    BY <1>4 DEF Accept, log, Log!vars
  <1>5. ASSUME NEW t \in Conns,
               \/ CopyFd(t) \/ CopyAddress(t) \/ Refuse(t) \/ OpenServer(t)
               \/ ServerFails(t) \/ CloseNext(t) \/ Return(t)
        PROVE  Quiet
    BY <1>5 DEF CopyFd, CopyAddress, Refuse, OpenServer, ServerFails,
                CloseNext, Return, log, Log!vars
  <1>6. ASSUME NEW t \in Conns,
               \/ Relayed(t) \/ OpenLog(t) \/ OpenLogFails(t)
               \/ WriteLog(t) \/ CloseLog(t)
        PROVE  Log!Next
    BY <1>6 DEF Relayed, OpenLog, OpenLogFails, WriteLog, CloseLog, Conns,
                Log!Next, Log!Step
  <1>7. CASE UNCHANGED vars
    BY <1>7 DEF vars, log, Log!vars
  <1>8. QED
    BY <1>1, <1>2, <1>3, <1>4, <1>5, <1>6, <1>7 DEF Next, Thread

(* The proxy's log is ThreadLog's.                                         *)
THEOREM ImplementsThreadLog == Spec => Log!Spec
  <1>1. Init => Log!Init
    BY DEF Init
  <1>2. QED
    BY <1>1, StepsLog, PTL DEF Spec, Log!Spec

(* Whatever connections arrive, however they are relayed and however the   *)
(* process ends, the log file of the proxy is written as AppendLog says.   *)
THEOREM ImplementsAppendLog == Spec => LogStaysWhole
  BY ImplementsThreadLog, LogImplementsAppendLog, PTL DEF LogStaysWhole

-----------------------------------------------------------------------------
(* The proxy around the log *)

(* The one or two descriptors a thread is left to close are a sequence.    *)
LEMMA ListType ==
  ASSUME NEW S, NEW a \in S, NEW b \in S
  PROVE  <<a>> \in Seq(S) /\ <<a, b>> \in Seq(S)
  OBVIOUS

LEMMA ListElements ==
  ASSUME NEW a, NEW b
  PROVE  /\ 1 \in 1..Len(<<a>>) /\ <<a>>[1] = a
         /\ \A i \in 1..Len(<<a>>) : i = 1
         /\ 1 \in 1..Len(<<a, b>>) /\ <<a, b>>[1] = a
         /\ 2 \in 1..Len(<<a, b>>) /\ <<a, b>>[2] = b
         /\ \A i \in 1..Len(<<a, b>>) : i = 1 \/ i = 2
  OBVIOUS

LEMMA InitType == Init => TypeOK
  <1> SUFFICES ASSUME Init PROVE TypeOK
    OBVIOUS
  <1>1. Log!TypeOK
    BY LogInitInv DEF Init, LogInv
  <1>2. overwritten \in BOOLEAN
    BY DEF Init
  <1>3. /\ pending \subseteq Conns
        /\ fds \in [Fds -> Files \cup {Free}]
        /\ main \in [at : {"accept", "fill fd", "fill address", "create"},
                     fd : Fds \cup {0}, conn : Conns \cup {NoConn}]
        /\ slot \in [fd : Fds \cup {0}, conn : Conns \cup {NoConn}]
        /\ copy \in [Conns -> [fd : Fds \cup {0}, conn : Conns \cup {NoConn}]]
        /\ server \in [Conns -> Fds \cup {0}]
        /\ stream \in [Conns -> Fds \cup {0}]
        /\ todo \in [Conns -> Seq(Fds \cup {0})]
        /\ pc \in [Conns -> PCs]
    BY DEF Init, Free, PCs
  <1>4. QED
    BY <1>1, <1>2, <1>3 DEF TypeOK

(* Every step of main, of a thread or of the end of the process keeps the  *)
(* types.                                                                  *)
LEMMA StepType == TypeOK /\ [Next]_vars /\ Log!TypeOK' => TypeOK'
  <1> SUFFICES ASSUME TypeOK, [Next]_vars, Log!TypeOK' PROVE TypeOK'
    OBVIOUS
  <1> USE DEF TypeOK, PCs, loop, handler
  <1>1. CASE Main
    BY <1>1 DEF Main, FillFd, FillAddress, Overwrites, Create, CreateFails
  <1>2. CASE AcceptFails \/ ProcessEnds
    BY <1>2 DEF AcceptFails, ProcessEnds
  <1>3. ASSUME NEW t \in Conns, Accept(t) PROVE TypeOK'
    <2>1. PICK f \in Fds :
            /\ fds' = [fds EXCEPT ![f] = <<"client", t>>]
            /\ main' = [at |-> "fill fd", fd |-> f, conn |-> t]
      BY <1>3 DEF Accept
    <2>2. <<"client", t>> \in Files
      BY DEF Files
    <2>3. fds' \in [Fds -> Files \cup {Free}]
      BY <2>1, <2>2
    <2>4. pending' \subseteq Conns /\ UNCHANGED <<slot, overwritten, handler>>
      BY <1>3 DEF Accept
    <2>5. QED
      BY <2>1, <2>3, <2>4
  <1>4. ASSUME NEW t \in Conns, CopyFd(t) \/ CopyAddress(t) PROVE TypeOK'
    <2>1. PICK c \in [fd : Fds \cup {0}, conn : Conns \cup {NoConn}] :
            copy' = [copy EXCEPT ![t] = c]
      <3>1. CASE CopyFd(t)
        BY <3>1 DEF CopyFd
      <3>2. CASE CopyAddress(t)
        BY <3>2 DEF CopyAddress
      <3>3. QED
        BY <1>4, <3>1, <3>2
    <2>2. pc' \in [Conns -> PCs] /\ UNCHANGED <<fds, loop, server, stream, todo>>
      BY <1>4 DEF CopyFd, CopyAddress
    <2>3. QED
      BY <2>1, <2>2
  <1>5. ASSUME NEW t \in Conns, OpenServer(t) \/ OpenLog(t) PROVE TypeOK'
    <2>1. PICK f \in Fds, x \in Files : fds' = [fds EXCEPT ![f] = x]
      BY <1>5 DEF OpenServer, OpenLog, Files
    <2>2. fds' \in [Fds -> Files \cup {Free}]
      BY <2>1
    <2>3. server' \in [Conns -> Fds \cup {0}] /\ stream' \in [Conns -> Fds \cup {0}]
      <3>1. CASE OpenServer(t)
        <4>1. PICK g \in Fds : server' = [server EXCEPT ![t] = g] /\ stream' = stream
          BY <3>1 DEF OpenServer
        <4>2. QED
          BY <4>1
      <3>2. CASE OpenLog(t)
        <4>1. PICK g \in Fds : stream' = [stream EXCEPT ![t] = g] /\ server' = server
          BY <3>2 DEF OpenLog
        <4>2. QED
          BY <4>1
      <3>3. QED
        BY <1>5, <3>1, <3>2
    <2>4. pc' \in [Conns -> PCs] /\ UNCHANGED <<loop, copy, todo>>
      <3>1. CASE OpenServer(t)
        BY <3>1 DEF OpenServer
      <3>2. CASE OpenLog(t)
        BY <3>2 DEF OpenLog
      <3>3. QED
        BY <1>5, <3>1, <3>2
    <2>5. QED
      BY <2>2, <2>3, <2>4
  <1>6. ASSUME NEW t \in Conns, NEW ds \in Seq(Fds \cup {0}), Leave(t, ds)
        PROVE  todo' \in [Conns -> Seq(Fds \cup {0})] /\ pc' \in [Conns -> PCs]
    BY <1>6 DEF Leave
  <1>7. ASSUME NEW t \in Conns,
               Refuse(t) \/ ServerFails(t) \/ OpenLogFails(t) PROVE TypeOK'
    <2>1. copy[t].fd \in Fds \cup {0} /\ server[t] \in Fds \cup {0}
      OBVIOUS
    <2>2. Leave(t, <<copy[t].fd>>) \/ Leave(t, <<copy[t].fd, server[t]>>)
      BY <1>7 DEF Refuse, ServerFails, OpenLogFails
    <2>3. /\ <<copy[t].fd>> \in Seq(Fds \cup {0})
          /\ <<copy[t].fd, server[t]>> \in Seq(Fds \cup {0})
      BY <2>1, ListType
    <2>4. todo' \in [Conns -> Seq(Fds \cup {0})] /\ pc' \in [Conns -> PCs]
      BY <1>6, <2>2, <2>3
    <2>5. UNCHANGED <<fds, loop, copy, server, stream>>
      BY <1>7 DEF Refuse, ServerFails, OpenLogFails
    <2>6. QED
      BY <2>4, <2>5
  <1>8. ASSUME NEW t \in Conns, Relayed(t) \/ WriteLog(t) PROVE TypeOK'
    BY <1>8 DEF Relayed, WriteLog
  <1>9. ASSUME NEW t \in Conns, CloseLog(t) PROVE TypeOK'
    <2>1. copy[t].fd \in Fds \cup {0} /\ server[t] \in Fds \cup {0}
      OBVIOUS
    <2>2. <<server[t], copy[t].fd>> \in Seq(Fds \cup {0})
      BY <2>1, ListType
    <2>3. Leave(t, <<server[t], copy[t].fd>>)
      BY <1>9 DEF CloseLog
    <2>4. todo' \in [Conns -> Seq(Fds \cup {0})] /\ pc' \in [Conns -> PCs]
      BY <1>6, <2>2, <2>3
    <2>5. fds' \in [Fds -> Files \cup {Free}]
      BY <1>9 DEF CloseLog
    <2>6. QED
      BY <1>9, <2>4, <2>5 DEF CloseLog
  <1>10. ASSUME NEW t \in Conns, CloseNext(t) PROVE TypeOK'
    <2>1. todo[t] \in Seq(Fds \cup {0}) /\ todo[t] # <<>>
      BY <1>10 DEF CloseNext
    <2>2. Tail(todo[t]) \in Seq(Fds \cup {0})
      BY <2>1, HeadTailProperties
    <2>3. todo' \in [Conns -> Seq(Fds \cup {0})]
      BY <1>10, <2>2 DEF CloseNext
    <2>4. fds' \in [Fds -> Files \cup {Free}]
      BY <1>10 DEF CloseNext
    <2>5. QED
      BY <1>10, <2>3, <2>4 DEF CloseNext
  <1>11. ASSUME NEW t \in Conns, Return(t) PROVE TypeOK'
    BY <1>11 DEF Return
  <1>12. CASE UNCHANGED vars
    BY <1>12 DEF vars
  <1>13. QED
    BY <1>1, <1>2, <1>3, <1>4, <1>5, <1>7, <1>8, <1>9, <1>10, <1>11, <1>12
    DEF Next, Thread

(* main's loop, the descriptor table and the threads keep their types,     *)
(* however fast clients connect.                                           *)
THEOREM TypeCorrect == Spec => []TypeOK
  <1>1. Spec => []LogInv
    BY ImplementsThreadLog, LogInvariance, PTL
  <1>2. LogInv => Log!TypeOK
    BY DEF LogInv
  <1>3. QED
    BY <1>1, <1>2, InitType, StepType, PTL DEF Spec

-----------------------------------------------------------------------------
(* Who may use which descriptor, while no clinfo was overwritten           *)

Opened(t) == lpc[t] \in {"locking", "timing", "printing", "unlocking", "flushing"}

\* The descriptors t has yet to close
Rest(t) == {todo[t][i] : i \in DOMAIN todo[t]}

\* main has accepted t's connection and not yet created the thread (384-390).
AtMain(t) == main.at # "accept" /\ main.conn = t

(* While main fills its clinfo and creates the thread, the connection is   *)
(* its own, and from its first write to the clinfo on no thread is left    *)
(* that has yet to copy the old contents.                                  *)
MainInv ==
  main.at # "accept" =>
    /\ main.conn \in Conns \ pending /\ pc[main.conn] = "none"
    /\ main.fd \in Fds /\ fds[main.fd] = <<"client", main.conn>>
    /\ main.at \in {"fill address", "create"} => slot.fd = main.fd
    /\ main.at = "create" => slot.conn = main.conn
    /\ main.at \in {"fill address", "create"} =>
         \A t \in Conns : pc[t] \notin {"copying", "copied"}

\* A thread that has not started is pending or in main's hands.
Starts(t) ==
  /\ t \in pending => pc[t] = "none"
  /\ pc[t] = "none" => t \in pending \/ AtMain(t)

\* Until a thread has copied the clinfo (35) it holds the thread's own.
Copies(t) ==
  pc[t] \in {"copying", "copied"} =>
    /\ slot.conn = t
    /\ slot.fd \in Fds /\ fds[slot.fd] = <<"client", t>>
    /\ pc[t] = "copied" => copy[t].fd = slot.fd

\* A running thread's descriptors are its own.
Uses(t) ==
  /\ pc[t] \in {"request", "server", "logging"} =>
       /\ copy[t].conn = t
       /\ copy[t].fd \in Fds /\ fds[copy[t].fd] = <<"client", t>>
  /\ pc[t] \in {"server", "logging"} =>
       server[t] \in Fds /\ fds[server[t]] = <<"server", t>>
  /\ Opened(t) => stream[t] \in Fds /\ fds[stream[t]] = <<"log", t>>

\* The log is reached after the relay, and left before the thread closes.
LogFollows(t) ==
  /\ pc[t] \in {"none", "copying", "copied", "request", "server", "uncreated"}
       => lpc[t] = "serving"
  /\ pc[t] = "logging" => lpc[t] = "opening" \/ Opened(t)
  /\ pc[t] \in {"closing", "ended"} => lpc[t] \in {"serving", "done", "failed"}

\* What is left to close is the thread's own and is there once.
Closes(t) ==
  /\ todo[t] # <<>> => pc[t] = "closing"
  /\ \A i \in 1..Len(todo[t]) : todo[t][i] \in Fds /\ fds[todo[t][i]][2] = t
  /\ \A i, j \in 1..Len(todo[t]) : todo[t][i] = todo[t][j] => i = j

\* Every open descriptor is accounted for, but those the code never closes:
\* a connection without a thread, and a server's when fopen failed.
Owns(t) ==
  \A f \in Fds :
    /\ fds[f] = <<"client", t>> =>
         \/ pc[t] = "none" /\ AtMain(t) /\ main.fd = f
         \/ pc[t] \in {"copying", "copied"} /\ slot.fd = f
         \/ pc[t] \in {"request", "server", "logging"} /\ copy[t].fd = f
         \/ pc[t] = "closing" /\ \E i \in 1..Len(todo[t]) : todo[t][i] = f
         \/ pc[t] = "uncreated"
    /\ fds[f] = <<"server", t>> =>
         \/ pc[t] \in {"server", "logging"} /\ server[t] = f
         \/ pc[t] = "closing" /\ \E i \in 1..Len(todo[t]) : todo[t][i] = f
         \/ lpc[t] = "failed"
    /\ fds[f] = <<"log", t>> => Opened(t) /\ stream[t] = f

ThreadInv(t) ==
  Starts(t) /\ Copies(t) /\ Uses(t) /\ LogFollows(t) /\ Closes(t) /\ Owns(t)

IInv == TypeOK /\ MainInv /\ \A t \in Conns : ThreadInv(t)

\* A step of thread t: what belongs to the others stays as it is.
TouchesOnly(t) ==
  /\ UNCHANGED <<pending, main, slot>>
  /\ \A u \in Conns \ {t} :
       /\ pc'[u] = pc[u] /\ lpc'[u] = lpc[u] /\ copy'[u] = copy[u]
       /\ server'[u] = server[u] /\ stream'[u] = stream[u] /\ todo'[u] = todo[u]
  /\ \A f \in Fds :
       \/ fds'[f] = fds[f]
       \/ fds[f][2] \in {t, NoConn} /\ fds'[f][2] \in {t, NoConn}

(* What belongs to the other threads and to main is untouched by a thread. *)
LEMMA ThreadStep ==
  ASSUME IInv, TypeOK', NEW t \in Conns, TouchesOnly(t), pc[t] # "none",
         pc'[t] \in {"copying", "copied"} => pc[t] \in {"copying", "copied"},
         ThreadInv(t)'
  PROVE  IInv'
  <1>1. ASSUME NEW u \in Conns, u # t PROVE ThreadInv(u)'
    <2>1. /\ pc'[u] = pc[u] /\ lpc'[u] = lpc[u] /\ copy'[u] = copy[u]
          /\ server'[u] = server[u] /\ stream'[u] = stream[u] /\ todo'[u] = todo[u]
          /\ UNCHANGED <<pending, main, slot>>
      BY <1>1 DEF TouchesOnly
    <2>2. \A f \in Fds : \/ fds'[f] = fds[f]
                         \/ fds[f][2] # u /\ fds'[f][2] # u
      BY <1>1, WorkersAssumption DEF TouchesOnly, NoConn, Conns
    <2>3. \A f \in Fds, k \in {"client", "server", "log"} :
            fds'[f] = <<k, u>> <=> fds[f] = <<k, u>>
      BY <2>2
    <2>4. ThreadInv(u)
      BY DEF IInv
    <2>5. Starts(u)' /\ LogFollows(u)' /\ Copies(u)' /\ Uses(u)'
      BY <2>1, <2>3, <2>4 DEF ThreadInv, Starts, AtMain, LogFollows, Opened,
                              Copies, Uses
    <2>6. Closes(u)'
      BY <2>1, <2>2, <2>4 DEF ThreadInv, Closes
    <2>7. Owns(u)'
      BY <2>1, <2>3, <2>4 DEF ThreadInv, Owns, AtMain, Opened
    <2>8. QED
      BY <2>5, <2>6, <2>7 DEF ThreadInv
  <1>2. MainInv'
    <2>1. SUFFICES ASSUME main.at # "accept" PROVE MainInv'
      BY DEF MainInv, TouchesOnly
    <2>2. /\ main.conn \in Conns \ pending /\ pc[main.conn] = "none"
          /\ main.fd \in Fds /\ fds[main.fd] = <<"client", main.conn>>
          /\ main.at \in {"fill address", "create"} => slot.fd = main.fd
          /\ main.at = "create" => slot.conn = main.conn
          /\ main.at \in {"fill address", "create"} =>
               \A u \in Conns : pc[u] \notin {"copying", "copied"}
      BY <2>1 DEF IInv, MainInv
    <2>3. main.conn # t /\ pc'[main.conn] = "none"
      BY <2>2 DEF TouchesOnly
    <2>4. fds'[main.fd] = <<"client", main.conn>>
      <3>1. <<"client", main.conn>>[2] = main.conn
        OBVIOUS
      <3>2. main.conn # t /\ main.conn # NoConn
        BY <2>2, <2>3, WorkersAssumption DEF NoConn, Conns
      <3>3. fds'[main.fd] = fds[main.fd]
        BY <2>2, <3>1, <3>2 DEF TouchesOnly
      <3>4. QED
        BY <2>2, <3>3
    <2>5. main.at \in {"fill address", "create"} =>
            \A u \in Conns : pc'[u] \notin {"copying", "copied"}
      BY <2>2 DEF TouchesOnly
    <2>6. QED
      BY <2>2, <2>3, <2>4, <2>5 DEF MainInv, TouchesOnly
  <1>3. QED
    BY <1>1, <1>2 DEF IInv

(* A thread copies the member client_fd of main's clinfo (35).             *)
LEMMA CopyFdInv ==
  ASSUME IInv, TypeOK', NEW t \in Conns, CopyFd(t) PROVE IInv'
  <1>1. /\ pc[t] = "copying" /\ pc' = [pc EXCEPT ![t] = "copied"]
        /\ copy' = [copy EXCEPT ![t].fd = slot.fd]
        /\ UNCHANGED <<fds, pending, main, slot, server, stream, todo, lpc>>
    BY DEF CopyFd, loop, log
  <1>2. ThreadInv(t) /\ TypeOK
    BY DEF IInv
  <1>3. pc'[t] = "copied" /\ copy'[t].fd = slot.fd
    BY <1>1, <1>2 DEF TypeOK
  <1>4. TouchesOnly(t)
    BY <1>1, <1>2 DEF TouchesOnly, TypeOK
  <1>5. ThreadInv(t)'
    BY <1>1, <1>2, <1>3
    DEF ThreadInv, Starts, AtMain, Copies, Uses, LogFollows, Opened, Closes, Owns
  <1>6. QED
    BY <1>1, <1>3, <1>4, <1>5, ThreadStep

(* ... and the member client_address: from now on it has its own copy.     *)
LEMMA CopyAddressInv ==
  ASSUME IInv, TypeOK', NEW t \in Conns, CopyAddress(t) PROVE IInv'
  <1>1. /\ pc[t] = "copied" /\ pc' = [pc EXCEPT ![t] = "request"]
        /\ copy' = [copy EXCEPT ![t].conn = slot.conn]
        /\ UNCHANGED <<fds, pending, main, slot, server, stream, todo, lpc>>
    BY DEF CopyAddress, loop, log
  <1>2. ThreadInv(t) /\ TypeOK
    BY DEF IInv
  <1>3. /\ pc'[t] = "request" /\ copy'[t].conn = slot.conn
        /\ copy'[t].fd = copy[t].fd
    BY <1>1, <1>2 DEF TypeOK
  <1>4. TouchesOnly(t)
    BY <1>1, <1>2 DEF TouchesOnly, TypeOK
  <1>5. ThreadInv(t)'
    BY <1>1, <1>2, <1>3
    DEF ThreadInv, Starts, AtMain, Copies, Uses, LogFollows, Opened, Closes, Owns
  <1>6. QED
    BY <1>1, <1>3, <1>4, <1>5, ThreadStep

(* The thread's socket to the server gets a descriptor nobody uses.        *)
LEMMA OpenServerInv ==
  ASSUME IInv, TypeOK', NEW t \in Conns, OpenServer(t) PROVE IInv'
  <1>1. PICK f \in Fds : /\ fds[f] = Free
                         /\ fds' = [fds EXCEPT ![f] = <<"server", t>>]
                         /\ server' = [server EXCEPT ![t] = f]
    BY DEF OpenServer, NewFd, FreeFds
  <1>2. /\ pc[t] = "request" /\ pc' = [pc EXCEPT ![t] = "server"]
        /\ UNCHANGED <<pending, main, slot, copy, stream, todo, lpc>>
    BY DEF OpenServer, loop, log
  <1>3. ThreadInv(t) /\ TypeOK
    BY DEF IInv
  <1>4. /\ pc'[t] = "server" /\ server'[t] = f /\ fds'[f] = <<"server", t>>
        /\ \A g \in Fds \ {f} : fds'[g] = fds[g]
    BY <1>1, <1>2, <1>3 DEF TypeOK
  <1>5. fds[f][2] = NoConn /\ NoConn # t /\ fds'[f][2] = t
    BY <1>1, <1>4, WorkersAssumption DEF Free, NoConn, Conns
  <1>6. TouchesOnly(t)
    BY <1>1, <1>2, <1>3, <1>4, <1>5 DEF TouchesOnly, TypeOK
  <1>7. Starts(t)' /\ Copies(t)' /\ LogFollows(t)'
    BY <1>2, <1>3, <1>4 DEF ThreadInv, Starts, AtMain, Copies, LogFollows, Opened
  <1>8. Uses(t)'
    BY <1>2, <1>3, <1>4, <1>5 DEF ThreadInv, Uses, LogFollows, Opened
  <1>9. Closes(t)'
    BY <1>2, <1>3, <1>4 DEF ThreadInv, Closes
  <1>10. Owns(t)'
    BY <1>2, <1>3, <1>4 DEF ThreadInv, Owns, Opened, LogFollows
  <1>11. QED
    BY <1>2, <1>4, <1>6, <1>7, <1>8, <1>9, <1>10, ThreadStep DEF ThreadInv

(* The relay is over and the thread goes on to the log.                    *)
LEMMA RelayedInv ==
  ASSUME IInv, TypeOK', NEW t \in Conns, Relayed(t) PROVE IInv'
  <1>1. /\ pc[t] = "server" /\ pc' = [pc EXCEPT ![t] = "logging"]
        /\ lpc[t] = "serving" /\ lpc' = [lpc EXCEPT ![t] = "opening"]
        /\ UNCHANGED <<fds, pending, main, slot, copy, server, stream, todo>>
    BY DEF Relayed, loop, Log!Finish, Log!Goto
  <1>2. ThreadInv(t) /\ TypeOK /\ lpc \in [Conns -> Log!PCs]
    BY DEF IInv, TypeOK, Log!TypeOK, Conns
  <1>3. pc'[t] = "logging" /\ lpc'[t] = "opening"
    BY <1>1, <1>2 DEF TypeOK
  <1>4. TouchesOnly(t)
    BY <1>1, <1>2 DEF TouchesOnly, TypeOK
  <1>5. ThreadInv(t)'
    BY <1>1, <1>2, <1>3
    DEF ThreadInv, Starts, AtMain, Copies, Uses, LogFollows, Opened, Closes, Owns
  <1>6. QED
    BY <1>1, <1>3, <1>4, <1>5, ThreadStep

(* fopen gives the thread's stream a descriptor nobody uses.               *)
LEMMA OpenLogInv ==
  ASSUME IInv, TypeOK', NEW t \in Conns, OpenLog(t) PROVE IInv'
  <1>1. PICK f \in Fds : /\ fds[f] = Free
                         /\ fds' = [fds EXCEPT ![f] = <<"log", t>>]
                         /\ stream' = [stream EXCEPT ![t] = f]
    BY DEF OpenLog, NewFd, FreeFds
  <1>2. /\ lpc[t] = "opening" /\ lpc' = [lpc EXCEPT ![t] = "locking"]
        /\ UNCHANGED <<pending, main, slot, copy, server, todo, pc>>
    BY DEF OpenLog, loop, Log!Fopen, Log!Goto
  <1>3. ThreadInv(t) /\ TypeOK /\ lpc \in [Conns -> Log!PCs] /\ pc \in [Conns -> PCs]
    BY DEF IInv, TypeOK, Log!TypeOK, Conns
  <1>4. /\ lpc'[t] = "locking" /\ stream'[t] = f /\ fds'[f] = <<"log", t>>
        /\ \A g \in Fds \ {f} : fds'[g] = fds[g]
    BY <1>1, <1>2, <1>3 DEF TypeOK
  <1>5. pc[t] = "logging"
    BY <1>2, <1>3 DEF ThreadInv, LogFollows, PCs
  <1>6. fds[f][2] = NoConn /\ NoConn # t /\ fds'[f][2] = t
    BY <1>1, <1>4, WorkersAssumption DEF Free, NoConn, Conns
  <1>7. TouchesOnly(t)
    BY <1>1, <1>2, <1>3, <1>4, <1>6 DEF TouchesOnly, TypeOK
  <1>8. Starts(t)' /\ Copies(t)' /\ LogFollows(t)'
    BY <1>2, <1>3, <1>4, <1>5
    DEF ThreadInv, Starts, AtMain, Copies, LogFollows, Opened
  <1>9. Uses(t)'
    BY <1>2, <1>3, <1>4, <1>5, <1>6 DEF ThreadInv, Uses, Opened
  <1>10. Closes(t)'
    BY <1>2, <1>3, <1>4, <1>5 DEF ThreadInv, Closes
  <1>11. Owns(t)'
    BY <1>2, <1>3, <1>4, <1>5 DEF ThreadInv, Owns, Opened
  <1>12. QED
    BY <1>2, <1>5, <1>7, <1>8, <1>9, <1>10, <1>11, ThreadStep DEF ThreadInv

(* What a descriptor refers to names its owner; a free one has none.       *)
LEMMA OneIsT ==
  ASSUME NEW t \in Conns, NEW k \in {"client", "server", "log"}
  PROVE  <<k, t>>[2] = t
  OBVIOUS

LEMMA FreeIsNobodys ==
  /\ Free[2] = NoConn
  /\ \A t \in Conns : /\ t # NoConn
                      /\ \A k \in {"client", "server", "log"} : Free # <<k, t>>
  BY WorkersAssumption DEF Free, NoConn, Conns

(* Locking, timing, printing and unlocking: the stream stays the thread's. *)
LEMMA WriteLogInv ==
  ASSUME IInv, TypeOK', NEW t \in Conns, WriteLog(t) PROVE IInv'
  <1>1. ThreadInv(t) /\ TypeOK /\ lpc \in [Conns -> Log!PCs]
    BY DEF IInv, TypeOK, Log!TypeOK, Conns
  <1>2. UNCHANGED <<fds, pending, main, slot, copy, server, stream, todo, pc>>
    BY DEF WriteLog, loop, handler
  <1>3. /\ Opened(t) /\ Opened(t)'
        /\ lpc[t] # "failed"
        /\ \A u \in Conns \ {t} : lpc'[u] = lpc[u]
    BY <1>1 DEF WriteLog, Log!Lock, Log!Localtime, Log!PrintEntry, Log!Unlock,
                Log!Goto, Opened
  <1>4. pc[t] = "logging"
    BY <1>1, <1>3 DEF ThreadInv, LogFollows, Opened, TypeOK, PCs
  <1>5. TouchesOnly(t)
    BY <1>2, <1>3 DEF TouchesOnly
  <1>6. ThreadInv(t)'
    BY <1>1, <1>2, <1>3, <1>4
    DEF ThreadInv, Starts, AtMain, Copies, Uses, LogFollows, Closes, Owns
  <1>7. QED
    BY <1>2, <1>4, <1>5, <1>6, ThreadStep

\* ds lists descriptors of t after the step, each once, and all of them: the
\* server's is left out only by the thread whose fopen failed.
ListsItsFiles(t, ds) ==
  /\ \A i \in 1..Len(ds) : ds[i] \in Fds /\ fds'[ds[i]][2] = t
  /\ \A i, j \in 1..Len(ds) : ds[i] = ds[j] => i = j
  /\ \A f \in Fds :
       /\ fds'[f] = <<"client", t>> => \E i \in 1..Len(ds) : ds[i] = f
       /\ fds'[f] = <<"server", t>> => \/ \E i \in 1..Len(ds) : ds[i] = f
                                       \/ lpc'[t] = "failed"
       /\ fds'[f] # <<"log", t>>

(* A thread that leaves closes each of its descriptors once.               *)
LEMMA LeaveInv ==
  ASSUME IInv, TypeOK', NEW t \in Conns, NEW ds \in Seq(Fds \cup {0}), TouchesOnly(t),
         pc[t] # "none", pc'[t] = "closing", todo'[t] = ds,
         lpc'[t] \in {"serving", "done", "failed"}, ListsItsFiles(t, ds)
  PROVE  IInv'
  <1>1. t \notin pending'
    BY DEF IInv, ThreadInv, Starts, TouchesOnly
  <1>2. Starts(t)' /\ Copies(t)' /\ Uses(t)' /\ LogFollows(t)'
    BY <1>1 DEF Starts, Copies, Uses, LogFollows, Opened
  <1>3. Closes(t)' /\ Owns(t)'
    BY DEF Closes, Owns, ListsItsFiles
  <1>4. QED
    BY <1>2, <1>3, ThreadStep DEF ThreadInv

(* A refused request closes client_fd, the only descriptor of the thread.  *)
LEMMA RefuseInv ==
  ASSUME IInv, TypeOK', NEW t \in Conns, Refuse(t) PROVE IInv'
  <1> DEFINE ds == <<copy[t].fd>>
  <1>1. ThreadInv(t) /\ TypeOK
    BY DEF IInv
  <1>2. /\ pc[t] = "request" /\ pc' = [pc EXCEPT ![t] = "closing"]
        /\ todo' = [todo EXCEPT ![t] = ds]
        /\ UNCHANGED <<fds, pending, main, slot, copy, server, stream, lpc>>
    BY DEF Refuse, Leave, loop, log
  <1>3. /\ copy[t].fd \in Fds /\ fds[copy[t].fd] = <<"client", t>>
        /\ lpc[t] = "serving"
    BY <1>1, <1>2 DEF ThreadInv, Uses, LogFollows
  <1>4. /\ ds \in Seq(Fds \cup {0}) /\ 1 \in 1..Len(ds) /\ ds[1] = copy[t].fd
        /\ \A i \in 1..Len(ds) : i = 1
    BY <1>3, ListType, ListElements
  <1>5. \A f \in Fds : /\ fds[f] = <<"client", t>> => f = copy[t].fd
                       /\ fds[f] # <<"server", t>> /\ fds[f] # <<"log", t>>
    BY <1>1, <1>2, <1>3 DEF ThreadInv, Owns, Opened
  <1>6. TouchesOnly(t) /\ pc'[t] = "closing" /\ todo'[t] = ds
    BY <1>1, <1>2 DEF TouchesOnly, TypeOK
  <1> HIDE DEF ds
  <1>7. \A i \in 1..Len(ds) : ds[i] \in Fds /\ fds'[ds[i]][2] = t
    BY <1>2, <1>3, <1>4, OneIsT
  <1>8. \A i, j \in 1..Len(ds) : ds[i] = ds[j] => i = j
    BY <1>4
  <1>9. \A f \in Fds :
           /\ fds'[f] = <<"client", t>> => \E i \in 1..Len(ds) : ds[i] = f
           /\ fds'[f] = <<"server", t>> => \/ \E i \in 1..Len(ds) : ds[i] = f
                                           \/ lpc'[t] = "failed"
           /\ fds'[f] # <<"log", t>>
    BY <1>2, <1>4, <1>5
  <1>10. ListsItsFiles(t, ds)
    BY <1>7, <1>8, <1>9 DEF ListsItsFiles
  <1>11. QED
    BY <1>2, <1>3, <1>4, <1>6, <1>10, LeaveInv

(* A failed relay closes both ends.                                        *)
LEMMA ServerFailsInv ==
  ASSUME IInv, TypeOK', NEW t \in Conns, ServerFails(t) PROVE IInv'
  <1> DEFINE ds == <<copy[t].fd, server[t]>>
  <1>1. ThreadInv(t) /\ TypeOK
    BY DEF IInv
  <1>2. /\ pc[t] = "server" /\ pc' = [pc EXCEPT ![t] = "closing"]
        /\ todo' = [todo EXCEPT ![t] = ds]
        /\ UNCHANGED <<fds, pending, main, slot, copy, server, stream, lpc>>
    BY DEF ServerFails, Leave, loop, log
  <1>3. /\ copy[t].fd \in Fds /\ fds[copy[t].fd] = <<"client", t>>
        /\ server[t] \in Fds /\ fds[server[t]] = <<"server", t>>
        /\ lpc[t] = "serving"
    BY <1>1, <1>2 DEF ThreadInv, Uses, LogFollows
  <1>4. /\ ds \in Seq(Fds \cup {0}) /\ 1 \in 1..Len(ds) /\ 2 \in 1..Len(ds)
        /\ \A i \in 1..Len(ds) : i = 1 \/ i = 2
        /\ ds[1] = copy[t].fd /\ ds[2] = server[t]
    BY <1>3, ListType, ListElements
  <1>5. \A f \in Fds : /\ fds[f] = <<"client", t>> => f = copy[t].fd
                       /\ fds[f] = <<"server", t>> => f = server[t]
                       /\ fds[f] # <<"log", t>>
    BY <1>1, <1>2, <1>3 DEF ThreadInv, Owns, Opened
  <1>6. TouchesOnly(t) /\ pc'[t] = "closing" /\ todo'[t] = ds
    BY <1>1, <1>2 DEF TouchesOnly, TypeOK
  <1>7. copy[t].fd # server[t]
    BY <1>3
  <1> HIDE DEF ds
  <1>8. \A i \in 1..Len(ds) : ds[i] \in Fds /\ fds'[ds[i]][2] = t
    BY <1>2, <1>3, <1>4, OneIsT
  <1>9. \A i, j \in 1..Len(ds) : ds[i] = ds[j] => i = j
    BY <1>4, <1>7
  <1>10. \A f \in Fds :
           /\ fds'[f] = <<"client", t>> => \E i \in 1..Len(ds) : ds[i] = f
           /\ fds'[f] = <<"server", t>> => \/ \E i \in 1..Len(ds) : ds[i] = f
                                           \/ lpc'[t] = "failed"
           /\ fds'[f] # <<"log", t>>
    BY <1>2, <1>4, <1>5
  <1>11. ListsItsFiles(t, ds)
    BY <1>8, <1>9, <1>10 DEF ListsItsFiles
  <1>12. QED
    BY <1>2, <1>3, <1>4, <1>6, <1>11, LeaveInv

(* A failed fopen closes client_fd alone (154-158).                        *)
LEMMA OpenLogFailsInv ==
  ASSUME IInv, TypeOK', NEW t \in Conns, OpenLogFails(t) PROVE IInv'
  <1> DEFINE ds == <<copy[t].fd>>
  <1>1. ThreadInv(t) /\ TypeOK /\ lpc \in [Conns -> Log!PCs]
    BY DEF IInv, TypeOK, Log!TypeOK, Conns
  <1>2. /\ lpc[t] = "opening" /\ lpc' = [lpc EXCEPT ![t] = "failed"]
        /\ pc' = [pc EXCEPT ![t] = "closing"]
        /\ todo' = [todo EXCEPT ![t] = ds]
        /\ UNCHANGED <<fds, pending, main, slot, copy, server, stream>>
    BY DEF OpenLogFails, Log!FopenFails, Log!Goto, Leave, loop
  <1>3. pc[t] = "logging"
    BY <1>1, <1>2 DEF ThreadInv, LogFollows, TypeOK, PCs
  <1>4. copy[t].fd \in Fds /\ fds[copy[t].fd] = <<"client", t>>
    BY <1>1, <1>3 DEF ThreadInv, Uses
  <1>5. /\ ds \in Seq(Fds \cup {0}) /\ 1 \in 1..Len(ds) /\ ds[1] = copy[t].fd
        /\ \A i \in 1..Len(ds) : i = 1
    BY <1>4, ListType, ListElements
  <1>6. \A f \in Fds : /\ fds[f] = <<"client", t>> => f = copy[t].fd
                       /\ fds[f] # <<"log", t>>
    BY <1>1, <1>2, <1>3 DEF ThreadInv, Owns, Opened
  <1>7. /\ TouchesOnly(t) /\ pc'[t] = "closing" /\ todo'[t] = ds
        /\ lpc'[t] = "failed"
    BY <1>1, <1>2 DEF TouchesOnly, TypeOK
  <1> HIDE DEF ds
  <1>8. \A i \in 1..Len(ds) : ds[i] \in Fds /\ fds'[ds[i]][2] = t
    BY <1>2, <1>4, <1>5, OneIsT
  <1>9. \A i, j \in 1..Len(ds) : ds[i] = ds[j] => i = j
    BY <1>5
  <1>10. \A f \in Fds :
           /\ fds'[f] = <<"client", t>> => \E i \in 1..Len(ds) : ds[i] = f
           /\ fds'[f] = <<"server", t>> => \/ \E i \in 1..Len(ds) : ds[i] = f
                                           \/ lpc'[t] = "failed"
           /\ fds'[f] # <<"log", t>>
    <2>1. fds' = fds
      BY <1>2
    <2>2. ASSUME NEW f \in Fds, fds'[f] = <<"client", t>>
          PROVE  \E i \in 1..Len(ds) : ds[i] = f
      BY <1>5, <1>6, <2>1, <2>2
    <2>3. ASSUME NEW f \in Fds PROVE fds'[f] # <<"log", t>>
      BY <1>6, <2>1
    <2>4. QED
      BY <1>7, <2>2, <2>3
  <1>11. ListsItsFiles(t, ds)
    BY <1>8, <1>9, <1>10 DEF ListsItsFiles
  <1>12. QED
    BY <1>3, <1>5, <1>7, <1>11, LeaveInv

(* fclose closes the stream; both connections are left to close.           *)
LEMMA CloseLogInv ==
  ASSUME IInv, TypeOK', NEW t \in Conns, CloseLog(t) PROVE IInv'
  <1> DEFINE ds == <<server[t], copy[t].fd>>
             s == stream[t]
  <1>1. ThreadInv(t) /\ TypeOK /\ lpc \in [Conns -> Log!PCs]
    BY DEF IInv, TypeOK, Log!TypeOK, Conns
  <1>2. /\ lpc[t] = "flushing" /\ lpc' = [lpc EXCEPT ![t] = "done"]
        /\ pc' = [pc EXCEPT ![t] = "closing"]
        /\ todo' = [todo EXCEPT ![t] = ds]
        /\ fds' = [fds EXCEPT ![s] = Free]
        /\ UNCHANGED <<pending, main, slot, copy, server, stream>>
    BY DEF CloseLog, Log!Fclose, Log!Goto, Leave, loop
  <1>3. pc[t] = "logging"
    BY <1>1, <1>2 DEF ThreadInv, LogFollows, TypeOK, PCs
  <1>4. /\ copy[t].fd \in Fds /\ fds[copy[t].fd] = <<"client", t>>
        /\ server[t] \in Fds /\ fds[server[t]] = <<"server", t>>
        /\ s \in Fds /\ fds[s] = <<"log", t>>
    BY <1>1, <1>2, <1>3 DEF ThreadInv, Uses, Opened
  <1>5. /\ ds \in Seq(Fds \cup {0}) /\ 1 \in 1..Len(ds) /\ 2 \in 1..Len(ds)
        /\ \A i \in 1..Len(ds) : i = 1 \/ i = 2
        /\ ds[1] = server[t] /\ ds[2] = copy[t].fd
    BY <1>4, ListType, ListElements
  <1>6. \A f \in Fds : /\ fds[f] = <<"client", t>> => f = copy[t].fd
                       /\ fds[f] = <<"server", t>> => f = server[t]
                       /\ fds[f] = <<"log", t>> => f = s
    BY <1>1, <1>2, <1>3 DEF ThreadInv, Owns, Opened
  <1>7. /\ copy[t].fd # server[t] /\ copy[t].fd # s /\ server[t] # s
    BY <1>4
  <1>8. /\ fds'[s] = Free /\ \A f \in Fds \ {s} : fds'[f] = fds[f]
        /\ fds[s][2] = t /\ fds'[s][2] = NoConn
    BY <1>1, <1>2, <1>4, OneIsT, FreeIsNobodys DEF TypeOK
  <1>9. /\ TouchesOnly(t) /\ pc'[t] = "closing" /\ todo'[t] = ds
        /\ lpc'[t] = "done"
    BY <1>1, <1>2, <1>8 DEF TouchesOnly, TypeOK
  <1>10. \A f \in Fds : /\ fds'[f] = <<"client", t>> => f = copy[t].fd
                        /\ fds'[f] = <<"server", t>> => f = server[t]
                        /\ fds'[f] # <<"log", t>>
    BY <1>6, <1>8, FreeIsNobodys
  <1>11. /\ fds'[copy[t].fd] = <<"client", t>> /\ fds'[server[t]] = <<"server", t>>
    BY <1>4, <1>7, <1>8
  <1> HIDE DEF ds, s
  <1>12. \A i \in 1..Len(ds) : ds[i] \in Fds /\ fds'[ds[i]][2] = t
    BY <1>4, <1>5, <1>11, OneIsT
  <1>13. \A i, j \in 1..Len(ds) : ds[i] = ds[j] => i = j
    BY <1>5, <1>7
  <1>14. \A f \in Fds :
           /\ fds'[f] = <<"client", t>> => \E i \in 1..Len(ds) : ds[i] = f
           /\ fds'[f] = <<"server", t>> => \/ \E i \in 1..Len(ds) : ds[i] = f
                                           \/ lpc'[t] = "failed"
           /\ fds'[f] # <<"log", t>>
    <2>1. ASSUME NEW f \in Fds, fds'[f] = <<"client", t>>
          PROVE  \E i \in 1..Len(ds) : ds[i] = f
      BY <1>5, <1>10, <2>1
    <2>2. ASSUME NEW f \in Fds, fds'[f] = <<"server", t>>
          PROVE  \E i \in 1..Len(ds) : ds[i] = f
      BY <1>5, <1>10, <2>2
    <2>3. QED
      BY <1>10, <2>1, <2>2
  <1>15. ListsItsFiles(t, ds)
    BY <1>12, <1>13, <1>14 DEF ListsItsFiles
  <1>16. QED
    BY <1>3, <1>5, <1>9, <1>15, LeaveInv

(* A descriptor is closed while it is the thread's, and is not in the list *)
(* again.                                                                  *)
LEMMA CloseNextInv ==
  ASSUME IInv, TypeOK', NEW t \in Conns, CloseNext(t) PROVE IInv'
  <1> DEFINE s == todo[t]
             h == s[1]
  <1>1. ThreadInv(t) /\ TypeOK
    BY DEF IInv
  <1>2. /\ pc[t] = "closing" /\ s # <<>> /\ Head(s) = h
        /\ fds' = [fds EXCEPT ![h] = Free]
        /\ todo' = [todo EXCEPT ![t] = Tail(s)]
        /\ UNCHANGED <<pending, main, slot, copy, server, stream, pc, lpc>>
    BY DEF CloseNext, loop, log
  <1>3. s \in Seq(Fds \cup {0})
    BY <1>1 DEF TypeOK
  <1>4. /\ Len(s) \in Nat \ {0}
        /\ Tail(s) \in Seq(Fds \cup {0}) /\ Len(Tail(s)) = Len(s) - 1
        /\ \A i \in 1..Len(Tail(s)) : Tail(s)[i] = s[i + 1]
    BY <1>2, <1>3, HeadTailProperties, EmptySeq
  <1>5. /\ \A i \in 1..Len(s) : s[i] \in Fds /\ fds[s[i]][2] = t
        /\ \A i, j \in 1..Len(s) : s[i] = s[j] => i = j
    BY <1>1 DEF ThreadInv, Closes
  <1>6. h \in Fds /\ fds[h][2] = t
    BY <1>4, <1>5
  <1>7. /\ fds'[h] = Free /\ \A f \in Fds \ {h} : fds'[f] = fds[f]
        /\ fds'[h][2] = NoConn
    BY <1>1, <1>2, <1>6, FreeIsNobodys DEF TypeOK
  <1>8. TouchesOnly(t) /\ todo'[t] = Tail(s)
    BY <1>1, <1>2, <1>6, <1>7 DEF TouchesOnly, TypeOK
  <1> HIDE DEF s, h
  <1>9. Starts(t)' /\ Copies(t)' /\ Uses(t)' /\ LogFollows(t)'
    BY <1>1, <1>2
    DEF ThreadInv, Starts, AtMain, Copies, Uses, LogFollows, Opened
  <1>10. \A i \in 1..Len(Tail(s)) : i + 1 \in 1..Len(s) /\ s[i + 1] # h
    BY <1>4, <1>5 DEF h
  <1>11. Closes(t)'
    <2>1. ASSUME NEW i \in 1..Len(Tail(s))
          PROVE  /\ Tail(s)[i] \in Fds /\ fds'[Tail(s)[i]][2] = t
                 /\ Tail(s)[i] = s[i + 1] /\ i + 1 \in 1..Len(s)
      BY <1>4, <1>5, <1>7, <1>10
    <2>2. ASSUME NEW i \in 1..Len(Tail(s)), NEW j \in 1..Len(Tail(s)),
                 Tail(s)[i] = Tail(s)[j]
          PROVE  i = j
      <3>1. i + 1 = j + 1
        BY <1>5, <2>1, <2>2
      <3>2. QED
        BY <3>1
    <2>3. \A i \in 1..Len(todo'[t]) : /\ todo'[t][i] \in Fds
                                      /\ fds'[todo'[t][i]][2] = t
      BY <1>8, <2>1
    <2>4. \A i, j \in 1..Len(todo'[t]) : todo'[t][i] = todo'[t][j] => i = j
      BY <1>8, <2>2
    <2>5. pc'[t] = "closing"
      BY <1>2
    <2>6. QED
      BY <2>3, <2>4, <2>5 DEF Closes
  <1>12. \A f \in Fds : (\E i \in 1..Len(s) : s[i] = f) /\ f # h
           => \E i \in 1..Len(Tail(s)) : Tail(s)[i] = f
    <2>1. SUFFICES ASSUME NEW i \in 1..Len(s), s[i] # h
                   PROVE  \E j \in 1..Len(Tail(s)) : Tail(s)[j] = s[i]
      OBVIOUS
    <2>2. i - 1 \in 1..Len(Tail(s)) /\ Tail(s)[i - 1] = s[i]
      BY <1>4, <2>1 DEF h
    <2>3. QED
      BY <2>2
  <1>13. Owns(t)'
    <2>1. \A f \in Fds, k \in {"client", "server", "log"} :
            fds'[f] = <<k, t>> => f # h /\ fds[f] = <<k, t>>
      BY <1>7, FreeIsNobodys
    <2>2. \A f \in Fds :
            /\ fds[f] = <<"client", t>> => \E i \in 1..Len(s) : s[i] = f
            /\ fds[f] = <<"server", t>> => \/ \E i \in 1..Len(s) : s[i] = f
                                           \/ lpc[t] = "failed"
            /\ fds[f] # <<"log", t>>
      BY <1>1, <1>2 DEF ThreadInv, Owns, LogFollows, Opened, s
    <2>3. \A f \in Fds :
            /\ fds'[f] = <<"client", t>> => \E i \in 1..Len(Tail(s)) : Tail(s)[i] = f
            /\ fds'[f] = <<"server", t>> => \/ \E i \in 1..Len(Tail(s)) : Tail(s)[i] = f
                                            \/ lpc[t] = "failed"
            /\ fds'[f] # <<"log", t>>
      BY <1>12, <2>1, <2>2
    <2>4. QED
      BY <1>2, <1>8, <2>3 DEF Owns
  <1>14. QED
    BY <1>2, <1>8, <1>9, <1>11, <1>13, ThreadStep DEF ThreadInv

(* A thread returns when it has closed its list.                           *)
LEMMA ReturnInv ==
  ASSUME IInv, TypeOK', NEW t \in Conns, Return(t) PROVE IInv'
  <1>1. ThreadInv(t) /\ TypeOK
    BY DEF IInv
  <1>2. /\ pc[t] = "closing" /\ pc' = [pc EXCEPT ![t] = "ended"]
        /\ todo[t] = <<>>
        /\ UNCHANGED <<fds, pending, main, slot, copy, server, stream, todo, lpc>>
    BY DEF Return, loop, log
  <1>3. pc'[t] = "ended" /\ Len(todo[t]) = 0
    BY <1>1, <1>2 DEF TypeOK
  <1>4. TouchesOnly(t)
    BY <1>1, <1>2 DEF TouchesOnly, TypeOK
  <1>5. Starts(t)' /\ Copies(t)' /\ Uses(t)' /\ LogFollows(t)'
    BY <1>1, <1>2, <1>3
    DEF ThreadInv, Starts, AtMain, Copies, Uses, LogFollows, Opened
  <1>6. Closes(t)' /\ Owns(t)'
    BY <1>1, <1>2, <1>3 DEF ThreadInv, Closes, Owns, LogFollows, Opened
  <1>7. QED
    BY <1>2, <1>3, <1>4, <1>5, <1>6, ThreadStep DEF ThreadInv

(* accept gives the connection a descriptor nobody uses.                   *)
LEMMA AcceptInv ==
  ASSUME IInv, TypeOK', NEW c \in Conns, Accept(c) PROVE IInv'
  <1>1. PICK f \in Fds : /\ fds[f] = Free
                         /\ fds' = [fds EXCEPT ![f] = <<"client", c>>]
                         /\ main' = [at |-> "fill fd", fd |-> f, conn |-> c]
    BY DEF Accept, NewFd, FreeFds
  <1>2. /\ main.at = "accept" /\ c \in pending /\ pending' = pending \ {c}
        /\ UNCHANGED <<slot, copy, server, stream, todo, pc, lpc>>
    BY DEF Accept, handler, log
  <1>3. TypeOK /\ \A t \in Conns : ThreadInv(t)
    BY DEF IInv
  <1>4. main'.at = "fill fd" /\ main'.fd = f /\ main'.conn = c
    BY <1>1
  <1>5. fds'[f] = <<"client", c>> /\ \A g \in Fds \ {f} : fds'[g] = fds[g]
    BY <1>1, <1>3 DEF TypeOK
  <1>6. pc[c] = "none" /\ lpc[c] = "serving"
    BY <1>2, <1>3 DEF ThreadInv, Starts, LogFollows
  <1>7. MainInv'
    BY <1>2, <1>4, <1>6, <1>5 DEF MainInv
  <1>8. ASSUME NEW t \in Conns PROVE ThreadInv(t)'
    <2>1. ThreadInv(t) /\ t # NoConn
      BY <1>3, FreeIsNobodys
    <2>2. \A g \in Fds : fds'[g] = fds[g] \/ fds[g][2] # t
      <3>1. fds[f][2] # t
        BY <1>1, <2>1, FreeIsNobodys
      <3>2. \A g \in Fds : g # f => fds'[g] = fds[g]
        BY <1>5
      <3>3. TAKE g \in Fds
      <3>4. CASE g = f
        BY <3>1, <3>4
      <3>5. CASE g # f
        BY <3>2, <3>5
      <3>6. QED
        BY <3>4, <3>5
    <2>3. Starts(t)'
      BY <1>2, <1>4, <1>6, <2>1 DEF ThreadInv, Starts, AtMain
    <2>4. Copies(t)' /\ LogFollows(t)'
      BY <1>2, <2>1, <2>2 DEF ThreadInv, Copies, LogFollows, Opened
    <2>5. Uses(t)'
      BY <1>2, <2>1, <2>2 DEF ThreadInv, Uses, Opened
    <2>6. Closes(t)'
      BY <1>2, <2>1, <2>2 DEF ThreadInv, Closes
    <2>7. CASE t = c
      <3>1. \A g \in Fds \ {f} : /\ fds'[g] # <<"client", t>>
                                 /\ fds'[g] = <<"server", t>> => lpc[t] = "failed"
                                 /\ fds'[g] # <<"log", t>>
        BY <1>2, <1>5, <1>6, <2>1, <2>7
        DEF ThreadInv, Owns, AtMain, Opened
      <3>2. fds'[f] # <<"server", t>> /\ fds'[f] # <<"log", t>> /\ pc'[t] = "none"
        BY <1>2, <1>5, <1>6, <2>7
      <3>3. AtMain(t)' /\ main'.fd = f
        BY <1>4, <2>7 DEF AtMain
      <3>4. Owns(t)'
        BY <1>2, <3>1, <3>2, <3>3 DEF Owns
      <3>5. QED
        BY <2>3, <2>4, <2>5, <2>6, <3>4 DEF ThreadInv
    <2>8. CASE t # c
      <3>1. \A g \in Fds, k \in {"client", "server", "log"} :
              fds'[g] = <<k, t>> => fds[g] = <<k, t>>
        <4>1. \A k \in {"client", "server", "log"} : fds'[f] # <<k, t>>
          BY <1>5, <2>8
        <4>2. QED
          BY <1>5, <4>1
      <3>2. Owns(t)'
        BY <1>2, <2>1, <3>1 DEF ThreadInv, Owns, AtMain, Opened
      <3>3. QED
        BY <2>3, <2>4, <2>5, <2>6, <3>2 DEF ThreadInv
    <2>9. QED
      BY <2>7, <2>8
  <1>9. QED
    BY <1>7, <1>8 DEF IInv

(* main fills its clinfo (385-387) with the new connection; it overwrites  *)
(* nothing if no thread has yet to copy it.                                *)
LEMMA FillInv ==
  ASSUME IInv, TypeOK', FillFd \/ FillAddress, ~overwritten' PROVE IInv'
  <1>1. /\ main.at \in {"fill fd", "fill address"}
        /\ main'.at # "accept" /\ main'.fd = main.fd /\ main'.conn = main.conn
        /\ main'.at \in {"fill address", "create"} => slot'.fd = main.fd
        /\ main'.at = "create" => slot'.conn = main.conn
        /\ UNCHANGED <<fds, pending, copy, server, stream, todo, pc, lpc>>
    <2>1. main.at \in {"fill address", "create"} => slot.fd = main.fd
      BY DEF IInv, MainInv, FillFd, FillAddress
    <2>2. CASE FillFd
      BY <2>2 DEF FillFd, IInv, TypeOK, handler, log
    <2>3. CASE FillAddress
      BY <2>1, <2>3 DEF FillAddress, IInv, TypeOK, handler, log
    <2>4. QED
      BY <2>2, <2>3
  <1>2. /\ MainInv /\ \A t \in Conns : ThreadInv(t)
        /\ \A t \in Conns : pc[t] \notin {"copying", "copied"}
    <2>1. overwritten' =
            (overwritten \/ \E t \in Conns : pc[t] \in {"copying", "copied"})
      BY DEF FillFd, FillAddress, Overwrites
    <2>2. QED
      BY <2>1 DEF IInv
  <1>3. MainInv'
    BY <1>1, <1>2 DEF MainInv
  <1>4. ASSUME NEW t \in Conns PROVE ThreadInv(t)'
    <2>1. ThreadInv(t) /\ pc[t] \notin {"copying", "copied"}
      BY <1>1, <1>2
    <2>2. Starts(t)' /\ Copies(t)' /\ Uses(t)' /\ LogFollows(t)' /\ Closes(t)'
      BY <1>1, <2>1
      DEF ThreadInv, Starts, AtMain, Copies, Uses, LogFollows, Opened, Closes
    <2>3. Owns(t)'
      BY <1>1, <2>1 DEF ThreadInv, Owns, AtMain, Opened
    <2>4. QED
      BY <2>2, <2>3 DEF ThreadInv
  <1>5. QED
    BY <1>3, <1>4 DEF IInv

(* pthread_create starts the thread with the clinfo main has just filled,  *)
(* or fails and leaves the connection to nobody.                           *)
LEMMA CreateInv ==
  ASSUME IInv, TypeOK', Create \/ CreateFails PROVE IInv'
  <1>1. TypeOK /\ MainInv /\ \A t \in Conns : ThreadInv(t)
    BY DEF IInv
  <1>2. PICK c \in Conns : main.conn = c
    BY <1>1 DEF MainInv, Create, CreateFails
  <1>3. /\ main.at = "create" /\ main'.at = "accept"
        /\ \E x \in {"copying", "uncreated"} : pc' = [pc EXCEPT ![c] = x]
        /\ UNCHANGED <<fds, pending, slot, copy, server, stream, todo, lpc>>
    BY <1>1, <1>2 DEF Create, CreateFails, log, TypeOK
  <1>4. /\ c \in Conns \ pending /\ pc[c] = "none"
        /\ main.fd \in Fds /\ fds[main.fd] = <<"client", c>>
        /\ slot.fd = main.fd /\ slot.conn = c
        /\ \A t \in Conns : pc[t] \notin {"copying", "copied"}
    BY <1>1, <1>3, <1>2 DEF MainInv
  <1>5. /\ pc'[c] \in {"copying", "uncreated"}
        /\ \A t \in Conns \ {c} : pc'[t] = pc[t]
    BY <1>1, <1>3, <1>4 DEF TypeOK
  <1>6. MainInv'
    BY <1>3 DEF MainInv
  <1>7. ThreadInv(c)'
    <2>1. ThreadInv(c)
      BY <1>1, <1>4
    <2>2. Starts(c)' /\ Copies(c)' /\ Uses(c)' /\ LogFollows(c)' /\ Closes(c)'
      BY <1>3, <1>4, <1>5, <2>1
      DEF ThreadInv, Starts, AtMain, Copies, Uses, LogFollows, Opened, Closes
    <2>3. Owns(c)'
      BY <1>3, <1>4, <1>5, <1>2, <2>1 DEF ThreadInv, Owns, AtMain, LogFollows, Opened
    <2>4. QED
      BY <2>2, <2>3 DEF ThreadInv
  <1>8. ASSUME NEW t \in Conns \ {c} PROVE ThreadInv(t)'
    <2>1. ThreadInv(t) /\ pc'[t] = pc[t] /\ ~AtMain(t) /\ pc[t] \notin {"copying", "copied"}
      BY <1>1, <1>4, <1>5, <1>2 DEF AtMain
    <2>2. Starts(t)' /\ Copies(t)' /\ Uses(t)' /\ LogFollows(t)' /\ Closes(t)'
      BY <1>3, <2>1
      DEF ThreadInv, Starts, Copies, Uses, LogFollows, Opened, Closes
    <2>3. Owns(t)'
      BY <1>3, <2>1 DEF ThreadInv, Owns, Opened
    <2>4. QED
      BY <2>2, <2>3 DEF ThreadInv
  <1>9. QED
    BY <1>6, <1>7, <1>8 DEF IInv

(* The end of the process moves no descriptor and no thread.               *)
LEMMA EndInv ==
  ASSUME IInv, TypeOK', AcceptFails \/ ProcessEnds \/ UNCHANGED vars PROVE IInv'
  <1>1. UNCHANGED <<fds, pending, main, slot, copy, server, stream, todo, pc, lpc>>
    BY DEF AcceptFails, ProcessEnds, vars, loop, handler, log, Log!Exit,
           Log!Sigpipe, Log!ExitEnds, Log!ExitFlushes
  <1>2. MainInv'
    BY <1>1 DEF IInv, MainInv
  <1>3. ASSUME NEW t \in Conns PROVE ThreadInv(t)'
    <2>1. ThreadInv(t)
      BY DEF IInv
    <2>2. QED
      BY <1>1, <2>1
      DEF ThreadInv, Starts, AtMain, Copies, Uses, LogFollows, Opened, Closes, Owns
  <1>4. QED
    BY <1>2, <1>3 DEF IInv

LEMMA InitInv == Init => IInv
  <1> SUFFICES ASSUME Init PROVE IInv
    OBVIOUS
  <1>1. TypeOK
    BY InitType
  <1>2. MainInv
    BY DEF Init, MainInv
  <1>3. ASSUME NEW t \in Conns PROVE ThreadInv(t)
    <2>1. /\ t \in pending /\ pc[t] = "none" /\ lpc[t] = "serving"
          /\ todo[t] = <<>> /\ Len(todo[t]) = 0
          /\ \A f \in Fds : fds[f] = Free
      BY DEF Init, Log!Init, Conns
    <2>2. QED
      BY <2>1, FreeIsNobodys
      DEF ThreadInv, Starts, Copies, Uses, LogFollows, Opened, Closes, Owns
  <1>4. QED
    BY <1>1, <1>2, <1>3 DEF IInv

LEMMA StepInv == IInv /\ [Next]_vars /\ TypeOK' /\ ~overwritten' => IInv'
  <1> SUFFICES ASSUME IInv, [Next]_vars, TypeOK', ~overwritten' PROVE IInv'
    OBVIOUS
  <1>1. ASSUME NEW t \in Conns, Thread(t) PROVE IInv'
    BY <1>1, CopyFdInv, CopyAddressInv, RefuseInv, OpenServerInv, ServerFailsInv,
       RelayedInv, OpenLogInv, OpenLogFailsInv, WriteLogInv, CloseLogInv,
       CloseNextInv, ReturnInv DEF Thread
  <1>2. ASSUME NEW c \in Conns, Accept(c) PROVE IInv'
    BY <1>2, AcceptInv
  <1>3. CASE Main
    BY <1>3, FillInv, CreateInv DEF Main
  <1>4. CASE AcceptFails \/ ProcessEnds \/ UNCHANGED vars
    BY <1>4, EndInv
  <1>5. QED
    BY <1>1, <1>2, <1>3, <1>4 DEF Next

(* A clinfo that was overwritten stays so in the history.                  *)
LEMMA OverwrittenStays == TypeOK /\ overwritten /\ [Next]_vars => overwritten'
  <1> SUFFICES ASSUME TypeOK, overwritten, [Next]_vars PROVE overwritten'
    OBVIOUS
  <1>1. CASE FillFd \/ FillAddress
    BY <1>1 DEF FillFd, FillAddress, Overwrites
  <1>2. CASE Create \/ CreateFails \/ AcceptFails \/ ProcessEnds
    BY <1>2 DEF Create, CreateFails, AcceptFails, ProcessEnds, loop
  <1>3. ASSUME NEW c \in Conns, Accept(c) PROVE overwritten'
    BY <1>3 DEF Accept
  <1>4. ASSUME NEW t \in Conns, Thread(t) PROVE overwritten'
    BY <1>4 DEF Thread, CopyFd, CopyAddress, Refuse, OpenServer, ServerFails,
                Relayed, OpenLog, OpenLogFails, WriteLog, CloseLog, CloseNext,
                Return, loop
  <1>5. CASE UNCHANGED vars
    BY <1>5 DEF vars, loop
  <1>6. QED
    BY <1>1, <1>2, <1>3, <1>4, <1>5 DEF Next, Main

(* The strengthened invariant holds until main overwrites its clinfo under *)
(* a new thread, whatever else happens.                                    *)
THEOREM Invariance == Spec => [](overwritten \/ IInv)
  BY InitInv, StepInv, OverwrittenStays, TypeCorrect, PTL DEF Spec

(* Until then every thread reads, relays and logs with the descriptor and  *)
(* the address of its own connection, for any number of clients: main's    *)
(* reuse of one clinfo (384-390) is the only way to a foreign one.         *)
THEOREM OwnConnection == Spec => []OwnConnectionUnlessOverwritten
  <1>1. overwritten \/ IInv => OwnConnectionUnlessOverwritten
    BY DEF IInv, ThreadInv, Uses, HandlesItsConnection,
           OwnConnectionUnlessOverwritten
  <1>2. QED
    BY <1>1, Invariance, PTL

(* ... and writes to and closes nothing but what it opened, once, in every *)
(* way a request can end, and a returned thread leaves no descriptor but   *)
(* its server's after a failed fopen (154-158).                            *)
THEOREM OwnDescriptors == Spec => []OwnDescriptorsUnlessOverwritten
  <1>1. ASSUME IInv, NEW t \in Conns
        PROVE  /\ pc[t] \in {"server", "logging"} => fds[server[t]] = <<"server", t>>
               /\ lpc[t] \in {"locking", "timing", "printing", "unlocking", "flushing"}
                    => fds[stream[t]] = <<"log", t>>
               /\ \A i \in DOMAIN todo[t] : fds[todo[t][i]][2] = t
               /\ pc[t] = "ended" =>
                    \A f \in Fds : fds[f][2] = t => fds[f] = <<"server", t>> /\ lpc[t] = "failed"
    <2>1. ThreadInv(t) /\ TypeOK
      BY <1>1 DEF IInv
    <2>2. todo[t] \in Seq(Fds \cup {0})
      BY <2>1 DEF TypeOK
    <2>3. \A i \in DOMAIN todo[t] : fds[todo[t][i]][2] = t
      BY <2>1, <2>2 DEF ThreadInv, Closes
    <2>4. ASSUME pc[t] = "ended", NEW f \in Fds, fds[f][2] = t
          PROVE  fds[f] = <<"server", t>> /\ lpc[t] = "failed"
      <3>1. fds[f] \in Files
        BY <2>1, <2>4, FreeIsNobodys DEF TypeOK
      <3>2. fds[f] \in {<<"client", t>>, <<"server", t>>, <<"log", t>>}
        BY <2>4, <3>1 DEF Files
      <3>3. QED
        BY <2>1, <2>4, <3>2 DEF ThreadInv, Owns, LogFollows, Opened
    <2>5. QED
      BY <2>1, <2>3, <2>4 DEF ThreadInv, Uses, Opened
  <1>2. overwritten \/ IInv => OwnDescriptorsUnlessOverwritten
    BY <1>1 DEF UsesOwnDescriptors, OwnDescriptorsUnlessOverwritten
  <1>3. QED
    BY <1>2, Invariance, PTL

=============================================================================
