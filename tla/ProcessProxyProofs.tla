-------------------------- MODULE ProcessProxyProofs --------------------------
(***************************************************************************)
(* The process version for any number of connections, descriptors and      *)
(* lengths of entries.  First the log on its own: the fcntl lock excludes, *)
(* and the writes of lines 518-541 implement AppendLog.  Then the proxy    *)
(* around it: every step of it is a step of the log or none, and a         *)
(* client's descriptor is open only in the processes that serve it.        *)
(***************************************************************************)
EXTENDS ProcessProxy, SequenceTheorems, TLAPS

-----------------------------------------------------------------------------
(* The entries *)

(* The entry of format_log_entry (690-717) is a non-empty line of cells.   *)
LEMMA EntryType ==
  ASSUME NEW w \in Workers
  PROVE  /\ Entry(w) \in Seq(Cells)
         /\ Len(Entry(w)) = EntryLen[w]
         /\ EntryLen[w] \in Nat \ {0}
         /\ \A i \in DOMAIN Entry(w) : Entry(w)[i][1] = w
  <1>1. EntryLen[w] \in Nat \ {0}
    BY EntryLenAssumption
  <1>2. \A i \in 1..EntryLen[w] : <<w, i>> \in Cells
    BY <1>1 DEF Cells
  <1>3. QED
    BY <1>1, <1>2 DEF Entry

(* After appending the entry of w the workers logged are the old and w.    *)
LEMMA LoggedAfter ==
  ASSUME NEW f \in Seq(Cells), NEW w \in Workers, NEW v \in Workers
  PROVE  Logged(f \o Entry(w), v) => Logged(f, v) \/ v = w
  <1>1. SUFFICES ASSUME NEW i \in DOMAIN (f \o Entry(w)),
                        (f \o Entry(w))[i][1] = v
                 PROVE  Logged(f, v) \/ v = w
    BY DEF Logged
  <1>2. CASE i \in 1..Len(f)
    <2>1. (f \o Entry(w))[i] = f[i] /\ i \in DOMAIN f
      BY <1>2, EntryType
    <2>2. QED
      BY <1>1, <2>1 DEF Logged
  <1>3. CASE i \notin 1..Len(f)
    <2>1. /\ i - Len(f) \in DOMAIN Entry(w)
          /\ (f \o Entry(w))[i] = Entry(w)[i - Len(f)]
      BY <1>3, EntryType
    <2>2. QED
      BY <1>1, <2>1, EntryType
  <1>4. QED
    BY <1>2, <1>3

(* The old contents of proxy.log are cells of no worker of this run.       *)
LEMMA OldLogType ==
  /\ OldLog \in Seq(Cells)
  /\ \A w \in Workers : ~Logged(OldLog, w)
  <1>1. \A i \in 1..OldLen : <<Past, i>> \in Cells
    BY OldLenAssumption DEF Cells
  <1>2. OldLog \in Seq(Cells)
    BY <1>1, OldLenAssumption DEF OldLog
  <1>3. ASSUME NEW w \in Workers, NEW i \in DOMAIN OldLog
        PROVE  OldLog[i][1] # w
    <2>1. OldLog[i] = <<Past, i>>
      BY DEF OldLog
    <2>2. QED
      BY <2>1, WorkersAssumption
  <1>4. QED
    BY <1>2, <1>3 DEF Logged

-----------------------------------------------------------------------------
(* The log *)

(* A child that has not written yet (before 536) has nothing in the file.  *)
NotYetLogged ==
  \A w \in Workers :
    pc[w] \in {"serving", "opening", "locking", "seeking", "writing"}
      => ~Logged(file, w)

LogInv ==
  Log!TypeOK /\ Log!LockHeld /\ Log!WritesAtEnd /\ NotYetLogged

(* The log's entries are those of LogEntries, whoever writes them.         *)
LEMMA SameEntries ==
  /\ Log!Cells = Cells /\ Log!OldLog = OldLog /\ Log!Nobody = Past
  /\ \A w \in Workers : Log!Entry(w) = Entry(w)
  BY DEF Log!Cells, Cells, Log!OldLog, OldLog, Log!Nobody, Log!Entry, Entry

(* A write (536) at the end of the file is an append.                      *)
LEMMA WriteAtEnd ==
  ASSUME NEW f \in Seq(Cells), NEW d \in Seq(Cells), Len(d) > 0
  PROVE  Log!WriteAt(f, Len(f), d) = f \o d
  <1> DEFINE m == Len(f)
             n == Len(d)
             g == [i \in 1..(m + n) |->
                     IF i \in (m + 1)..(m + n) THEN d[i - m] ELSE f[i]]
  <1>1. m \in Nat /\ n \in Nat
    OBVIOUS
  <1>2. Log!WriteAt(f, m, d) = g
    BY <1>1 DEF Log!WriteAt, Log!Longer
  <1>3. \A i \in 1..(m + n) : g[i] = (f \o d)[i]
    BY <1>1
  <1>4. \A i \in 1..(m + n) : g[i] \in Cells
    BY <1>1
  <1>5. g \in Seq(Cells) /\ Len(g) = m + n
    BY <1>1, <1>4
  <1>6. f \o d \in Seq(Cells) /\ Len(f \o d) = m + n
    BY <1>1
  <1>7. g = f \o d
    BY <1>3, <1>5, <1>6, SeqEqual
  <1>8. QED
    BY <1>2, <1>7

(* Formatting, locking and seeking move no character of the file; only     *)
(* write (536) does, and it appends the entry of a worker not yet logged.  *)
LEMMA WriteAppends ==
  ASSUME LogInv, NEW w \in Workers, Log!Write(w)
  PROVE  ~Logged(file, w) /\ file' = file \o Entry(w)
  <1>1. pc[w] = "writing" /\ file' = Log!WriteAt(file, offset[w], Entry(w))
    BY SameEntries DEF Log!Write, Log!Goto
  <1>2. offset[w] = Len(file) /\ ~Logged(file, w) /\ file \in Seq(Cells)
    BY <1>1, SameEntries DEF LogInv, Log!TypeOK, Log!WritesAtEnd, NotYetLogged
  <1>3. QED
    BY <1>1, <1>2, EntryType, WriteAtEnd

LEMMA LogInitInv == Log!Init => LogInv
  <1> SUFFICES ASSUME Log!Init PROVE LogInv
    OBVIOUS
  <1>1. file \in Seq(Cells) /\ \A w \in Workers : ~Logged(file, w)
    BY OldLogType, SameEntries DEF Log!Init, Logged
  <1>2. Log!TypeOK
    BY <1>1, SameEntries DEF Log!Init, Log!TypeOK, Log!PCs
  <1>3. Log!LockHeld /\ Log!WritesAtEnd
    BY WorkersAssumption, SameEntries
    DEF Log!Init, Log!LockHeld, Log!InCritical, Log!WritesAtEnd
  <1>4. QED
    BY <1>1, <1>2, <1>3 DEF LogInv, NotYetLogged

(* A step of one child keeps the strengthened invariant: the lock lets no  *)
(* other child be between its seek and its write when the file grows.      *)
LEMMA LogStepInv == LogInv /\ [Log!Next]_(Log!vars) => LogInv'
  <1> SUFFICES ASSUME LogInv, [Log!Next]_(Log!vars) PROVE LogInv'
    OBVIOUS
  <1> USE DEF LogInv, Log!TypeOK, Log!PCs, Log!LockHeld, Log!InCritical,
              Log!WritesAtEnd, NotYetLogged, Log!Nobody
  <1>1. ASSUME NEW w \in Workers, Log!Finish(w) PROVE LogInv'
    BY <1>1 DEF Log!Finish, Log!Goto
  <1>2. ASSUME NEW w \in Workers, Log!Open(w) PROVE LogInv'
    BY <1>2 DEF Log!Open, Log!Goto
  <1>3. ASSUME NEW w \in Workers, Log!OpenFails(w) PROVE LogInv'
    BY <1>3 DEF Log!OpenFails, Log!Goto
  <1>4. ASSUME NEW w \in Workers, Log!Lock(w) PROVE LogInv'
    BY <1>4, WorkersAssumption DEF Log!Lock, Log!Goto
  <1>5. ASSUME NEW w \in Workers, Log!Seek(w) PROVE LogInv'
    <2>1. Len(file) \in Nat
      OBVIOUS
    <2>2. QED
      BY <1>5, <2>1 DEF Log!Seek, Log!Goto
  <1>6. ASSUME NEW w \in Workers, Log!Write(w) PROVE LogInv'
    <2>1. /\ pc[w] = "writing" /\ lock = w
          /\ pc' = [pc EXCEPT ![w] = "unlocking"]
          /\ UNCHANGED <<present, lock>>
      BY <1>6 DEF Log!Write, Log!Goto
    <2>2. ~Logged(file, w) /\ file' = file \o Entry(w)
      BY <1>6, WriteAppends
    <2>3. file' \in Seq(Log!Cells)
      BY <2>2, EntryType, SameEntries
    <2>4. offset' \in [Workers -> Nat]
      BY <1>6, EntryType, SameEntries DEF Log!Write
    <2>5. Log!TypeOK' /\ Log!LockHeld'
      BY <2>1, <2>3, <2>4
    <2>6. Log!WritesAtEnd'
      BY <2>1
    <2>7. NotYetLogged'
      BY <2>1, <2>2, LoggedAfter, SameEntries
    <2>8. QED
      BY <2>5, <2>6, <2>7
  <1>7. ASSUME NEW w \in Workers, Log!Unlock(w) PROVE LogInv'
    BY <1>7, WorkersAssumption DEF Log!Unlock, Log!Goto, Log!Released
  <1>8. ASSUME NEW w \in Workers, Log!Close(w) PROVE LogInv'
    BY <1>8, WorkersAssumption DEF Log!Close, Log!Goto, Log!Released
  <1>9. ASSUME NEW w \in Workers, Log!Kill(w) PROVE LogInv'
    BY <1>9, WorkersAssumption DEF Log!Kill, Log!Released
  <1>10. CASE UNCHANGED Log!vars
    BY <1>10 DEF Log!vars, Logged
  <1>11. ASSUME NEW w \in Workers, Log!OpenRefused(w) PROVE LogInv'
    BY <1>11 DEF Log!OpenRefused, Log!Goto
  <1>12. ASSUME NEW w \in Workers, Log!WriteFails(w) PROVE LogInv'
    BY <1>12 DEF Log!WriteFails, Log!Goto
  <1>13. QED
    BY <1>1, <1>2, <1>3, <1>4, <1>5, <1>6, <1>7, <1>8, <1>9, <1>10, <1>11, <1>12
    DEF Log!Next, Log!Step

(* The strengthened invariant holds in every reachable state.              *)
THEOREM LogInvariance == Log!Spec => []LogInv
  BY LogInitInv, LogStepInv, PTL DEF Log!Spec

(* The variables of the logging code (518-541, 639-662) keep their types.  *)
THEOREM LogTypeCorrect == Log!Spec => []Log!TypeOK
  BY LogInvariance, PTL DEF LogInv

(* F_SETLKW (530, 651) excludes, for any number of children, and a killed  *)
(* child leaves no lock behind.                                            *)
THEOREM MutualExclusion == Log!Spec => []Log!LockHeld
  BY LogInvariance, PTL DEF LogInv

(* No child writes (536, 657) anywhere but at the current end of the file. *)
THEOREM WritesOnlyAtEnd == Log!Spec => []Log!WritesAtEnd
  BY LogInvariance, PTL DEF LogInv

(* A step of the log appends one whole entry to the file or leaves it.     *)
LEMMA LogStepAppends == LogInv /\ [Log!Next]_(Log!vars) => [Log!AL!Next]_file
  <1> SUFFICES ASSUME LogInv, Log!Next PROVE [Log!AL!Next]_file
    BY DEF Log!vars
  <1>1. ASSUME NEW w \in Workers, Log!Write(w) PROVE Log!AL!AppendEntry(w)
    BY <1>1, WriteAppends
    DEF Log!AL!AppendEntry, Log!AL!Logged, Log!AL!Entry, Logged, Entry
  <1>2. ASSUME NEW w \in Workers,
               Log!Finish(w) \/ Log!Step(w) \/ Log!Kill(w), ~Log!Write(w)
        PROVE  UNCHANGED file
    BY <1>2 DEF Log!Finish, Log!Step, Log!Kill, Log!Open, Log!OpenFails,
                Log!OpenRefused, Log!Lock, Log!Seek, Log!WriteFails,
                Log!Unlock, Log!Close
  <1>3. QED
    BY <1>1, <1>2 DEF Log!Next, Log!Step, Log!AL!Next

(* The locked seek and write of 518-541 implement AppendLog: entries       *)
(* arrive whole, at most once each, and old contents never change.         *)
THEOREM LogImplementsAppendLog == Log!Spec => Log!AppendsWholeEntries
  <1>1. Log!Init => Log!AL!Init
    BY DEF Log!Init, Log!AL!Init, Log!AL!OldLog, Log!OldLog
  <1>2. QED
    BY <1>1, LogInvariance, LogStepAppends, PTL
    DEF Log!Spec, Log!AppendsWholeEntries, Log!AL!Spec

-----------------------------------------------------------------------------
(* The proxy around the log *)

(* Whatever the processes do, they touch the log as ProcessLog says: a     *)
(* step of the proxy is a step of the log, or leaves it.                   *)
LEMMA StepsLog == [Next]_vars => [Log!Next]_(Log!vars)
  <1> SUFFICES ASSUME [Next]_vars PROVE [Log!Next]_(Log!vars)
    OBVIOUS
  <1> DEFINE Quiet == UNCHANGED Log!vars
  <1>1. ASSUME NEW p \in Procs, Loop(p) \/ AcceptFails(p) PROVE Quiet
    BY <1>1 DEF Loop, Reap, Fork, ForkFails, CloseClient, AcceptFails, log, Log!vars
  <1>2. ASSUME NEW p \in Procs, NEW c \in Conns, Accept(p, c) PROVE Quiet
    BY <1>2 DEF Accept, log, Log!vars
  <1>3. ASSUME NEW p \in Conns,
               \/ Refuse(p) \/ OpenServer(p) \/ ServerFails(p)
               \/ GetDone(p) \/ ConnectDone(p)
        PROVE  Quiet
    BY <1>3 DEF Refuse, OpenServer, ServerFails, GetDone, ConnectDone, log, Log!vars
  <1>4. ASSUME NEW p \in Conns,
               Relayed(p) \/ WriteLog(p) \/ OpenLogFails(p) \/ Killed(p)
        PROVE  Log!Next
    BY <1>4 DEF Relayed, WriteLog, OpenLogFails, Killed, Conns, Log!Next, Log!Step
  <1>5. CASE UNCHANGED vars
    BY <1>5 DEF vars, log, Log!vars
  <1>6. QED
    BY <1>1, <1>2, <1>3, <1>4, <1>5 DEF Next, Serve

(* The proxy's log is ProcessLog's.                                        *)
THEOREM ImplementsProcessLog == Spec => Log!Spec
  <1>1. Init => Log!Init
    BY DEF Init
  <1>2. QED
    BY <1>1, StepsLog, PTL DEF Spec, Log!Spec

(* Whoever accepts, forks, is killed or goes on to accept, the log file of *)
(* the proxy is written as AppendLog says.                                 *)
THEOREM ImplementsAppendLog == Spec => LogStaysWhole
  BY ImplementsProcessLog, LogImplementsAppendLog, PTL DEF LogStaysWhole

(* Between accept (378) and the end of fork (392), the connection is the   *)
(* process's alone, and the child it will be named after does not exist.   *)
Accepted(p) == at[p] \in {"reap", "fork"}

OneProcessEach ==
  /\ \A c \in pending : at[c] = "unborn"
  /\ \A p \in Procs :
       Accepted(p) => client[p] \in Conns \ pending /\ at[client[p]] = "unborn"
  /\ \A p, q \in Procs :
       Accepted(p) /\ Accepted(q) /\ client[p] = client[q] => p = q

IInv == TypeOK /\ ClientHeldByItsOwn /\ OneProcessEach

LEMMA InitInv == Init => IInv
  <1> SUFFICES ASSUME Init PROVE IInv
    OBVIOUS
  <1>1. Log!TypeOK
    BY LogInitInv DEF Init, LogInv
  <1>2. TypeOK
    BY <1>1 DEF Init, TypeOK, Procs, Root, Conns, Sockets, Ats, Ended
  <1>3. ClientHeldByItsOwn
    BY DEF Init, ClientHeldByItsOwn, Client, Proxy
  <1>4. OneProcessEach
    BY WorkersAssumption DEF Init, OneProcessEach, Accepted, Procs, Root, Conns
  <1>5. QED
    BY <1>2, <1>3, <1>4 DEF IInv

(* The end of a process closes all it holds; it and its zombies are gone.  *)
LEMMA OverKeeps ==
  ASSUME IInv, Log!TypeOK', NEW p \in Procs, Alive(p), Over(p)
  PROVE  IInv'
  <1>1. /\ UNCHANGED <<pending, client, parent>>
        /\ holds' = [holds EXCEPT ![p] = {}]
        /\ at' \in [Procs -> Ats]
        /\ \A q \in Procs :
             at'[q] = at[q] \/ (at[q] # "unborn" /\ at'[q] \in Ended)
        /\ at'[p] \in Ended
    BY DEF IInv, TypeOK, Over, Alive, Ats, Ended
  <1>2. TypeOK'
    BY <1>1 DEF IInv, TypeOK
  <1>3. ClientHeldByItsOwn'
    BY <1>1 DEF IInv, TypeOK, ClientHeldByItsOwn, Ended
  <1>4. OneProcessEach'
    BY <1>1 DEF IInv, TypeOK, OneProcessEach, Accepted, Ended, Procs
  <1>5. QED
    BY <1>2, <1>3, <1>4 DEF IInv

(* A step of a process that keeps its client and what it holds, and goes   *)
(* on serving.                                                             *)
LEMMA ServingKeeps ==
  ASSUME IInv, Log!TypeOK', NEW p \in Procs,
         NEW x \in Ats \ {"unborn", "accept", "reap", "fork"},
         at[p] \notin {"unborn", "accept", "reap", "fork"},
         at' = [at EXCEPT ![p] = x],
         UNCHANGED <<pending, client, parent>>,
         \/ holds' = holds
         \/ holds' = [holds EXCEPT ![p] = @ \cup {Server(p)}] /\ p \in Conns
  PROVE  IInv'
  <1>1. TypeOK /\ ClientHeldByItsOwn /\ OneProcessEach
    BY DEF IInv
  <1>2. at'[p] = x /\ \A q \in Procs \ {p} : at'[q] = at[q]
    BY <1>1 DEF TypeOK
  <1>3. at' \in [Procs -> Ats]
    BY <1>1 DEF TypeOK
  <1>4. /\ holds' \in [Procs -> SUBSET Sockets]
        /\ \A q \in Procs, c \in Conns :
             Client(c) \in holds'[q] => Client(c) \in holds[q]
    BY <1>1 DEF TypeOK, Sockets, Client, Server
  <1>5. TypeOK'
    BY <1>1, <1>3, <1>4 DEF TypeOK
  <1>6. ClientHeldByItsOwn'
    BY <1>1, <1>2, <1>4 DEF ClientHeldByItsOwn
  <1>7. OneProcessEach'
    BY <1>1, <1>2 DEF OneProcessEach, Accepted, TypeOK, Procs
  <1>8. QED
    BY <1>5, <1>6, <1>7 DEF IInv

LEMMA AcceptKeeps ==
  ASSUME IInv, Log!TypeOK', NEW p \in Procs, NEW c \in Conns, Accept(p, c)
  PROVE  IInv'
  <1>1. TypeOK /\ ClientHeldByItsOwn /\ OneProcessEach
    BY DEF IInv
  <1>2. /\ at[p] = "accept" /\ at' = [at EXCEPT ![p] = "reap"]
        /\ c \in pending /\ pending' = pending \ {c}
        /\ client' = [client EXCEPT ![p] = c]
        /\ holds' = [holds EXCEPT ![p] = @ \cup {Client(c)}]
        /\ UNCHANGED parent
    BY DEF Accept, Goto, Opens
  <1>3. /\ at'[p] = "reap" /\ \A q \in Procs \ {p} : at'[q] = at[q]
        /\ client'[p] = c /\ \A q \in Procs \ {p} : client'[q] = client[q]
        /\ holds'[p] = holds[p] \cup {Client(c)}
        /\ \A q \in Procs \ {p} : holds'[q] = holds[q]
        /\ c \in Procs /\ Client(c) \in Sockets
    BY <1>1, <1>2 DEF TypeOK, Procs, Sockets
  <1>4. TypeOK'
    BY <1>1, <1>2, <1>3 DEF TypeOK, Ats
  <1>5. ClientHeldByItsOwn'
    BY <1>1, <1>2, <1>3 DEF ClientHeldByItsOwn, Client
  <1>6. at[c] = "unborn" /\ c # p
    BY <1>1, <1>2 DEF OneProcessEach
  <1>7. OneProcessEach'
    BY <1>1, <1>2, <1>3, <1>6 DEF OneProcessEach, Accepted, TypeOK, Procs
  <1>8. QED
    BY <1>4, <1>5, <1>7 DEF IInv

(* waitpid (382) makes zombies go, whoever's connection they had.          *)
LEMMA ReapKeeps ==
  ASSUME IInv, Log!TypeOK', NEW p \in Procs, Reap(p) PROVE IInv'
  <1>1. TypeOK /\ ClientHeldByItsOwn /\ OneProcessEach
    BY DEF IInv
  <1>2. /\ at[p] = "reap" /\ at'[p] = "fork" /\ at' \in [Procs -> Ats]
        /\ \A q \in Procs \ {p} :
             at'[q] = at[q] \/ (at[q] = "zombie" /\ at'[q] = "gone")
        /\ UNCHANGED <<pending, client, holds, parent>>
    BY <1>1 DEF Reap, Zombies, TypeOK, Ats, Ended
  <1>3. TypeOK'
    BY <1>1, <1>2 DEF TypeOK
  <1>4. ClientHeldByItsOwn'
    BY <1>1, <1>2 DEF ClientHeldByItsOwn
  <1>5. OneProcessEach'
    BY <1>1, <1>2 DEF OneProcessEach, Accepted, TypeOK, Procs
  <1>6. QED
    BY <1>3, <1>4, <1>5 DEF IInv

(* fork makes the child of a connection for the first time, and gives it   *)
(* the client's descriptor and no other client's.                          *)
LEMMA ForkKeeps ==
  ASSUME IInv, Log!TypeOK', NEW p \in Procs, Fork(p) PROVE IInv'
  <1>1. TypeOK /\ ClientHeldByItsOwn /\ OneProcessEach
    BY DEF IInv
  <1>2. PICK c \in Conns \ pending : client[p] = c /\ at[c] = "unborn" /\ at[p] = "fork"
    BY <1>1 DEF OneProcessEach, Accepted, Fork
  <1>3. /\ at' = [at EXCEPT ![p] = "close", ![c] = "request"]
        /\ client' = [client EXCEPT ![c] = c]
        /\ holds' = [holds EXCEPT ![c] = holds[p]]
        /\ parent' = [parent EXCEPT ![c] = p]
        /\ UNCHANGED pending
    BY <1>2 DEF Fork
  <1>4. /\ c \in Procs /\ c # p
        /\ at'[p] = "close" /\ at'[c] = "request"
        /\ \A q \in Procs \ {p, c} : at'[q] = at[q]
        /\ client'[c] = c /\ \A q \in Procs \ {c} : client'[q] = client[q]
        /\ holds'[c] = holds[p] /\ \A q \in Procs \ {c} : holds'[q] = holds[q]
    BY <1>1, <1>2, <1>3 DEF TypeOK, Procs
  <1>5. TypeOK'
    BY <1>1, <1>3, <1>4 DEF TypeOK, Ats
  <1>6. ClientHeldByItsOwn'
    BY <1>1, <1>2, <1>4 DEF ClientHeldByItsOwn
  <1>7. OneProcessEach'
    BY <1>1, <1>2, <1>3, <1>4 DEF OneProcessEach, Accepted, TypeOK, Procs
  <1>8. QED
    BY <1>5, <1>6, <1>7 DEF IInv

(* After the close at 676 the process holds no client's descriptor.        *)
LEMMA CloseKeeps ==
  ASSUME IInv, Log!TypeOK', NEW p \in Procs, CloseClient(p) PROVE IInv'
  <1>1. TypeOK /\ ClientHeldByItsOwn /\ OneProcessEach
    BY DEF IInv
  <1>2. /\ at[p] = "close" /\ at' = [at EXCEPT ![p] = "accept"]
        /\ holds' = [holds EXCEPT ![p] = @ \ {Client(client[p])}]
        /\ UNCHANGED <<pending, client, parent>>
    BY DEF CloseClient, Goto
  <1>3. /\ at'[p] = "accept" /\ \A q \in Procs \ {p} : at'[q] = at[q]
        /\ holds'[p] = holds[p] \ {Client(client[p])}
        /\ \A q \in Procs \ {p} : holds'[q] = holds[q]
    BY <1>1, <1>2 DEF TypeOK
  <1>4. TypeOK'
    BY <1>1, <1>2, <1>3 DEF TypeOK, Ats
  <1>5. ClientHeldByItsOwn'
    BY <1>1, <1>2, <1>3 DEF ClientHeldByItsOwn
  <1>6. OneProcessEach'
    BY <1>1, <1>2, <1>3 DEF OneProcessEach, Accepted, TypeOK, Procs
  <1>7. QED
    BY <1>4, <1>5, <1>6 DEF IInv

(* A child that serves its request keeps, opens or closes its own only.    *)
LEMMA ServeKeeps ==
  ASSUME IInv, Log!TypeOK', NEW p \in Conns, Serve(p) \/ Killed(p) PROVE IInv'
  <1>1. p \in Procs /\ TypeOK
    BY DEF Procs, IInv
  <1>2. CASE \/ Refuse(p) \/ ServerFails(p) \/ OpenLogFails(p)
             \/ ConnectDone(p) \/ Killed(p)
    <2>1. Over(p) /\ Alive(p)
      BY <1>2 DEF Refuse, ServerFails, OpenLogFails, ConnectDone, Killed,
                  Logging, Alive, Ended
    <2>2. QED
      BY <1>1, <2>1, OverKeeps
  <1>3. CASE OpenServer(p) \/ Relayed(p) \/ GetDone(p)
    <2>1. /\ at[p] \notin {"unborn", "accept", "reap", "fork"}
          /\ \E x \in Ats \ {"unborn", "accept", "reap", "fork"} :
               at' = [at EXCEPT ![p] = x]
      BY <1>3 DEF OpenServer, Relayed, GetDone, Goto, Ats
    <2>2. /\ UNCHANGED <<pending, client, parent>>
          /\ \/ holds' = holds
             \/ holds' = [holds EXCEPT ![p] = @ \cup {Server(p)}]
      BY <1>3 DEF OpenServer, Relayed, GetDone, Opens
    <2>3. QED
      BY <1>1, <2>1, <2>2, ServingKeeps
  <1>4. CASE WriteLog(p)
    BY <1>4 DEF WriteLog, procs, IInv, TypeOK, ClientHeldByItsOwn,
                OneProcessEach, Accepted
  <1>5. QED
    BY <1>2, <1>3, <1>4 DEF Serve

LEMMA StepInv == IInv /\ [Next]_vars /\ Log!TypeOK' => IInv'
  <1> SUFFICES ASSUME IInv, [Next]_vars, Log!TypeOK' PROVE IInv'
    OBVIOUS
  <1>1. ASSUME NEW p \in Procs, ForkFails(p) \/ AcceptFails(p) PROVE IInv'
    <2>1. Over(p) /\ Alive(p)
      BY <1>1 DEF ForkFails, AcceptFails, Alive, Ended
    <2>2. QED
      BY <2>1, OverKeeps
  <1>2. ASSUME NEW p \in Procs, Loop(p) PROVE IInv'
    BY <1>1, <1>2, ReapKeeps, ForkKeeps, CloseKeeps DEF Loop
  <1>3. ASSUME NEW p \in Procs, NEW c \in Conns, Accept(p, c) PROVE IInv'
    BY <1>3, AcceptKeeps
  <1>4. ASSUME NEW p \in Conns, Serve(p) \/ Killed(p) PROVE IInv'
    BY <1>4, ServeKeeps
  <1>5. CASE UNCHANGED vars
    BY <1>5 DEF vars, procs, IInv, TypeOK, ClientHeldByItsOwn, OneProcessEach,
                Accepted
  <1>6. QED
    BY <1>1, <1>2, <1>3, <1>4, <1>5 DEF Next

(* The strengthened invariant of the processes holds always.               *)
THEOREM Invariance == Spec => []IInv
  <1>1. Spec => []LogInv
    BY ImplementsProcessLog, LogInvariance, PTL
  <1>2. LogInv => Log!TypeOK
    BY DEF LogInv
  <1>3. QED
    BY <1>1, <1>2, InitInv, StepInv, PTL DEF Spec

(* The connections, the processes and the log keep their types.            *)
THEOREM TypeCorrect == Spec => []TypeOK
  BY Invariance, PTL DEF IInv

(* A client's descriptor is open only in the process that accepted it, up  *)
(* to 676, and in the child forked for it, for any number of clients and   *)
(* however deep the tree of children that accept and fork.                 *)
THEOREM NoForeignClient == Spec => []ClientHeldByItsOwn
  BY Invariance, PTL DEF IInv

\* The child of a connection, once it is past its request, never has it again,
\* and a child that ended stays ended.
NeverServedAgain ==
  \A c \in Conns :
    /\ at[c] \notin {"unborn", "request"} => at'[c] # "request"
    /\ at[c] \in Ended => at'[c] \in Ended

(* No connection is served twice, although every child that relayed a GET  *)
(* goes back to accept (676, 378): fork (392) is reached for a connection  *)
(* by one process and once.                                                *)
THEOREM ServedOnce == Spec => [][NeverServedAgain]_vars
  <1>1. IInv /\ [Next]_vars => [NeverServedAgain]_vars
    <2> SUFFICES ASSUME IInv, Next PROVE NeverServedAgain
      BY DEF vars
    <2>1. ASSUME NEW p \in Procs, Over(p), Alive(p) PROVE NeverServedAgain
      <3>1. \A q \in Procs : at'[q] = at[q] \/ at'[q] \in Ended
        BY <2>1 DEF Over, Ended, IInv, TypeOK
      <3>2. QED
        BY <3>1 DEF NeverServedAgain, Ended, Procs
    <2>2. ASSUME NEW p \in Procs,
                 NEW x \in Ats \ {"request"} , at[p] \notin Ended, at' = [at EXCEPT ![p] = x]
          PROVE  NeverServedAgain
      <3>1. at'[p] = x /\ \A q \in Procs \ {p} : at'[q] = at[q]
        BY <2>2 DEF IInv, TypeOK
      <3>2. QED
        BY <2>2, <3>1 DEF NeverServedAgain, Procs
    <2>3. ASSUME NEW p \in Procs, Loop(p) \/ AcceptFails(p) PROVE NeverServedAgain
      <3>1. CASE ForkFails(p) \/ AcceptFails(p)
        BY <2>1, <3>1 DEF ForkFails, AcceptFails, Alive, Ended
      <3>2. CASE CloseClient(p)
        BY <2>2, <3>2 DEF CloseClient, Goto, Ats, Ended
      <3>3. CASE Reap(p)
        <4>1. at[p] = "reap" /\ at'[p] = "fork"
          BY <3>3 DEF Reap
        <4>2. \A q \in Procs \ {p} : at'[q] = at[q] \/ (at[q] = "zombie" /\ at'[q] = "gone")
          BY <3>3 DEF Reap, Zombies
        <4>3. QED
          BY <4>1, <4>2 DEF NeverServedAgain, Procs, Ended
      <3>4. CASE Fork(p)
        <4>1. client[p] \in Procs /\ at[client[p]] = "unborn" /\ at[p] = "fork"
          BY <3>4 DEF Fork, IInv, OneProcessEach, Accepted, Procs
        <4>2. /\ at'[p] = "close"
              /\ \A q \in Procs \ {p, client[p]} : at'[q] = at[q]
          BY <3>4, <4>1 DEF Fork, IInv, TypeOK
        <4>3. QED
          BY <4>1, <4>2 DEF NeverServedAgain, Procs, Ended
      <3>5. QED
        BY <2>3, <3>1, <3>2, <3>3, <3>4 DEF Loop
    <2>4. ASSUME NEW p \in Procs, NEW c \in Conns, Accept(p, c) PROVE NeverServedAgain
      BY <2>2, <2>4 DEF Accept, Goto, Ats, Ended
    <2>5. ASSUME NEW p \in Conns, Serve(p) \/ Killed(p) PROVE NeverServedAgain
      <3>1. p \in Procs
        BY DEF Procs
      <3>2. CASE \/ Refuse(p) \/ ServerFails(p) \/ OpenLogFails(p)
                 \/ ConnectDone(p) \/ Killed(p)
        BY <2>1, <3>1, <3>2 DEF Refuse, ServerFails, OpenLogFails, ConnectDone,
           Killed, Logging, Alive, Ended
      <3>3. CASE OpenServer(p) \/ Relayed(p) \/ GetDone(p)
        BY <2>2, <3>1, <3>3 DEF OpenServer, Relayed, GetDone, Goto, Ats, Ended
      <3>4. CASE WriteLog(p)
        BY <3>4 DEF WriteLog, procs, NeverServedAgain
      <3>5. QED
        BY <2>5, <3>2, <3>3, <3>4 DEF Serve
    <2>6. QED
      BY <2>3, <2>4, <2>5 DEF Next
  <1>2. QED
    BY <1>1, Invariance, PTL DEF Spec

=============================================================================
