------------------------------ MODULE Channels ------------------------------
(***************************************************************************)
(* The programs that send messages through the kernel: the pipe, FIFO,     *)
(* popen and message queue examples of ipc_code, and Homework1, in which   *)
(* children send their partial sums to the parent.  A process is the       *)
(* sequence of the calls it makes, each on one channel; when they are over *)
(* it exits, which closes its ends.  Process 0 forks the others or, in the *)
(* programs that share a name only, all are started on their own.          *)
(*                                                                         *)
(* A channel has a read and a write end, each held by a set of processes;  *)
(* a fork shares those of the parent.  A message is its sender and a       *)
(* number, and is written whole.  Making a pipe does not fail.             *)
(***************************************************************************)
EXTENDS Integers, Sequences, FiniteSets

CONSTANTS
  Children,   \* numProcesses of Homework1
  Messages,   \* the messages that pipe.c and popen.c write
  Requests,   \* num of a client of the FIFO; another may leave it at 1
  Room        \* messages that a channel holds; those of Homework1 fit

Times(n, calls) == [i \in 1..(n * Len(calls)) |-> calls[((i - 1) % Len(calls)) + 1]]

-----------------------------------------------------------------------------
(* The programs. "read" takes all there is, "read_one" one message, and    *)
(* "read_all" reads until there is no more.                                *)

\* Mutated form: the first answer is taken for all of them.
PipeParentReadsOnce ==
  << <<"fork", 1>>, <<"close_w", "fds">>, <<"read", "fds">>, <<"close_r", "fds">>,
     <<"close_r", "fds2">>, <<"write", "fds2">>, <<"close_w", "fds2">>, <<"wait", 1>> >>

PipeParent ==
  << <<"fork", 1>>, <<"close_w", "fds">>, <<"read_all", "fds">>, <<"close_r", "fds">>,
     <<"close_r", "fds2">>, <<"write", "fds2">>, <<"close_w", "fds2">>, <<"wait", 1>> >>

PipeChild ==
  << <<"close_r", "fds">> >> \o Times(Messages, << <<"write", "fds">> >>)
    \o << <<"close_w", "fds">>, <<"close_w", "fds2">>, <<"read", "fds2">>,
          <<"close_r", "fds2">> >>

\* popen and pclose, and sort
PopenParent ==
  << <<"fork_or_exit", 1>>, <<"close_r", "fds">> >>
    \o Times(Messages, << <<"write", "fds">> >>)
    \o << <<"close_w", "fds">>, <<"wait", 1>> >>

Sort == << <<"close_w", "fds">>, <<"read_all", "fds">> >>

Forks == [i \in 1..Children |-> <<"fork_or_exit", i>>]

\* Mutated form: the parent keeps the write end.
SumParentKeepsEnd ==
  Forks \o << <<"wait", Children>> >>
    \o Times(Children, << <<"read_one", "fds">> >>) \o << <<"close_r", "fds">> >>

SumParent ==
  Forks \o << <<"wait", Children>>, <<"close_w", "fds">> >>
    \o Times(Children, << <<"read_one", "fds">> >>) \o << <<"close_r", "fds">> >>

SumChild == << <<"close_r", "fds">>, <<"write", "fds">>, <<"close_w", "fds">> >>

FifoServer ==
  << <<"create", "c2s">>, <<"create", "s2c">>, <<"open_r", "c2s">>, <<"open_w", "s2c">>,
     <<"receive", "c2s">>, <<"respond", "s2c">>, <<"close_r", "c2s">>, <<"close_w", "s2c">>,
     <<"unlink", "c2s">>, <<"unlink", "s2c">> >>

FifoClient(num) ==
  << <<"open_w", "c2s">>, <<"open_r", "s2c">> >>
    \o Times(num, << <<"write", "c2s">>, <<"read", "s2c">> >>)
    \o << <<"close_w", "c2s">>, <<"close_r", "s2c">> >>

QueueSender == << <<"create", "mq">>, <<"send", "mq">>, <<"close_w", "mq">> >>

QueueReceiver ==
  << <<"find_or_exit", "mq">>, <<"take", "mq">>, <<"close_r", "mq">>, <<"unlink", "mq">> >>

\* The calls of each process, those that are forked, and the pipes there are
Pipe == [code |-> [p \in 0..1 |-> IF p = 0 THEN PipeParent ELSE PipeChild],
         forked |-> {1}, pipes |-> {"fds", "fds2"}]
Popen == [code |-> [p \in 0..1 |-> IF p = 0 THEN PopenParent ELSE Sort],
          forked |-> {1}, pipes |-> {"fds"}]
Sums == [code |-> [p \in 0..Children |-> IF p = 0 THEN SumParent ELSE SumChild],
         forked |-> 1..Children, pipes |-> {"fds"}]
Fifo == [code |-> [p \in 0..1 |-> IF p = 0 THEN FifoServer ELSE FifoClient(Requests)],
         forked |-> {}, pipes |-> {}]
FifoOfTwo == [code |-> [p \in 0..2 |-> CASE p = 0 -> FifoServer
                                        [] p = 1 -> FifoClient(Requests)
                                        [] p = 2 -> FifoClient(1)],
              forked |-> {}, pipes |-> {}]
Queue == [code |-> [p \in 0..1 |-> IF p = 0 THEN QueueReceiver ELSE QueueSender],
          forked |-> {}, pipes |-> {}]

Programs == {Pipe, Popen, Sums, Fifo, FifoOfTwo, Queue}
Named == {"c2s", "s2c", "mq"}
Channels == {"fds", "fds2"} \cup Named

-----------------------------------------------------------------------------
VARIABLES
  program,   \* the program that runs
  pc,        \* which of its calls each process makes next
  state,     \* whether it runs, waits in open, or how it ended
  there,     \* the names that exist
  readers, writers,   \* who holds an end of each channel
  content,   \* the messages in it
  sent,      \* how many messages each process has written
  got        \* the messages it has read

held == <<readers, writers>>
data == <<content, sent, got>>
vars == <<program, pc, state, there, held, data>>

Processes == DOMAIN program.code

\* An earlier run of the FIFO's server may have left the names behind.
Init ==
  /\ program \in Programs
  /\ pc = [p \in Processes |-> 1]
  /\ state = [p \in Processes |-> IF p \in program.forked THEN "absent" ELSE "running"]
  /\ there \in (IF program \in {Fifo, FifoOfTwo} THEN SUBSET {"c2s", "s2c"} ELSE {{}})
  /\ readers = [ch \in Channels |-> IF ch \in program.pipes THEN {0} ELSE {}]
  /\ writers = readers
  /\ content = [ch \in Channels |-> <<>>]
  /\ sent = [p \in Processes |-> 0]
  /\ got = [p \in Processes |-> <<>>]

Calls(p, call, x) ==
  /\ state[p] = "running"
  /\ pc[p] \in DOMAIN program.code[p] /\ program.code[p][pc[p]] = <<call, x>>

Return(p) ==
  /\ pc' = [pc EXCEPT ![p] = @ + 1]
  /\ UNCHANGED <<program, state>>

Ended(p) == state[p] \in {"exited", "failed", "killed"}

\* What is left in a channel that nobody holds is gone, except in a queue.
Drop(r, w) ==
  content' = [ch \in Channels |->
                IF ch # "mq" /\ r[ch] = {} /\ w[ch] = {} THEN <<>> ELSE content[ch]]

Leave(p, how) ==
  /\ state' = [state EXCEPT ![p] = how]
  /\ readers' = [ch \in Channels |-> readers[ch] \ {p}]
  /\ writers' = [ch \in Channels |-> writers[ch] \ {p}]
  /\ Drop(readers', writers')
  /\ UNCHANGED <<program, pc, there, sent, got>>

-----------------------------------------------------------------------------
(* Processes                                                               *)

Fork(p) ==
  /\ \E c \in program.forked :
       /\ Calls(p, "fork", c) \/ Calls(p, "fork_or_exit", c)
       /\ state' = [state EXCEPT ![c] = "running"]
       /\ readers' = [ch \in Channels |->
                        IF p \in readers[ch] THEN readers[ch] \cup {c} ELSE readers[ch]]
       /\ writers' = [ch \in Channels |->
                        IF p \in writers[ch] THEN writers[ch] \cup {c} ELSE writers[ch]]
  /\ pc' = [pc EXCEPT ![p] = @ + 1]
  /\ UNCHANGED <<program, there, data>>

\* pipe.c takes -1 for the number of a child.
ForkFails(p) ==
  \E c \in program.forked :
    \/ Calls(p, "fork", c) /\ Return(p) /\ UNCHANGED <<there, held, data>>
    \/ Calls(p, "fork_or_exit", c) /\ Leave(p, "failed")

Wait(p) ==
  /\ \E c \in program.forked : Calls(p, "wait", c)
  /\ \A c \in program.forked : state[c] = "absent" \/ Ended(c)
  /\ Return(p)
  /\ UNCHANGED <<there, held, data>>

Exit(p) ==
  /\ state[p] = "running" /\ pc[p] > Len(program.code[p])
  /\ Leave(p, "exited")

\* A signal ends a process, wherever it is.
Kill(p) == state[p] \in {"running", "opening"} /\ Leave(p, "killed")

-----------------------------------------------------------------------------
(* Names                                                                   *)

\* mkfifo, which accepts a name that exists; mq_open with O_CREAT
Create(p) ==
  /\ \E ch \in Named :
       /\ Calls(p, "create", ch)
       /\ there' = there \cup {ch}
       /\ writers' = IF ch = "mq" THEN [writers EXCEPT ![ch] = @ \cup {p}] ELSE writers
  /\ Return(p)
  /\ UNCHANGED <<readers, data>>

Unlink(p) ==
  /\ \E ch \in Named :
       /\ Calls(p, "unlink", ch)
       /\ there' = there \ {ch}
  /\ Return(p)
  /\ UNCHANGED <<held, data>>

\* open of a FIFO takes its end at once, and returns when the other end is
\* or was held by somebody: who waits for that is let go.
OpenEnd(p, ch, other) ==
  LET waiting == {q \in other :
                    state[q] = "opening" /\ program.code[q][pc[q]][2] = ch}
  IN /\ state' = [q \in Processes |->
                    CASE q \in waiting -> "running"
                      [] q = p /\ other = {} -> "opening"
                      [] OTHER -> state[q]]
     /\ pc' = [q \in Processes |->
                 IF q \in waiting \/ (q = p /\ other # {}) THEN pc[q] + 1 ELSE pc[q]]

Open(p) ==
  /\ \E ch \in there :
       \/ /\ Calls(p, "open_r", ch)
          /\ readers' = [readers EXCEPT ![ch] = @ \cup {p}]
          /\ OpenEnd(p, ch, writers[ch]) /\ UNCHANGED writers
       \/ /\ Calls(p, "open_w", ch)
          /\ writers' = [writers EXCEPT ![ch] = @ \cup {p}]
          /\ OpenEnd(p, ch, readers[ch]) /\ UNCHANGED readers
  /\ UNCHANGED <<program, there, data>>

\* open returns -1, which the programs do not see: they look for 0.
OpenFails(p) ==
  /\ \E ch \in Named \ there : Calls(p, "open_r", ch) \/ Calls(p, "open_w", ch)
  /\ Return(p)
  /\ UNCHANGED <<there, held, data>>

\* mq_open of the receiver
Find(p) ==
  /\ Calls(p, "find_or_exit", "mq")
  /\ IF "mq" \in there
     THEN /\ readers' = [readers EXCEPT !["mq"] = @ \cup {p}]
          /\ Return(p) /\ UNCHANGED <<there, writers, data>>
     ELSE Leave(p, "failed")

Close(p) ==
  /\ \E ch \in Channels :
       \/ /\ Calls(p, "close_r", ch)
          /\ readers' = [readers EXCEPT ![ch] = @ \ {p}] /\ UNCHANGED writers
       \/ /\ Calls(p, "close_w", ch)
          /\ writers' = [writers EXCEPT ![ch] = @ \ {p}] /\ UNCHANGED readers
  /\ Drop(readers', writers')
  /\ Return(p)
  /\ UNCHANGED <<there, sent, got>>

-----------------------------------------------------------------------------
(* Messages                                                                *)

CallsWrite(p, ch) == \E call \in {"write", "respond", "send"} : Calls(p, call, ch)

\* After its answer the server is back at its read.
Written(p) ==
  /\ pc' = [pc EXCEPT ![p] = IF program.code[p][@][1] = "respond" THEN @ - 1 ELSE @ + 1]
  /\ UNCHANGED <<program, state, there, held, got>>

Write(p) ==
  \E ch \in Channels :
    /\ CallsWrite(p, ch)
    /\ p \in writers[ch] /\ (readers[ch] # {} \/ ch = "mq")
    /\ Len(content[ch]) < Room
    /\ content' = [content EXCEPT ![ch] = Append(@, <<p, sent[p] + 1>>)]
    /\ sent' = [sent EXCEPT ![p] = @ + 1]
    /\ Written(p)

\* SIGPIPE
WriteToNobody(p) ==
  \E ch \in Channels \ {"mq"} :
    /\ CallsWrite(p, ch)
    /\ p \in writers[ch] /\ readers[ch] = {}
    /\ Leave(p, "killed")

\* write to the descriptor -1
WriteFails(p) ==
  /\ \E ch \in Channels : CallsWrite(p, ch) /\ p \notin writers[ch]
  /\ Written(p)
  /\ UNCHANGED <<content, sent>>

ReadCalls == {"read", "read_one", "read_all", "receive", "take"}
CallsRead(p, ch) == \E call \in ReadCalls : Calls(p, call, ch)

Read(p) ==
  \E ch \in Channels :
    /\ CallsRead(p, ch) /\ p \in readers[ch]
    /\ content[ch] # <<>>
    /\ LET one == Calls(p, "read_one", ch) \/ Calls(p, "take", ch)
       IN /\ got' = [got EXCEPT ![p] = @ \o (IF one THEN <<Head(content[ch])>> ELSE content[ch])]
          /\ content' = [content EXCEPT ![ch] = IF one THEN Tail(@) ELSE <<>>]
    /\ pc' = [pc EXCEPT ![p] = IF Calls(p, "read_all", ch) THEN @ ELSE @ + 1]
    /\ UNCHANGED <<program, state, there, held, sent>>

Nothing == <<0, 0>>

\* read returns 0.  The sum's parent does not look: it adds what it had read
\* last, or what was in curr, once more.  The server leaves its loop.
ReadEnd(p) ==
  \E ch \in Channels \ {"mq"} :
    /\ CallsRead(p, ch) /\ p \in readers[ch]
    /\ content[ch] = <<>> /\ writers[ch] = {}
    /\ got' = IF ~Calls(p, "read_one", ch) THEN got
              ELSE [got EXCEPT ![p] = Append(@, IF @ = <<>> THEN Nothing ELSE @[Len(@)])]
    /\ pc' = [pc EXCEPT ![p] = IF Calls(p, "receive", ch) THEN @ + 2 ELSE @ + 1]
    /\ UNCHANGED <<program, state, there, held, content, sent>>

\* read from the descriptor -1: the client writes before its buffer.
ReadFails(p) ==
  /\ \E ch \in Channels : CallsRead(p, ch) /\ p \notin readers[ch]
  /\ Return(p)
  /\ UNCHANGED <<there, held, data>>

-----------------------------------------------------------------------------
Step(p) ==
  \/ Fork(p) \/ Wait(p) \/ Exit(p) \/ Create(p) \/ Unlink(p) \/ Open(p) \/ OpenFails(p)
  \/ Find(p) \/ Close(p) \/ Write(p) \/ WriteToNobody(p) \/ WriteFails(p)
  \/ Read(p) \/ ReadEnd(p) \/ ReadFails(p)

Next == \E p \in Processes : Step(p) \/ ForkFails(p) \/ Kill(p)

Spec == Init /\ [][Next]_vars

Everyone == UNION {DOMAIN q.code : q \in Programs}

\* Every process is scheduled.
FairSpec == Spec /\ \A p \in Everyone : WF_vars(p \in Processes /\ Step(p))

-----------------------------------------------------------------------------
(* Type correctness: the processes, who holds the ends, and the messages.  *)
TypeOK ==
  /\ program \in Programs
  /\ pc \in [Processes -> Nat \ {0}]
  /\ state \in [Processes -> {"absent", "running", "opening", "exited", "failed", "killed"}]
  /\ there \subseteq Named
  /\ readers \in [Channels -> SUBSET Processes]
  /\ writers \in [Channels -> SUBSET Processes]
  /\ content \in [Channels -> Seq(Processes \X Nat)]
  /\ sent \in [Processes -> Nat]
  /\ got \in [Processes -> Seq(Processes \X Nat)]

Sent == UNION {{<<p, k>> : k \in 1..sent[p]} : p \in Processes}
Reads == UNION {{<<p, i>> : i \in DOMAIN got[p]} : p \in Processes}

Got == {got[r[1]][r[2]] : r \in Reads}

\* A client that opened the FIFO when the server had read its end: with one
\* request to make it does not notice.
CameLate(p) == program = FifoOfTwo /\ p # 0 /\ got[p] = <<>>

(* If all processes run to their end, every message written was read, once *)
(* and in the order of its sender: the parent adds each part, pipe.c, sort *)
(* and the server have seen all there is when read returns 0, but for what *)
(* a client writes to the server's FIFO later.                             *)
NothingLost ==
  (\A p \in Processes : state[p] = "exited") =>
    /\ Got \subseteq Sent /\ \A m \in Sent \ Got : CameLate(m[1])
    /\ Cardinality(Got) = Cardinality(Reads)
    /\ \A p \in Processes : \A i, j \in DOMAIN got[p] :
         i < j /\ got[p][i][1] = got[p][j][1] => got[p][i][2] < got[p][j][2]

\* open waits for a peer, which may never come, and mq_receive for a message.
Over(p) ==
  state[p] \in {"absent", "opening"} \/ Ended(p) \/ Calls(p, "take", "mq")

\* Both clients read from one FIFO, and the answer to one went to the other.
AwaitsAnswer ==
  /\ program = FifoOfTwo
  /\ \E p \in {1, 2} : Calls(p, "read", "s2c") /\ content["s2c"] = <<>>
  /\ Calls(0, "receive", "c2s") /\ content["c2s"] = <<>>

(* ipc_code/fifo/server.c 12, "reads message and writes response": a       *)
(* client that has written and run to its end has read a response.         *)
RequestsAnswered ==
  program \in {Fifo, FifoOfTwo} /\ (\A p \in Processes : state[p] = "exited") =>
    \A p \in Processes : p # 0 /\ sent[p] > 0 => got[p] # <<>>

(* All processes end, even if one is killed or a fork fails: every end     *)
(* that would keep a reader waiting is closed.                             *)
ProcessesEnd ==
  <>[](\A p \in Processes : Over(p)) \/ <>[]AwaitsAnswer

=============================================================================
