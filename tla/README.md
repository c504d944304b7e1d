# ECE456 network programs: models and proofs

The repository holds the programs of a course on network-centric programming: two proxies (assignments 2 and 3), a producer/consumer program (homework 2), and some ninety small programs that go with the lectures.
This directory holds TLA+ models of those that have behaviour worth checking, the TLC configurations that check them on small instances, and theorems about them that TLAPS checks for every value of the constants.

Every definition is read off the C source. A module's header and the comments on its actions name the lines; `PROJECT.json` ("map") lists them all, and also the components, runs, mutants, hazards, findings and theorems.

Paths below are relative to the repository. "A2" is `Assignment2/jwh139-proxy/proxy.c`, "A3" is `Assignment3/jwh139-concurrent-proxy/proxy.c`; a bare line number in a section on one of them is a line of that file.

    tlc -workers 2 -config MCGetRelay.cfg MCGetRelay      one run
    tlapm GetRelayProofs.tla                              the proofs of one module

## The system

### The concurrent proxy (A3)

One program with two versions of its service, chosen at the command line (319-346).
`main` listens (348-372) and loops: accept (377), then

* **thread version**: fill one `clinfo` on main's stack (385-387) and create a thread with its address (389); `thread_handle` (34-289) copies it, reads the request, serves a GET (87-187) or a CONNECT (189-288), logs, closes its descriptors and returns;
* **process version**: reap children with `waitpid(WNOHANG)` (382), fork (394); the child serves a GET (454-557) or a CONNECT (558-673), logs, and after a CONNECT exits; the parent closes the client's descriptor (676) and loops.

| Part | State | Operations | Hard about it |
|---|---|---|---|
| log writing, process version | `proxy.log`, its `fcntl` lock, each child's offset | open, lock, seek to end, write, unlock, close (518-541, 639-662) | children interleave; one is killed while holding the lock; the file may not exist |
| log writing, thread version | `proxy.log`, `log_mutex`, localtime's one `struct tm`, each `FILE`'s buffer | fopen, lock, format, fprintf, unlock, fclose (152-168, 264-280) | the write happens in fclose, after the unlock; main's exit or SIGPIPE ends every thread |
| GET relay | the first buffer, the length found in it, the total | first read, decide, read the rest, log (125-150, 491-516) | TCP delivers any number of bytes; the head may not end in the first buffer; resets |
| CONNECT tunnel | two sockets, revents, totals in both directions | greet, poll with timeout, read, write, log (215-283, 590-667) | two senders, blocking writes, hang-ups, SIGPIPE, counters |
| request rewriting | the request, the request to send | absolute to relative URL, keep-alive to close (98-114, 463-479) | where the matched line stands, and no match |
| thread version as a whole | the descriptor table, clinfo, threads | accept, create, the ways thread_handle returns | the shared clinfo, descriptors closed in each path, failures |
| process version as a whole | the process tree, every process's descriptors | accept, reap, fork, the ways a child ends | a child that goes on to accept; who still holds the client's socket |

The parts interact as follows. Thread and process versions share no state with each other but call the same helpers; every connection goes through the relay or the tunnel, then through the log. The log is the only state that connections share in the process version; in the thread version they also share descriptors, clinfo, `struct tm` and the end of the process.

### The sequential proxy (A2)

`main` accepts one connection at a time (63-215): it reads a request, accepts only GET (89), looks the host up and connects, sends the rewritten request (140-166), relays the response, appends a line to the log, closes the client. Any error on the way that it looks for is an `exit`; the results of writing the log (207-208) are not looked at, and an entry that could not be written is missing. State: its descriptors (the server's is never closed), the log, the request in hand. What is hard: what exactly is sent, whether the server will close after it (on which the relay waits), and that each request uses up a descriptor.

### Homework 2, level 3

`Homework2/level3.c`: a producer puts 1..N into a circular buffer, any number of consumers take them and add up the squares, main prints the sum. Two semaphores, one mutex, a counter that main reads without the mutex.

### Lecture programs with concurrency or a network

* **UDP echo** (`Lecture10/udp_echo_server*`): a client sends a line and takes whatever datagram comes next for its answer; it waits without a timeout, with SIGALRM, with select, or with SO_RCVTIMEO. What is hard: lost and late datagrams, a timeout that comes too early.
* **TCP servers** (`Lecture5/daytime`, `Lecture6/multipleclient`, `Lecture6/webserver`, `Lecture7/concurrent_server`, `Lecture8/concurrent_server_thread`): one connection after the other, or a child or thread for each, with clients that hold two connections at once. What is hard: clients that stay idle, descriptors that leak, buffers that keep what they held.
* **One exchange** (`Lecture4` to `Lecture6`: hellomsg, morehello, v6hello, daytime, readnbytes and others): a client and a server that each read and write once or twice and exit. What is hard: who reads first, what an exit leaves unread, short reads of a file, one side killed.
* **Critical sections** (`ipc_code/*_semaphore` and `shared_memory`, `Lecture7`/`8` lockfile, lock_unlock, mutex, non_mutex, race_condition): two processes or threads that print, count or append in turns. What is hard: a process killed inside, a semaphore that outlives its program or is initialised again, waiters that are not woken, and what happens without the lock.
* **A queue with a condition variable** (`Lecture9/cond_variable`): producers append to a linked list, a consumer takes from its head and sleeps while it is empty, and `stop` tells it to end. What is hard: the one signal of `stop`, sent without the mutex; spurious wakeups; a producer that follows links while messages are freed.
* **Partial sums** (`Homework1/main.c`, `Homework2/main.c`): 1..n is split among processes, which send their sums through a pipe, or among threads, which add to one sum. What is hard: ranges when the division leaves a rest; who holds the pipe's write end; a child that was killed.
* **Channels** (`ipc_code` pipe, fifo, popen, messsage_queue; the pipe of Homework1): processes that pass messages through the kernel. What is hard: which process holds which end, and so who reads an end of file; SIGPIPE; FIFOs whose peer never comes; two clients on one FIFO.
* **Forks and joins** (`Lecture7` printorder, fork_example, zombie_process, wait_example, fork_and_exec; `Lecture8/pthread_*`): they print and wait for each other. What is hard: the buffer of stdout, which fork copies.
* **Substring counter** (`Assignment1/jwh139-p01/p01.c`): reads a file, whose length it has looked up before, and counts occurrences. What is hard: the file changes meanwhile; overlaps and the last place; the length as an int.
* The rest is listed under "Not modelled".

## Modules

| Module | Models | Abstract or composed |
|---|---|---|
| `LogEntries` | what an entry is: a sequence of cells, each with its author and position | used by all log modules |
| `AppendLog` | the promise of the log: entries are appended whole, each at most once | abstract specification |
| `ProcessLog` | 518-541 and 639-662, `format_log_entry` as one entry | refines `AppendLog` |
| `ThreadLog` | 152-168, 264-280, and localtime's buffer at 700 | refines `AppendLog` |
| `ThreadProxy` | main 374-391, `thread_handle` 34-289 | composes `ThreadLog` |
| `ProcessProxy` | main 374-382, 392-398, 676, the child 399-675 | composes `ProcessLog` |
| `GetRelay` | 125-150, 491-516 with the log's total | |
| `ConnectTunnel` | 215-283, 590-667 with the log's totals | |
| `RequestRewrite` | A2 140-156, A3 98-114, 463-479, as operators | used by `SequentialProxy` |
| `SequentialProxy` | A2 main | composes `RequestRewrite` |
| `BoundedBuffer` | `Homework2/level3.c` | |
| `UdpEcho` | the Lecture10 clients and servers | one variable chooses the kind of each client |
| `TcpServers` | the Lecture5-8 servers and clients | variables choose the kinds |
| `TcpExchange` | eleven pairs of clients and servers of Lecture4-6 | a program is a constant sequence of calls; one variable chooses the pair |
| `CriticalSections` | the two-process and two-thread programs of ipc_code, Lecture7 and 8 | a program is a lock and two sequences of calls; one variable chooses it |
| `CondQueue` | `Lecture9/cond_variable/main.c` | |
| `PartialSums` | `Homework2/main.c`; its ranges are those of `Homework1/main.c` too | |
| `Channels` | `ipc_code` pipe, fifo, popen, messsage_queue; `Homework1/main.c` | a program is the sequence of calls of each process; one variable chooses it |
| `ForkExamples` | `Lecture7` and `Lecture8` fork, exec, wait and join examples | in the same way |
| `SubstringCount` | `Assignment1/jwh139-p01/p01.c` | |
| `*Proofs` | theorems and their lemmas | extend the module they are about |
| `MC*` | constants of the TLC runs | extend the module they check |

`MCCriticalSections` checks `CriticalSections`, `CondQueue`, `PartialSums`, `ForkExamples` and `BoundedBuffer` in one run, `MCTcpExchange` does so with `TcpExchange`, `TcpServers`, `Channels` and `SubstringCount`. These systems never meet, so nothing is composed: the first state chooses one (`suite`), only its actions are taken, the variables of the others stay at one initial value, and each liveness property carries `suite = ... =>`. What TLC explores is the disjoint sum of their state graphs.

### How state and actions correspond to the code

An action is one stretch of a program between two points at which another actor can interfere: a system call, a lock operation, an access to shared memory. The variable `pc` (or `at`, `main.at`) says which statement comes next; the names of its values and of the actions are those of the calls (`Accept`, `Fork`, `Lock`, `Seek`, `Write`, `Fclose`). Where a call may fail, its failure is an action of its own, or a disjunct, which does what the code does then: ignore it, close and return, or exit. Not modelled are the failures of `pthread_create`, `malloc` and the semaphore and mutex calls in `CondQueue` and `BoundedBuffer`, of the calls that set up or take a lock in `CriticalSections`, and of its forks and `pthread_create`s: with one worker there is no section to speak of.

* **ProcessLog.** `file` is a sequence of cells. `Seek` sets a child's `offset` to the file's length, `Write` puts its entry there, over anything that has come between. `lock` is the fcntl lock: the kernel drops it when its holder dies (`Kill`) or closes the file. `present` says whether `proxy.log` exists: 520 opens without `O_CREAT`, so with no file no child ever logs (`OpenFails`).
* **ThreadLog.** `buf` is a stream's buffer: `PrintEntry` fills it, `Fclose` appends it with `O_APPEND`, unless that write fails, which nobody notices. `tm` is the author of the time in localtime's buffer. `process` is the whole process: `Sigpipe` ends it at once, `Exit` begins main's exit, which flushes the streams one by one while threads still run.
* **ThreadProxy.** `fds` maps each descriptor to what it refers to; the lowest free one is taken, as POSIX says, so that a number closed twice would hit its next owner. `slot` is main's clinfo and `copy` a thread's own. `overwritten` is history: main has written to the clinfo while a created thread had not finished copying it. `todo` is the list of descriptors a return path closes, in the code's order.
* **ProcessProxy.** `holds[p]` is the set of sockets open in process p; fork copies it. A connection ends for the client when no process holds it.
* **GetRelay.** `response` fixes the length of head and body, where Content-Length stands, and whether the server closes; `sent`, `taken`, `delivered`, `total` count bytes. A read returns what is there, up to its size, and the server sends in pieces of any size. The results of the writes are ignored: the first one after a reset by the client (`client = "reset"`) returns ECONNRESET, and its bytes are counted all the same; one on a connection that has reported its reset (`"dead"`), or that the client had closed before, ends the process by SIGPIPE. If the head does not end in the first buffer, `strstr` at 141 returns NULL, and `remaining` is the difference of unrelated addresses: any member of `GarbageLens`.
* **ConnectTunnel.** Per side: whether the peer is open, has closed or has reset; bytes `sent`, read (`total`), `written`, and received by the other peer (`got`). `revents` is what poll reported, and stays as it is while one side is served after the other. A write blocks while the receiver holds `Room` bytes.
* **SequentialProxy and RequestRewrite.** A request is a sequence of lines, a line a name and a value. `strstr` for `Connection: keep-alive` also matches within `Proxy-Connection: keep-alive` (`Matches`). The path without a match copies over the line written before (153) and so sends no first line. `unlogged` is history: the connections whose entry could not be written.
* **BoundedBuffer.** One variable per global of level3.c; `producer.i` is the loop's variable, `main.sum` what main reads at 127.
* **UdpEcho.** `srvq` and `cliq` are the sockets' queues; a datagram that finds its queue full or its socket missing is lost. `timer` says that an alarm is pending; `EnterReceive` is the moment between `alarm(5)` and the wait in recvfrom, before which a signal is spent. `timeouts` counts.
* **TcpServers.** `held[s]` says who has the connection's descriptor open; a connection closes when nobody does, with a reset if a message is unread. `buffer` is what each handler's buffer holds, by socket.

* **TcpExchange.** The programs differ only in the order of their calls and in what they do when one fails, so each is a constant, `HelloServer == <<"accept", "read", "write">>`, and the actions say what a call does to the connection. `wrote` and `got` count bytes; a message of the small programs arrives whole, the file of `readnbytes` (`ReadPiece`, `held`, `stored`) arrives in pieces of any size. `Leave` is the end of a program, which closes its end of the connection, by a reset if bytes are unread (`Refuses`). A server that loops is modelled for one client; more are the subject of `TcpServers`.
* **CriticalSections.** In the same way `program` gives the calls of A and B. `value` is the semaphore, or 1 for a free lock; `nwaiters` and `registered` are glibc's count of the waiters of a `sem_t`, which decides whether `sem_post` wakes anybody. `text` says who wrote what: "put" appends a character, "seek" and "write" read the end first and write there later, which is how a counter, `sprintf` behind `strlen`, and `lseek` with `write` all lose what was written in between. "announce" is a printf of a whole line without the lock: the child of `unnamed_semaphore/main.c` says so when it has initialised the semaphore again and when it destroys it (78, 87), and such a line (`Notice`) may stand between the parent's characters. `Kill` returns a System V semaphore (`SEM_UNDO`) and a file lock, not a `sem_t`.
* **CondQueue.** A message is the number of its producer, `next` holds the links, `workq` the head. The walk to the end of the list is one action for each link. `pthread_cond_wait` is `Sleep`, which gives up the mutex, then `Signalled` or `SpuriousWakeup`, then `Lock` again. `sent` and `taken` are history: what was linked, in order, and how many of it were taken.
* **PartialSums.** `totalSum` is modelled by how often the square of each number is in it; `Load` and `Store` are the two halves of `totalSum += ...`. `thisBounds` is main's array, of which each thread copies its element. `pthread_create` may fail (`CreateFails`); its error is positive, so that the test for `< 0` does not see it, main goes on, joins an id that was never set (`Join` of an absent thread, or `JoinCrashes`) and reports what the others have added.
* **Channels.** `readers[ch]` and `writers[ch]` are the processes that hold an end. A fork adds the child to those of its parent, `Close`, `Exit` and `Kill` take a process out. A read of an empty channel waits while there is a writer and is at its end when there is none; a write without a reader ends the process (SIGPIPE). `open` of a FIFO waits for the other end. A message is its sender and a number.
* **ForkExamples.** `buffer` holds what printf has left there unless stdout is a terminal. `Fork` copies it, `Exit` writes it, `Exec`, `ExecFails` (abort) and `Kill` lose it; threads share that of their process. "create" is a `pthread_create` that may fail. `pthread_exit_return` looks at both results after both calls, and prints and exits for the first that failed (33-36, 42-45): it is three programs, `PthreadExitReturn`, `NoFirstThread` and `NoSecondThread`; what the others do when a call has failed is to go on. `sleep` is no order: the parent of printorder may be first.
* **SubstringCount.** `file` is what the file holds now, `memory` the buffer, `size` the length that stat found, or any if it failed, since nobody looks at its result. `Rewrite` and `Remove` are other programs. The count is a recursive function, and the property compares it with the set of places where the argument occurs.

### Undefined and uncertain behaviour

The data race on clinfo (385-387 against 35-37) is split into the writes and reads of its two fields. The unlocked reads of level3.c 117 and 127 return the current value. `remaining` after a NULL from `strstr` is arbitrary. A failed `read` returns -1 and is added to the total, as the code does. `pthread_join` of an id that `pthread_create` never set returns an error or ends the process. `sem_init` of a semaphore in use (`unnamed_semaphore/main.c:74`) does what glibc's does: it sets the value and forgets the waiters.

## Runs

All runs finish in under two minutes. Deadlock is not checked in any of them because each of these systems may rightly stop: clients stop connecting, a peer stays silent, a program ends; the liveness properties say when it must not.

| Run | Bounds | What is checked |
|---|---|---|
| `get_relay` | buffer of 2, heads of 1-3, bodies of 0-3 bytes, the length at any place or absent, server closing or not | `CountsWhatItDelivers`, `ChunkedIsComplete`, `RelayEnds` |
| `get_relay_short_read` | the same | **violated**: `RelaysWholeResponse` |
| `connect_tunnel` | buffer of 1, room for 2, 3 bytes each way, `int` up to 2 | `PassesOnWhatItReads`, `TimesOutOnlyWhenIdle`, `OpenTunnelServed` |
| `connect_tunnel_hang_up` | the same with 2 bytes | **violated**: `ClosedTunnelEnds` |
| `thread_proxy` | 2 connections, 6 descriptors (enough for both, and short of them in some orders), clients arrive at any time | `OwnConnectionUnlessOverwritten`, `OwnDescriptorsUnlessOverwritten`, `LogStaysWhole`, `AcceptedIsClosed` |
| `thread_proxy_slot` | the same | **violated**: `HandlesItsConnection` |
| `process_proxy` | 2 connections, 5 descriptors a process, entries of 1 and 2 cells, the log missing, empty or with one old cell | `ClientHeldByItsOwn`, `LogStaysWhole`, `AcceptedIsClosed`, `BackToAccept` |
| `sequential_proxy` | 3 clients, 5 descriptors (the third client finds too few), six forms of request | `RewritesKeepAlive`, `LogsEveryConnection`, `AcceptedIsClosed` |
| `udp_echo` | 2 clients of any two kinds, 3 lines each, queues of 2 | `LagsByTimeouts`, `PrintsOwnLinesInOrder`, `TimedClientsEnd` |
| `exchange` | `TcpExchange`: every client with its server, messages of 2, a file of 7 bytes through buffers of 3 and a connection that holds 2. `Channels`: 3 children of Homework1, 4 messages, a channel that holds 3, 2 requests of the one client of the FIFO, or 2 and 1 of two. `TcpServers`: each server with each client, messages of 2 and 1, descriptors for 1 or 2 connections. `SubstringCount`: files of 0 to 4 characters, `int` up to 3 | `NothingLost`, `ExchangesEnd`; `ChannelsLoseNothing`, `ProcessesEnd`; `PrintsOwnMessage`, `FailsOnlyWhenBusy`, `IdleClientDelaysNobody`; `CountsOccurrences` |
| `fifo_late_client` | `Channels` alone, as in `exchange` | **violated**: `RequestsAnswered` |
| `critical_sections` | `CriticalSections`: every program, loops of 3, strings of 2 characters, the file there or not, the named semaphore new or left at 0, the parent's 10 in shared_memory cut to 2, below the rounds as in the code. `CondQueue`: 4 producers, as in the code. `PartialSums`: 1..7 among 3 threads, any of which may fail to be created. `BoundedBuffer`: N = 5, buffer of 2, 3 consumers. `ForkExamples`: every program, stdout a terminal or not | `SectionsKept`, `UnlockedCounts`; `QueueInOrder`, `QueueDrained`; `EachAddedOnce`; `SectionsEnd` (also of `PartialSums`); `SlotsIntact`, `AddsInOrder`, `ReportsSum`, `QuietAfterAll`, `LevelThreeEnds`; `LinesPrinted` |

The type invariants of `GetRelay`, `ConnectTunnel`, `BoundedBuffer`, `ProcessLog`, `ThreadLog` and `CondQueue`, the offset `WritesAtEnd` of `ProcessLog` and `OwnEntryBuffered` of `ThreadLog` are proved for every instance and have no run of their own; `LogStaysWhole` fails if either of the last two does. The same holds for those of `ThreadProxy`, `ProcessProxy`, `SequentialProxy`, `UdpEcho`, `PartialSums`, `CriticalSections`, `TcpServers`, `TcpExchange` and `Channels`.

What the less obvious ones say:

* `CountsWhatItDelivers`: the size in the log entry is the number of bytes read, less one after a failed last read, although lengths, reads and the total are kept apart; a client that has not reset was given all of them. What a client that has reset was given may be less than what is logged.
* `ChunkedIsComplete`: a response without Content-Length is relayed to its end unless the server resets, however the network splits it; one with it gets a read of exactly the rest (which may return less: `RelaysWholeResponse`).
* `PassesOnWhatItReads`: a byte read from one peer and not written to the other is in the buffer, or the other has reset; the `long` totals survive being printed as `int` while they fit.
* `OwnConnectionUnlessOverwritten`, `OwnDescriptorsUnlessOverwritten`: until main writes to the clinfo too early, every thread serves its own connection, and no return path closes a descriptor twice, which would close one of another thread, since numbers are reused at once. So the one race on the clinfo is all that can go wrong.
* `ClientHeldByItsOwn`, `AcceptedIsClosed`: a client sees the end of its connection only when *every* process has closed it; a child that goes on to accept must not pass it on. `AcceptedIsClosed`, of all three proxies, excepts a connection whose own client or server keeps it waiting for ever (a client that sends no request, a tunnel that does not end), and says that it keeps nobody else's open; in the thread version also one for which no thread could be created, or whose clinfo was overwritten.
* `LogsEveryConnection`: the sequential proxy logs every connection it has served, once, and misses none but those whose write to the log failed.
* `LogStaysWhole`: the log refines `AppendLog`, within the whole proxy, with children killed inside the locked section. `LogStaysWhole` is `AppendLog`'s specification as a PROPERTY.
* `QuietAfterAll`: when main has seen the last number counted, no consumer will touch the sum again, which is why its unlocked read is right.
* `LagsByTimeouts`: nothing in a datagram says which line it answers. After k timeouts a client prints an answer at most k lines old; a client without timeouts is never wrong.
* `IdleClientDelaysNobody`: what a concurrent server is for.
* `NothingLost`: when both programs run to their end, neither exit discards what the other had written, and `receive.txt` is the file.
* `SectionsKept`: nothing written under a lock is overwritten, and no string is printed into another; but for the two lines that the child of `unnamed_semaphore/main.c` prints outside its sections, which may come into its parent's. It holds also for the two runs of `lockfile` of which one looks for the end of the file while the other holds the lock.
* `UnlockedCounts`: what the programs without a lock can come to, however they interleave: `Lecture8/non_mutex` counts two at least, given two rounds or more, and `shared_memory` ends with the child's rounds alone, or with the parent's ten and any of the rounds on top.
* `WorkersEnd` (in `SectionsEnd`): with its exceptions it says which of these programs can hang and when: a `sem_t` left taken by a killed process (`LeftTaken`), the waiter forgotten by the second `sem_init` (`NotWoken`), and the user (`AwaitsEnter`). Without the exception for `NotWoken` the run finds the parent of `unnamed_semaphore/main.c` asleep although the semaphore is free.
* `QueueInOrder`: from the head on, the links lead through exactly what was linked and not taken, in order, and a producer that walks through the list stands at one of these, which is not freed.
* `QueueDrained`: `stop` clears `running` under the mutex and signals after it has given it up; no order of signals, spurious wakeups and locks makes the consumer sleep through it or leave messages behind.
* `EachAddedOnce`: the ranges of 58-59 and the mutex together. The sum that is reported has every square once, but for the ranges whose thread could not be created, and those are missing as a whole: the mutex and the ranges lose nothing else.
* `ChannelsLoseNothing`, `ProcessesEnd`: when all run to their end, what was written was read, once and in each sender's order, but for the messages of a client that opened the FIFO when the server had read its end (`CameLate`; the fourth finding); and whoever is killed, whichever fork fails, no reader waits for a writer that is gone, because every stray end is closed. The exceptions are what the code leaves to chance: `open` of a FIFO that nobody else opens, a queue to which nobody sends, and `AwaitsAnswer`, where a client has lost its answer to the other client.
* `LinesPrinted`: a line is printed once, or twice if it was in the buffer at the fork of a child that ends with exit; the program that waits for its child or threads has the last line.
* `CountsOccurrences`: in both ways of reading, overlaps and the last place included, unless the file changes or is too long for an int; and never more places than the buffer has.

### Why the bounds are enough

Each bound is the least that lets the case in question happen, and one more where it is cheap. Two connections give every pair of threads or children (`process_proxy` holds with three as well, 967 000 states, which is more than a regular run should take), and the log properties are in addition proved for any number. A buffer of 2 with responses of 1 to 6 bytes has responses shorter than it, filling it exactly, and longer, and puts the length and the end of the head on both sides of its end. With three bytes and room for two each peer of a tunnel can block the proxy while the other blocks too, and an `int` of at most 2 overflows. Five numbers through two slots wrap round twice. A file of 7 through buffers of 3 ends in a short piece. Four messages do not fit a channel of three, so that their sender waits; seven numbers fall into three unequal ranges; a file of four characters is longer than an `int` of at most 3. Three lines allow an answer that is late by one and by two. For every property a mutant of a mapped definition (a lock not waited for, a forgotten close, a count in the wrong order) is found by the same run, so that the bad case does lie within the bounds.

### Fairness

* The kernel schedules every process and thread that can run: weak fairness of each. A lock waited for while others come and go would need strong fairness in general; each worker here logs once, so weak fairness is enough.
* Never assumed: that clients connect or write, that a server process is up, that calls fail or succeed when they may do either. Failures of `accept` and `fork`, and of `pthread_create` in `ThreadProxy`, `TcpServers`, `PartialSums` and `ForkExamples`, resets, kills and SIGPIPE may happen at any time and need not.
* `GetRelay` assumes that a server that has not been reset sends what it has announced, and closes if it is one that closes. `ConnectTunnel` assumes that open peers read what arrives, and that time passes for poll. When a relay or a tunnel ends is the subject of those two modules; `ThreadProxy` and `ProcessProxy` do not assume that it does: their fairness leaves out the steps of a thread or child that waits for its client's request, its server or its tunnel (`AwaitsPeer`).
* `TcpExchange` and `CriticalSections`: both programs are scheduled; a client may find no server, a signal may end either side at any time, and the user of lockfile need not hit Enter. A worker makes finitely many calls, so that a lock is in the end left to the one that waits and weak fairness is enough.
* `CondQueue`: the mutex is granted with strong fairness. Spurious wakeups let the consumer come back for it again and again, so that a producer finds it free infinitely often but not for good; weak fairness would let it starve, and glibc's mutex does not keep a waiter out for ever. Everything else there, and `PartialSums` and `Channels`, has weak fairness of each thread or process. `ForkExamples` and `SubstringCount` have only safety properties and need none.
* `SequentialProxy`: a client may never send its request (`AwaitsClient`). Web servers answer, and close when the request asks them to; `ServerGivesUp` may end a wait on a server that keeps the connection open, and is not fair.

## Findings

Each of the four violated properties is a statement of the repository's own documents or comments.

1. **`RelaysWholeResponse`** (`get_relay_short_read`), 130 (and 146): a first read of fewer than 1024 bytes is taken for the whole response. TCP may deliver the rest later: between peers that never reset, the client gets a part of the response, which is then logged. The comment at 125: "Get the response from the web server, and write the response to the client_fd".
2. **`ClosedTunnelEnds`** (`connect_tunnel_hang_up`), 242: the test is for `POLL_HUP`, a signal code, not `POLLHUP`, and a read of 0 is ignored. When the peers have closed, poll always reports an event, so the tunnel neither times out nor ends nor is logged. `README:16-17` of A3 says all entries are logged.
3. **`HandlesItsConnection`** (`thread_proxy_slot`), 389: the clinfo on main's stack is overwritten for the next connection before the first thread has copied it. `README:15-16`: "each thread to handle each connection". That this overwriting is the only way is proved (`OwnConnection`).
4. **`RequestsAnswered`** (`fifo_late_client`), `ipc_code/fifo/server.c:46`: when a read returns 0 the server leaves its loop and closes both FIFOs, without a look at what was written since. A client that opens the FIFO between that read and the close writes its message, reads 0 or an error, which it does not check, and ends like one that was answered. `server.c:12`: the program "reads message and writes response". Whoever opens the FIFO in time is answered (`ProcessesEnd`, with the exception of `AwaitsAnswer`).

Seen while modelling and not made runs of their own:

* A3 146: the rest that Content-Length announces is read with a single call, which may return less of it than the response has (`ReadRest`); the same trace as the first finding's shows it for longer responses. `Assignment2/jwh139-proxy/README:18` says of the same code in A2 that it "writes the response back while there is still response remaining".
* A3 126-147, and the same in A2: the results of the writes to the client are ignored, and bytes that were not delivered are counted and logged (`Relay`).
* A3 275 and 654 pass the `long` totals of a tunnel (220, 594) as `int`, which 743 prints; see `PassesOnWhatItReads`.
* A3 676: after a GET a child does not exit, but falls out of the `if` and goes round main's loop to accept; the comment at 675 says "Close the file descriptors and exit". `ProcessProxy` models it (`Loop` is open to children), and `ClientHeldByItsOwn` and `AcceptedIsClosed` hold nevertheless.
* `unnamed_semaphore/main.c:74` initialises the semaphore while the parent may wait for it (see `WorkersEnd`).
* `Lecture5/v6hello/server.c:53` has room for the text of an IPv4 address and ends the server, after it has read the request, for a longer one. `Lecture6/hellofromserver/server.c:36` has a stray "/" and does not compile; it is modelled as if it were not there.
* `Lecture7`/`Lecture8` lockfile do not look at what open returned: without the file the program asks for Enter as if it held the lock.
* The comments at 159 and 166 put the lock around writing the file; in fact the file is written by fclose at 168, after the unlock. The log stays whole because of `O_APPEND` (proved: `ThreadProxyProofs!LogImplementsAppendLog`).
* 381 says the parent checks "that all children have terminated"; `WNOHANG` takes the one that has. `BackToAccept` is the property that depends on it.
* The comment at 687-688 describes the size as that of the response; after a failed read it is one less than what was read.
* 536 and 657 ignore what `write` returns, 168 and 280 what `fclose` does, and A2 207-208 what `fprintf` and `fclose` do: the entry is missing if it fails (`WriteFails`, `Flushed`, `WriteLogFails`), and nothing notices.
* `ipc_code/pipe/pipe.c:43` counts reads; a read may return several messages at once.
* `ipc_code/fifo/server.c:45` answers what it reads, be it one request or two, with one response into a FIFO from which both clients read: with two clients one may wait for ever. `fifo/client.c:24` tests the result of `open` against 0: a client that finds no FIFO goes on with the descriptor -1, writes to it, and stores a 0 before its buffer.
* `Homework1/main.c:62-66` reads once for each child and does not look at the result: for a child that was killed the parent adds the value it read last once more.
* `Homework2/main.c:60` tests the result of `pthread_create` for `< 0`; its errors are positive. A thread that could not be created is missing from the sum, which main reports all the same, while `Homework2/README.txt:15-17` says that "the correct result will be computed": `EachAddedOnce` says exactly what is missing.
* `unnamed_semaphore/main.c` 78 and 87: what the child announces outside its sections may be printed into its parent's string, which is what the semaphore is there to prevent (`SectionsKept` excepts it).
* `Lecture10/udp_echo_server/client.c:21`: the plain client waits for ever if its line or the answer is lost; `TimedClientsEnd` is about the others.
* `Lecture8/concurrent_server_thread/server.c:67` ignores the result of `pthread_create`: a connection without a thread stays open until the server ends (`CreateFails` of `TcpServers`).
* In `printorder.c`, when stdout is a file, the line before the fork is there twice: both processes write their copy of the buffer.
* `Assignment1/jwh139-p01/p01.c:136` compares `fread`'s result, which is unsigned, with -1; the result of `stat` at 85 and 119 is not looked at.
* 520 opens the log without `O_CREAT`: in the process version there are no entries unless the file exists.
* The port of the requested URL is parsed and not used.
* A2: a request without `Connection: keep-alive` loses its first line (153); with two of them only the first is changed. `FromBrowser` asks for exactly one.
* `Homework2/README` says that consumers end up blocked on `remainingSpace`; they block on `availableItems`.

## Proofs

Eight modules hold the theorems. All follow one line: an inductive invariant (`IInv`, or one for each part where a module has several: `LogInv`, `QueueInv`, `SumsInv`, `SectionsInv`, `CountersInv`, `BufferInv`, `ServersInv`, `TcpInv`, `ChanInv`, `FileInv`, `ForkInv`), its initialisation lemma, a step lemma with one case per action, and `Invariance == Spec => []IInv`, from which the others follow. Each of these invariants holds in TLC's small instances too, which is how it was found.

| Module | Theorems | Inductive invariant, and why it is needed |
|---|---|---|
| `ProcessProxyProofs` | about `ProcessLog`: `LogTypeCorrect`, `MutualExclusion`, `WritesOnlyAtEnd`, `LogImplementsAppendLog` | `LogInv`: type, lock held exactly by the child in the locked section, offset at the end before a write, and `NotYetLogged`: a child before its write has nothing in the file, so that the write is a step of `AppendLog` |
| | about the proxy: `ImplementsProcessLog`, `ImplementsAppendLog`, `TypeCorrect`, `NoForeignClient`, `ServedOnce` | `ClientHeldByItsOwn` with the types and `OneProcessEach`: a connection that a process has accepted and not forked for yet has no child, and no other process has accepted it. `ServedOnce` says that the child of a connection never returns to its request, and that a child that has ended stays so |
| `ThreadProxyProofs` | about `ThreadLog`: `LogTypeCorrect`, `MutualExclusion`, `BuffersOwnEntry`, `LogImplementsAppendLog` | `LogInv`: the same with `OwnTime`: between localtime and fprintf the shared `struct tm` is the thread's own, which is what the mutex really protects |
| | about the proxy: `ImplementsThreadLog`, `ImplementsAppendLog`, `TypeCorrect`, `OwnConnection`, `OwnDescriptors` | `overwritten \/ IInv`: a step that sets `overwritten` keeps it set, and every other keeps `IInv`. `MainInv` (what main knows of clinfo and of the descriptor it has accepted) and, for each thread: it starts from a slot that still holds its own connection (`Starts`, `Copies`); the descriptors it uses are its own (`Uses`), its part of the log is where the thread is (`LogFollows`), the list it is about to close names each of its descriptors once (`Closes`), and whatever is open in its name is in its hands (`Owns`), so that a thread that returns leaves nothing open but what the code forgets, and a number that is used again belongs to one connection only |
| `SequentialProxyProofs` | `RewriteOfBrowser`, `SendsRewritten`, `ServerWillClose`, `LoggedOnceEach` | `ServesAccepted`, `SentRewritten`, `LogFollows` (the log has the connections served to the end but for those in `unlogged`, each once, and none other), with `UnloggedPast` (only a connection that is past its write is in `unlogged`). `RewriteOfBrowser` is about sequences of lines: the request of a browser, of any length, with one `Connection: keep-alive` somewhere behind the first line, becomes what the comments at 140 and 143 say, and asks the server to close |
| `GetRelayProofs` | `TypeCorrect`, `CountsDelivered`, `ChunkedComplete` | `Counted` (total against the bytes taken at each point, and, while the client has not reset, the bytes delivered against those taken) and `Progress` (what has been read when each part of the relay starts) |
| `ConnectTunnelProofs` | `TypeCorrect`, `PassesOn`, `TimesOutIdle` | type and `PassesOnWhatItReads` itself, which is inductive once bytes in hand are counted; the action property `TimesOutOnlyWhenIdle` follows from it |
| `UdpEchoProofs` | `LagBounded`, `OwnLinesInOrder`, `PlainClientEchoes` | `InOrder`: the datagrams of a client, at its socket, in the server's hands and in the server's queue, in this order, are lines it has sent and not printed, increasing. `Lags`: the last line read is ahead of the last one printed by at most the timeouts, and by one more while the client waits |
| `SharedMemoryProofs` | about `CondQueue`: `QueueTypeCorrect`, `QueueKept`, `Drained` | `QueueInv`: the mutex admits one thread to the list (`LockHeld`), a message enters the history once (`SentOnce`) and links to nothing before (`Unlinked`), what was taken is freed but for the one in hand (`TakenFreed`); then the links are in order and nobody walks off the list. `QueueEnding` says what main knows when it goes on: with `running` cleared every producer has exited, so that a consumer that finds the list empty has taken all |
| | about `PartialSums`: `EachSquareOnce` | `SumsInv`: a number is in the sum once if a thread is past it and not otherwise. That one thread at most is, and some thread for each number, are `RangesApart` and `RangesCover`, which follow from `DivLess` (a \div b < k iff a < k * b) alone; that the addition of one is not undone by another is `HoldsMutex`: what a thread has loaded is still the sum when it stores. A thread that main has passed by and that is absent was not created, and stays so: its range is what is missing |
| | about `CriticalSections`: `SectionsHold` | `SectionsInv`: whoever is between its wait and its post (`Inside`, a property of the program's text, proved of each program by the lemmas `*Locks`) holds the lock, and one does at a time until the second `sem_init` (`Exclusive`), at which point the child has no string left to print. So a write goes to the end of the text (`PosAtEnd`), and a second character goes behind the first, in the parent of `Reinitialised` perhaps with its child's announcements between (`StringInv`, `LastOwn`) |
| | about `CriticalSections`: `CountsBounded` | `CountersInv`: in `nonmutex` the counter is not 0 once anybody has written it, what a thread read after it has written itself is not 0 either, and the counter is below 2 only while one of the two has written fewer than twice; in `shared_memory` the child's number is its rounds, or at least what the parent set |
| | about `BoundedBuffer`: `BufferTypeCorrect`, `NothingOverwritten`, `AddedInOrder`, `Quiet`, `CorrectSum`, `NeverStuck` | `BufferInv`: `ItemsBalance` and `SpaceBalance`: each semaphore plus the threads between wait and post accounts for the numbers in the buffer; `Pointers` and `SlotsHold` place them by arithmetic modulo the buffer's size; `MainKnows` what main may conclude from its unlocked read. The balances also give `NeverStuck`: if all waited, both semaphores would be 0 and the buffer full and empty |
| | about `CondQueue`: `ConsumerWoken` | `WakeInv`: `QueueInv` with `HolderGoesOn` (who has the mutex is at one of the steps that end in giving it back, and `running` is cleared exactly when `stop` is behind its lock) and `NoSignalLost`, the statement itself: while the consumer sleeps, a message in the list means a producer that has linked it and not signalled, and `running` cleared means a `stop` that has not signalled |
| | about `ForkExamples`: `LinesPrintedOnce` | `ForkInv`: who was waited for does not run and who is created later is absent (`ForkControl`); and unless somebody was killed, a line that was printed is in a buffer or on stdout (`LinesKept`): once if threads share the buffer (`ThreadLines`) or the child printed it (`ChildsOnce`), and for a line of main before the fork twice, from then on, unless the child has called exec (`MainsCopied`, `Twice`). `MainLast`: once main has made its last call its line is the last, because all others have ended. The programs enter only through what `WellMade`, `SetsFirst` and `PrintsLast` say of their calls, which the lemmas `*Made` prove of each |
| `ExchangeProofs` | about `TcpServers`: `ServersTypeCorrect`, `OwnMessage`, `BusyWhenFailing` | `ServersInv`: the buffer of a child or thread holds nothing before its read and its own client's message after it, whichever process's memory that is (`OwnBuffers`, `Fresh`, `Serving`), who waits in the backlog does so once (`Waiting`), and the connections that main holds when it is at accept have a thread each, or were lost to `pthread_create` (`HeldByMain`) |
| | about `TcpExchange`: `TcpTypeCorrect`, `ExchangeComplete` | `TcpInv`: as long as nobody has failed or been killed (`Clean`), what a side has written and read follows from the calls it has behind it, and from its peer's (`LinkRight`, `WroteRight`, `GotRight`, and `StoredRight` for the file). The eleven pairs enter only through what `Shape` and `Matched` say of their texts, which lemmas prove of each |
| | about `Channels`: `ChannelsTypeCorrect`, `ChannelsAccountForAll` | `ChanInv`: while nobody was killed and no fork failed (`Unharmed`), a message is in the channel that its sender writes to or was read, by one process, in order (`Accounted`), and with one part for each program (`PipeRight`, `PopenRight`, `SumsRight`, `QueueRight`, `FifoRight`), why a channel that all have left is empty: the reader has counted the messages, or has read the end of file, which it does only when the last writer is gone. In `FifoRight` the messages of late clients are what remains (`LateOnes`) |
| | about `SubstringCount`: `CountsRight` | `FileInv`: what is in the buffer is the file, up to where it was read. That `Count`, a recursive function of the position, is the number of places in the set of the definition is `CountsPlaces`: a position where it were wrong would give a greater one, and finitely many positions admit no such chain (`DownTo0`, from the pigeonhole principle of the library; induction itself is out of the provers' reach) |

They hold for any set of workers, connections, clients or consumers, any N, number of children, messages, requests and descriptors, any lengths, sizes and files, except that two processes share the programs of `CriticalSections` as in the code; the number of their rounds is any; `ForkExamples` has no constants: its programs are those of the lectures, of which the proof uses nothing but the three conditions. The assumptions are those on the constants (`...Assumption` in each module): buffers are not empty, entries have a length, `Room` holds at least a buffer, and so on. `SizesAssumption` of `MCCriticalSections` asks for one thread of `Homework2/main.c` at least, which is weaker than its check at 49, and for a consumer and a slot at least of `level3.c`. `MsgAssumption` says that a message fits the buffer it is read into, and `ServedAssumption` the same for the servers. The theorems about `CondQueue`'s own specification carry `QueueLen \in Nat` as an assumption. `ConnectTunnel`'s `IntHalf` stands for 2^31.

`OwnConnection` and `OwnDescriptors` assume nothing about when clients connect. They are about every run up to the moment at which main writes to the clinfo that a thread has yet to copy (`overwritten`), which the code does not prevent and `thread_proxy_slot` shows (third finding): until then, they say, nothing else can go wrong, whatever fails and however threads interleave. Once it has happened both may be false. That the log stays whole is proved with it or without.

Model-checked only:

* All liveness (`RelayEnds`, `OpenTunnelServed`, `AcceptedIsClosed`, `BackToAccept`, `TimedClientsEnd`, `IdleClientDelaysNobody`, `ExchangesEnd`, `ProcessesEnd`, `SectionsEnd`, `QueueDrained`, `LevelThreeEnds`): TLAPS does not reason about `ENABLED`, and so not about fairness. `ConsumerWoken` and `NeverStuck` are what is safety in the last two.

## Not modelled

| Part | Why |
|---|---|
| `Lecture5` and `6` name lookup | one call of the resolver, whose answer is printed |
| `Lecture11` multicast, broadcast | a sender of one datagram and a receiver that prints it |
| the single-process examples of `Lecture1`-`4`, `7`, `9`; `gen10MB.c` of `Assignment1` | sequential, a few library calls each, whose result is the library's |
| `MidtermPractice` | fragments of exam questions |
| `csapp.[ch]` | a textbook's library; the proxies use only its header |
| parsing of URLs and host lookup in the proxies | only their success or failure matters to what is modelled |
| short writes to the logs, failing `fcntl` or `lseek` | the code ignores their results; on a local file they are taken to succeed. A write that fails as a whole is modelled (`WriteFails` of `ProcessLog`, `Flushed` of `ThreadLog`, `WriteLogFails` of `SequentialProxy`) |
| failing `pthread_create` and `malloc` in `Lecture9/cond_variable` and `level3.c`; failing `fork` and `pthread_create` in the programs of `CriticalSections` | the programs do not look at the result or end; their properties are about all workers at work |

## Plan

Modelled and checked: the log and its refinement, relay, tunnel, the two whole proxies, the sequential proxy, the bounded buffer, the lecture servers, the one-exchange programs, the critical sections, the queue with a condition variable, partial sums, channels, the fork examples, the substring counter.

Proved: every safety property that the runs check; that both logs, alone and within their proxies, implement `AppendLog`; and of two of the liveness properties the part that is safety. What the provers cannot do is said above.

What is left of the code to model are the set-up calls of the lecture servers and clients where they fail, and what Lecture11 does with lost datagrams, which is nothing.
