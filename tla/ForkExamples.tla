---------------------------- MODULE ForkExamples ----------------------------
(***************************************************************************)
(* The small programs of Lecture7 that fork, exec and wait, and those of   *)
(* Lecture8 whose main joins threads: what they print, and in which order. *)
(*                                                                         *)
(* A process or thread is the sequence of its calls; 0 is the one that was *)
(* started.  A line is the process and the call that printed it.  printf   *)
(* leaves it in a buffer if stdout is no terminal, until exit writes the   *)
(* buffer out; fork copies the buffer, exec and signals lose it, threads   *)
(* share it.  A line that a thread prints while main exits is written or   *)
(* lost: it was printed before the exit, or not at all.                    *)
(***************************************************************************)
EXTENDS Integers, Sequences, FiniteSets

Lines(n) == [i \in 1..n |-> <<"print", 0>>]

Program(threads, parent, child) ==
  [threads |-> threads, forked |-> DOMAIN child,
   code |-> [p \in {0} \cup DOMAIN child |-> IF p = 0 THEN parent ELSE child[p]]]

\* Lecture7.  fork is -1 if it fails: "fork_or_exit" ends the program then.
\* "set" is glob++ and var++ of the child.
PrintOrder == Program(FALSE,
  << <<"write", 0>>, <<"print", 0>>, <<"fork_or_exit", 1>>, <<"print", 0>>, <<"print_glob", 0>> >>,
  << << <<"print", 0>>, <<"set", 0>>, <<"print_glob", 0>> >> >>)

ForkExample == Program(FALSE, Lines(1) \o << <<"fork", 1>> >> \o Lines(2), << Lines(3) >>)

ZombieProcess == Program(FALSE, << <<"fork_or_exit", 1>> >>, << <<>> >>)

\* spawn, and ls
SpawnChild == << <<"exec", 0>>, <<"print", 0>> >>
ForkAndExec == Program(FALSE, << <<"fork", 1>>, <<"print", 0>> >>, << SpawnChild >>)

\* Mutated form: the program does not wait.
WaitParentGoesOn == Lines(1) \o << <<"fork", 1>> >> \o Lines(2)
WaitParent == Lines(1) \o << <<"fork", 1>>, <<"wait", 1>> >> \o Lines(2)
WaitExample == Program(FALSE, WaitParent, << SpawnChild >>)

\* Lecture8.  "create" is a call of pthread_create that may fail: two of the
\* programs do not look at its result and go on.
PthreadHello == Program(TRUE,
  << <<"create", 1>>, <<"print", 0>>, <<"wait", 1>> >>, << Lines(2) >>)

PthreadReturnValues == Program(TRUE,
  << <<"create", 1>>, <<"print", 0>>, <<"create", 2>>, <<"print", 0>>,
     <<"wait", 1>>, <<"print", 0>>, <<"wait", 2>>, <<"print", 0>> >>,
  << Lines(2), Lines(2) >>)

\* pthread_exit_return looks at both results, after it has made both calls:
\* three programs.  "created" is a call that has succeeded.
PthreadExitReturn == Program(TRUE,
  << <<"created", 1>>, <<"print", 0>>, <<"created", 2>>, <<"print", 0>>, <<"print", 0>>,
     <<"wait", 1>>, <<"print", 0>>, <<"print", 0>>, <<"wait", 2>>, <<"print", 0>> >>,
  << Lines(2), Lines(2) >>)

\* ret1 is an error: main exits (33-36) while the other thread may run.
NoFirstThread == Program(TRUE,
  << <<"print", 0>>, <<"create", 1>>, <<"print", 0>>, <<"print", 0>> >>, << Lines(2) >>)

\* ret2 is: main exits (42-45) after the first thread.
NoSecondThread == Program(TRUE,
  << <<"created", 1>>, <<"print", 0>>, <<"print", 0>>, <<"print", 0>>,
     <<"wait", 1>>, <<"print", 0>>, <<"print", 0>> >>,
  << Lines(2) >>)

Programs ==
  {PrintOrder, ForkExample, ZombieProcess, ForkAndExec, WaitExample,
   PthreadHello, PthreadReturnValues, PthreadExitReturn, NoFirstThread, NoSecondThread}

-----------------------------------------------------------------------------
VARIABLES
  program,
  terminal,   \* whether stdout is one
  pc,         \* which of its calls each process makes next
  state,      \* whether it runs, or how it ended
  glob,       \* its copy of glob
  buffer,     \* the lines in its buffer
  stdout      \* the lines on the terminal or in the file

vars == <<program, terminal, pc, state, glob, buffer, stdout>>

Processes == DOMAIN program.code

Init ==
  /\ program \in Programs
  /\ terminal \in BOOLEAN
  /\ pc = [p \in Processes |-> 1]
  /\ state = [p \in Processes |-> IF p = 0 THEN "running" ELSE "absent"]
  /\ glob = [p \in Processes |-> 6]
  /\ buffer = [p \in Processes |-> <<>>]
  /\ stdout = <<>>

Calls(p, call) ==
  /\ state[p] = "running"
  /\ pc[p] \in DOMAIN program.code[p] /\ program.code[p][pc[p]][1] = call

Argument(p) == program.code[p][pc[p]][2]

Advance(p) == pc' = [pc EXCEPT ![p] = @ + 1]
Ended(p) == state[p] \in {"exited", "killed"}

\* The process whose buffer p prints to
Owner(p) == IF program.threads THEN 0 ELSE p

Prints(p, line) ==
  IF terminal
  THEN stdout' = Append(stdout, line) /\ UNCHANGED buffer
  ELSE buffer' = [buffer EXCEPT ![Owner(p)] = Append(@, line)] /\ UNCHANGED stdout

Printf(p) ==
  /\ \/ Calls(p, "print") /\ Prints(p, <<p, pc[p], 0>>)
     \/ Calls(p, "print_glob") /\ Prints(p, <<p, pc[p], glob[p]>>)
  /\ Advance(p)
  /\ UNCHANGED <<program, terminal, state, glob>>

\* write(2) has no buffer.
Write(p) ==
  /\ Calls(p, "write")
  /\ stdout' = Append(stdout, <<p, pc[p], 0>>)
  /\ Advance(p)
  /\ UNCHANGED <<program, terminal, state, glob, buffer>>

Set(p) ==
  /\ Calls(p, "set")
  /\ glob' = [glob EXCEPT ![p] = @ + 1]
  /\ Advance(p)
  /\ UNCHANGED <<program, terminal, state, buffer, stdout>>

Fork(p) ==
  /\ Calls(p, "fork") \/ Calls(p, "fork_or_exit")
  /\ LET c == Argument(p)
     IN /\ state' = [state EXCEPT ![c] = "running"]
        /\ glob' = [glob EXCEPT ![c] = glob[p]]
        /\ buffer' = [buffer EXCEPT ![c] = buffer[p]]
  /\ Advance(p)
  /\ UNCHANGED <<program, terminal, stdout>>

Create(p) ==
  /\ Calls(p, "create") \/ Calls(p, "created")
  /\ state' = [state EXCEPT ![Argument(p)] = "running"]
  /\ Advance(p)
  /\ UNCHANGED <<program, terminal, glob, buffer, stdout>>

\* wait and pthread_join; without a child or thread they return at once.  Of
\* an id that pthread_create has not set, a join may also end the program, and
\* so may the printing of its result (Kill).
Wait(p) ==
  /\ Calls(p, "wait")
  /\ state[Argument(p)] = "absent" \/ Ended(Argument(p))
  /\ Advance(p)
  /\ UNCHANGED <<program, terminal, state, glob, buffer, stdout>>

\* ls starts with an empty buffer.
Exec(p) ==
  /\ Calls(p, "exec")
  /\ buffer' = [buffer EXCEPT ![p] = <<>>]
  /\ Advance(p)
  /\ UNCHANGED <<program, terminal, state, glob, stdout>>

Leaves(p, how) ==
  state' = [q \in Processes |->
              IF q = p \/ (program.threads /\ p = 0 /\ ~Ended(q)) THEN how ELSE state[q]]

\* exit or the return of main writes the buffer; a thread just ends.
Flush(p) ==
  IF program.threads /\ p # 0 THEN UNCHANGED <<buffer, stdout>>
  ELSE /\ stdout' = stdout \o buffer[p]
       /\ buffer' = [buffer EXCEPT ![p] = <<>>]

Exit(p) ==
  /\ state[p] = "running" /\ pc[p] > Len(program.code[p])
  /\ Flush(p) /\ Leaves(p, "exited")
  /\ UNCHANGED <<program, terminal, pc, glob>>

\* fork or pthread_create fails.  zombie_process takes -1 for a child's 0, and
\* exits as well.
StartFails(p) ==
  \/ /\ Calls(p, "fork_or_exit")
     /\ Flush(p) /\ Leaves(p, "exited")
     /\ UNCHANGED <<program, terminal, pc, glob>>
  \/ /\ Calls(p, "fork") \/ Calls(p, "create")
     /\ Advance(p)
     /\ UNCHANGED <<program, terminal, state, glob, buffer, stdout>>

WriteFails(p) ==
  /\ Calls(p, "write")
  /\ Flush(p) /\ Leaves(p, "exited")
  /\ UNCHANGED <<program, terminal, pc, glob>>

\* abort, which writes no buffer
ExecFails(p) ==
  /\ Calls(p, "exec")
  /\ Leaves(p, "killed")
  /\ UNCHANGED <<program, terminal, pc, glob, buffer, stdout>>

\* A signal ends a process, with the threads in it.
Kill(p) ==
  /\ state[p] = "running" /\ p = Owner(p)
  /\ Leaves(p, "killed")
  /\ UNCHANGED <<program, terminal, pc, glob, buffer, stdout>>

Step(p) ==
  \/ Printf(p) \/ Write(p) \/ Set(p) \/ Fork(p) \/ Create(p) \/ Wait(p) \/ Exec(p) \/ Exit(p)

Next ==
  \E p \in Processes : Step(p) \/ StartFails(p) \/ WriteFails(p) \/ ExecFails(p) \/ Kill(p)

Spec == Init /\ [][Next]_vars

-----------------------------------------------------------------------------
PrintCalls == {"print", "print_glob"}

\* The calls with which p printed, and what was on stdout of each
Printed(p) == {k \in 1..(pc[p] - 1) : program.code[p][k][1] \in PrintCalls}
Copies(p, k) == Cardinality({i \in DOMAIN stdout : stdout[i][1] = p /\ stdout[i][2] = k})

\* A child that exits without an exec also writes what its parent had in the
\* buffer at the fork.
Inherited(k) ==
  /\ ~terminal /\ ~program.threads
  /\ \E n \in 1..(pc[0] - 1) : n > k /\ program.code[0][n][1] \in {"fork", "fork_or_exit"}
  /\ \E c \in program.forked :
       state[c] = "exited" /\ \A n \in DOMAIN program.code[c] : program.code[c][n][1] # "exec"

PrintAfterWaiting ==
  {WaitExample, PthreadReturnValues, PthreadExitReturn, NoSecondThread}

(* If all processes run to their end, each line is on stdout once, or      *)
(* twice if it was in the buffer at the fork of a child that exits itself; *)
(* a main that prints after waiting for its child or threads has the last  *)
(* line, through buffers or not; and the parent's glob is its own.         *)
LinesPrinted ==
  (\A p \in Processes : state[p] \in {"absent", "exited"}) =>
    /\ \A p \in Processes : \A k \in Printed(p) :
         Copies(p, k) = IF p = 0 /\ Inherited(k) THEN 2 ELSE 1
    /\ program \in PrintAfterWaiting => stdout[Len(stdout)][1] = 0
    /\ \A i \in DOMAIN stdout : stdout[i][3] \in {0, IF stdout[i][1] = 0 THEN 6 ELSE 7}

=============================================================================
