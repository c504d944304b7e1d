--------------------------- MODULE SubstringCount ---------------------------
(***************************************************************************)
(* Assignment1: p01 reads a file into memory and counts, for each of its   *)
(* other arguments, the places where it occurs, whatever the case of its   *)
(* letters.  With -s the file is read by system calls, one character at a  *)
(* time, otherwise by fread.                                               *)
(*                                                                         *)
(* Another program may write the file at any time: its length is looked up *)
(* before it is read.  The length is a long, and an int when it is passed  *)
(* to countSubstrings.  Options other than -s and calls without enough     *)
(* arguments only print the usage.                                         *)
(***************************************************************************)
EXTENDS Integers, Sequences, FiniteSets

CONSTANTS
  Contents,     \* what the file may contain, sequences of characters
  Arguments,    \* the substrings, in their order
  IntHalf       \* 2^31 of an int

\* tolower: a letter and its capital are <<l, FALSE>> and <<l, TRUE>>.
Lower(ch) == ch[1]

Nul == <<"nul", FALSE>>   \* of memory that calloc made

AsInt(n) == ((n + IntHalf) % (2 * IntHalf)) - IntHalf

\* strncasecmp(ptr, substring, strlen(substring)) = 0, with ptr at j
StrncasecmpIsZero(memory, j, substring) ==
  \A k \in DOMAIN substring : Lower(memory[j + k]) = Lower(substring[k])

\* Mutated form: the last place is left out.
CountSubstringsShort(memory, substring, size) ==
  LET count[j \in 0..Len(memory)] ==
        IF j + 1 >= size - Len(substring) + 1 THEN 0
        ELSE (IF StrncasecmpIsZero(memory, j, substring) THEN 1 ELSE 0) + count[j + 1]
  IN count[0]

\* for (int j = 0; j < (size - substringLen + 1); j++)
CountSubstrings(memory, substring, size) ==
  LET count[j \in 0..(Len(memory) + 1)] ==
        IF j >= size - Len(substring) + 1 THEN 0
        ELSE (IF StrncasecmpIsZero(memory, j, substring) THEN 1 ELSE 0) + count[j + 1]
  IN count[0]

-----------------------------------------------------------------------------
VARIABLES
  file,          \* its contents
  present,       \* whether its name is in the directory
  changed,       \* whether it was written or removed since the start
  system_flag,
  at,            \* the statement of main
  size,
  memory,        \* the buffer
  ptr,           \* how far it is filled
  offset,        \* the position in the file
  reported       \* the counts printed

found == <<file, present, changed>>
vars == <<found, system_flag, at, size, memory, ptr, offset, reported>>

Init ==
  /\ file \in Contents /\ present \in BOOLEAN /\ changed = FALSE
  /\ system_flag \in BOOLEAN
  /\ at = IF system_flag THEN "open" ELSE "stat"
  /\ size = 0 /\ memory = <<>> /\ ptr = 0 /\ offset = 0
  /\ reported = <<>>

\* Another program writes the file, or removes its name: who has the file
\* open reads on in it.
Rewrite(contents) ==
  /\ at \notin {"counted", "failed"} /\ present /\ contents # file
  /\ file' = contents /\ changed' = TRUE
  /\ UNCHANGED <<present, system_flag, at, size, memory, ptr, offset, reported>>

Remove ==
  /\ at \notin {"counted", "failed"} /\ present
  /\ present' = FALSE /\ changed' = TRUE
  /\ UNCHANGED <<file, system_flag, at, size, memory, ptr, offset, reported>>

Goto(from, to) == at = from /\ at' = to

\* open before stat with -s, and fopen after calloc without; both may fail.
Open ==
  /\ present
  /\ Goto("open", "stat") \/ Goto("fopen", "read")
  /\ UNCHANGED <<found, system_flag, size, memory, ptr, offset, reported>>

OpenFails ==
  /\ Goto("open", "failed") \/ Goto("fopen", "failed")
  /\ UNCHANGED <<found, system_flag, size, memory, ptr, offset, reported>>

Sizes == {Len(contents) : contents \in Contents}

\* The result of stat is not looked at: st is uninitialised if it failed.
Stat ==
  /\ Goto("stat", "calloc")
  /\ size' \in IF present THEN {Len(file)} ELSE Sizes
  /\ UNCHANGED <<found, system_flag, memory, ptr, offset, reported>>

Calloc ==
  /\ Goto("calloc", IF system_flag THEN "read" ELSE "fopen")
  /\ memory' = [k \in 1..size |-> Nul]
  /\ UNCHANGED <<found, system_flag, size, ptr, offset, reported>>

\* No memory, above all for the size that an uninitialised st gives
CallocFails ==
  /\ Goto("calloc", "failed")
  /\ UNCHANGED <<found, system_flag, size, memory, ptr, offset, reported>>

\* A read of what is there at the offset, or of nothing: ptr goes on with -s.
Read ==
  /\ at = "read" /\ ptr < size
  /\ IF offset < Len(file)
     THEN /\ memory' = [memory EXCEPT ![ptr + 1] = file[offset + 1]]
          /\ offset' = offset + 1 /\ ptr' = ptr + 1
     ELSE /\ ptr' = IF system_flag THEN ptr + 1 ELSE size
          /\ UNCHANGED <<memory, offset>>
  /\ UNCHANGED <<found, system_flag, at, size, reported>>

\* One argument after the other
Count ==
  /\ at = "read" /\ ptr = size /\ Len(reported) < Len(Arguments)
  /\ LET substring == Arguments[Len(reported) + 1]
     IN reported' = Append(reported, CountSubstrings(memory, substring, AsInt(size)))
  /\ UNCHANGED <<found, system_flag, at, size, memory, ptr, offset>>

Close ==
  /\ ptr = size /\ Len(reported) = Len(Arguments)
  /\ Goto("read", "counted") \/ Goto("read", "failed")
  /\ UNCHANGED <<found, system_flag, size, memory, ptr, offset, reported>>

Next ==
  \/ Open \/ OpenFails \/ Stat \/ Calloc \/ CallocFails \/ Read \/ Count \/ Close
  \/ Remove \/ \E contents \in Contents : Rewrite(contents)

Spec == Init /\ [][Next]_vars

-----------------------------------------------------------------------------
\* The places in contents where substring is, letter by letter
Occurrences(contents, substring) ==
  {j \in 0..(Len(contents) - Len(substring)) :
     \A k \in DOMAIN substring : contents[j + k][1] = substring[k][1]}

(* A file that nobody writes meanwhile is counted right in both ways, the  *)
(* places that overlap, and the last one, included, as long as an int      *)
(* holds its length; and whatever happens to the file or its length, never *)
(* is a place counted that is not in the buffer.                           *)
CountsOccurrences ==
  \A i \in DOMAIN reported :
    /\ ~changed /\ size < IntHalf =>
         reported[i] = Cardinality(Occurrences(file, Arguments[i]))
    /\ reported[i] <= Cardinality({j \in 0..(size - Len(Arguments[i])) :
                                     StrncasecmpIsZero(memory, j, Arguments[i])})

=============================================================================
