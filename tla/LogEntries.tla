----------------------------- MODULE LogEntries -----------------------------
(***************************************************************************)
(* The entries of proxy.log, shared by the specification of the log and    *)
(* by the two ways in which the proxy writes it.                           *)
(*                                                                         *)
(* A file is a sequence of cells; the cell <<w, i>> stands for the i-th    *)
(* character of the entry of worker w, a child or a thread of the proxy.   *)
(***************************************************************************)
EXTENDS Naturals, Sequences

CONSTANTS
  Workers,    \* the children or threads, each with one entry to log
  Past,       \* stands for the runs of the proxy before this one
  EntryLen,   \* number of characters of each worker's entry
  OldLen      \* number of characters an existing file holds at the start

ASSUME WorkersAssumption == Past \notin Workers
ASSUME EntryLenAssumption == EntryLen \in [Workers -> Nat \ {0}]
ASSUME OldLenAssumption == OldLen \in Nat

Cells == (Workers \cup {Past}) \X (Nat \ {0})

\* The line that format_log_entry or format_connect_entry makes for w
Entry(w) == [i \in 1..EntryLen[w] |-> <<w, i>>]

OldLog == [i \in 1..OldLen |-> <<Past, i>>]

Logged(f, w) == \E i \in DOMAIN f : f[i][1] = w

=============================================================================
