----------------------------- MODULE AppendLog -----------------------------
(***************************************************************************)
(* What proxy.log promises, whichever version of the proxy writes it: a    *)
(* worker appends its entry whole, at most once, and nothing else ever     *)
(* happens to the file.                                                    *)
(***************************************************************************)
EXTENDS LogEntries

VARIABLE file

Init == file \in {<<>>, OldLog}

AppendEntry(w) ==
  /\ ~Logged(file, w)
  /\ file' = file \o Entry(w)

Next == \E w \in Workers : AppendEntry(w)

Spec == Init /\ [][Next]_file

=============================================================================
