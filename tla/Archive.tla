-------------------------------- MODULE Archive --------------------------------
(***************************************************************************)
(* What dumpLogs promises ("Writing missing logs to database"): lines are  *)
(* added to a log, and each is written to the table after it was logged,   *)
(* in any order, and at most once as long as no two dumps have overlapped. *)
(* Row 0 is one that was there before.                                     *)
(***************************************************************************)
EXTENDS Naturals, Sequences

VARIABLES
    lines,      \* how many lines have been logged
    rows,       \* the rows of the table, by the number of their line
    overlapped  \* have two dumps been on at once?

Init ==
    /\ lines = 0
    /\ rows \in {<< >>, <<0>>}
    /\ overlapped = FALSE

LogLine ==
    /\ lines' = lines + 1
    /\ UNCHANGED <<rows, overlapped>>

Write(k) ==
    /\ ~overlapped => \A i \in DOMAIN rows : rows[i] # k
    /\ rows' = Append(rows, k)
    /\ UNCHANGED <<lines, overlapped>>

Overlap ==
    /\ overlapped' = TRUE
    /\ UNCHANGED <<lines, rows>>

Next == LogLine \/ Overlap \/ \E k \in 1 .. lines : Write(k)

Spec == Init /\ [][Next]_<<lines, rows, overlapped>>
===============================================================================
