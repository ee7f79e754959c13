------------------------------ MODULE MCUserFiles ------------------------------
(***************************************************************************)
(* UserFiles for TLC: a small directory, whose names are short or long.    *)
(***************************************************************************)
EXTENDS UserFiles, TLC

CONSTANT LongNames

\* With a MaxPathLength of 3, a long name fits alone and not below the directory.
Lengths == [n \in TopNames \cup InnerNames \cup Folders |-> IF n \in LongNames THEN 3 ELSE 1]

Interchangeable == Permutations(Requests)
===============================================================================
