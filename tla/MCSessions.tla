------------------------------ MODULE MCSessions ------------------------------
(***************************************************************************)
(* Sessions for TLC: model values from the .cfg files, and the symmetry of *)
(* what nothing singles out.                                               *)
(***************************************************************************)
EXTENDS Sessions, TLC

Interchangeable ==
    Permutations(Names \ {Admin}) \cup Permutations(Ids \ {AdminId})
        \cup Permutations(Browsers) \cup Permutations(Requests)
===============================================================================
