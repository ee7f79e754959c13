------------------------------ MODULE MCAccounts ------------------------------
(***************************************************************************)
(* Accounts for TLC: model values from the .cfg files, and the symmetry of *)
(* the names, identities and workers nothing singles out.                  *)
(***************************************************************************)
EXTENDS Accounts, TLC

Interchangeable ==
    Permutations(OkNames \ {Admin}) \cup Permutations(Ids \ {AdminId})
        \cup Permutations(Workers)
===============================================================================
