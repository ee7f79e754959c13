------------------------------- MODULE MCLogDump -------------------------------
(***************************************************************************)
(* LogDump with a clock in UTC, and with one that is put back an hour.     *)
(***************************************************************************)
EXTENDS LogDump

UTC == [t \in Instants |-> t]
===============================================================================
