------------------------------ MODULE MCDomains ------------------------------
(***************************************************************************)
(* Domains for TLC: two hosts, the first label of both is a username.      *)
(***************************************************************************)
EXTENDS Domains

CONSTANT anna

FirstLabel == [d \in Hosts |-> anna]
===============================================================================
