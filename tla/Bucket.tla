-------------------------------- MODULE Bucket --------------------------------
(***************************************************************************)
(* What the rate limiter promises for one address: a bucket that gains     *)
(* one unit in a tick of the clock, holds at most Full, and must have Cost *)
(* units for a request to be let through, which takes them out.            *)
(***************************************************************************)
EXTENDS Naturals

CONSTANTS Addresses, Full, Cost

VARIABLE credit     \* credit[a]: what is in the bucket of address a

AtMostFull(n) == IF n > Full THEN Full ELSE n

Init == credit = [a \in Addresses |-> Full]

Tick == credit' = [a \in Addresses |-> AtMostFull(credit[a] + 1)]

LetThrough(a) ==
    /\ credit[a] >= Cost
    /\ credit' = [credit EXCEPT ![a] = @ - Cost]

Next == Tick \/ \E a \in Addresses : LetThrough(a)

Spec == Init /\ [][Next]_credit
===============================================================================
