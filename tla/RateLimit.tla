------------------------------- MODULE RateLimit -------------------------------
(***************************************************************************)
(* limit.go: a map from addresses to token buckets, made on the first      *)
(* request of an address under the mutex mu.  It stands before the login   *)
(* and registration forms and before SFTP connections, each request in a   *)
(* goroutine of its own.  A bucket of golang.org/x/time/rate is lazy: it   *)
(* keeps what it held at its last success and when that was.               *)
(*                                                                         *)
(* rate.NewLimiter(.5, 2): a tick is a second and a unit half a token, so  *)
(* that a request costs two and four are a full bucket.                    *)
(***************************************************************************)
EXTENDS Naturals, Sequences

CONSTANTS
    Addresses,
    Requests,       \* requests and connections at work at once
    MaxClock,       \* a bound on time
    None

Full == 4
Cost == 2

ASSUME RateLimitAssumption ==
    MaxClock \in Nat /\ None \notin Requests /\ None \notin Nat

VARIABLES
    clock,      \* seconds
    visitors,   \* visitors[a]: the bucket of address a, or None
    buckets,    \* the buckets made, each with its units and the time of its last success
    mu,         \* the request that holds the mutex, or None
    req,        \* req[r]: the step a request is at, its address, the bucket it got
    admitted    \* history: the times at which requests of an address were let through

vars == <<clock, visitors, buckets, mu, req, admitted>>

-------------------------------------------------------------------------------
Idle == [at |-> "idle", ip |-> None, limiter |-> None]

At(r, step) == req[r].at = step

AtMostFull(n) == IF n > Full THEN Full ELSE n

\* What a bucket holds by now.
Units(b) == AtMostFull(buckets[b].units + (clock - buckets[b].last))

Init ==
    /\ clock = 0
    /\ visitors = [a \in Addresses |-> None]
    /\ buckets = <<>>
    /\ mu = None
    /\ req = [r \in Requests |-> Idle]
    /\ admitted = [a \in Addresses |-> <<>>]

Tick ==
    /\ clock < MaxClock
    /\ clock' = clock + 1
    /\ UNCHANGED <<visitors, buckets, mu, req, admitted>>

Arrive(r, a) ==
    /\ At(r, "idle")
    /\ req' = [req EXCEPT ![r] = [at |-> "lock", ip |-> a, limiter |-> None]]
    /\ UNCHANGED <<clock, visitors, buckets, mu, admitted>>

\* Mutant: the map is read without the mutex.
LookWithoutLock(r) ==
    /\ At(r, "lock")
    /\ req' = [req EXCEPT ![r].at = IF visitors[req[r].ip] = None THEN "make" ELSE "allow",
                          ![r].limiter = visitors[req[r].ip]]
    /\ UNCHANGED <<clock, visitors, buckets, mu, admitted>>

\* getVisitor: lock and look; mu.Unlock is deferred to its return.
Look(r) ==
    LET b == visitors[req[r].ip] IN
    /\ At(r, "lock") /\ mu = None
    /\ IF b = None
       THEN mu' = r /\ req' = [req EXCEPT ![r].at = "make"]
       ELSE mu' = None /\ req' = [req EXCEPT ![r].at = "allow", ![r].limiter = b]
    /\ UNCHANGED <<clock, visitors, buckets, admitted>>

\* A new bucket is full: its last time is long past.
Make(r) ==
    LET b == Len(buckets) + 1 IN
    /\ At(r, "make")
    /\ buckets' = Append(buckets, [units |-> Full, last |-> clock])
    /\ visitors' = [visitors EXCEPT ![req[r].ip] = b]
    /\ req' = [req EXCEPT ![r].at = "allow", ![r].limiter = b]
    /\ mu' = None
    /\ UNCHANGED <<clock, admitted>>

\* Mutant: a request is let through on the last half of a token.
LetThroughEarly(r) ==
    LET b == req[r].limiter IN
    /\ At(r, "allow") /\ Units(b) >= Cost - 1
    /\ buckets' = [buckets EXCEPT ![b] =
                     [units |-> IF Units(b) < Cost THEN 0 ELSE Units(b) - Cost, last |-> clock]]
    /\ admitted' = [admitted EXCEPT ![req[r].ip] = Append(@, clock)]
    /\ req' = [req EXCEPT ![r] = Idle]
    /\ UNCHANGED <<clock, visitors, mu>>

\* limiter.Allow() is true: the handler runs, or the SSH handshake.
LetThrough(r) ==
    LET b == req[r].limiter IN
    /\ At(r, "allow") /\ Units(b) >= Cost
    /\ buckets' = [buckets EXCEPT ![b] = [units |-> Units(b) - Cost, last |-> clock]]
    /\ admitted' = [admitted EXCEPT ![req[r].ip] = Append(@, clock)]
    /\ req' = [req EXCEPT ![r] = Idle]
    /\ UNCHANGED <<clock, visitors, mu>>

\* Mutant: a request that is refused tries again.
RefuseTriesAgain(r) ==
    /\ At(r, "allow") /\ Units(req[r].limiter) < Cost
    /\ req' = [req EXCEPT ![r].at = "lock"]
    /\ UNCHANGED <<clock, visitors, buckets, mu, admitted>>

\* 429, or the connection is closed.
Refuse(r) ==
    /\ At(r, "allow") /\ Units(req[r].limiter) < Cost
    /\ req' = [req EXCEPT ![r] = Idle]
    /\ UNCHANGED <<clock, visitors, buckets, mu, admitted>>

Serve(r) == Look(r) \/ Make(r) \/ LetThrough(r) \/ Refuse(r)

Next ==
    \/ Tick
    \/ \E r \in Requests : Serve(r) \/ \E a \in Addresses : Arrive(r, a)

Spec == Init /\ [][Next]_vars /\ \A r \in Requests : WF_vars(Serve(r))

-------------------------------------------------------------------------------
\* What the map holds for an address, seen as one bucket that fills as time goes.
Credit == [a \in Addresses |->
             IF visitors[a] = None THEN Full ELSE Units(visitors[a])]

(***************************************************************************)
(* The lazy buckets in the map, found or made under the mutex, are one     *)
(* bucket for each address that fills second by second.                    *)
(***************************************************************************)
OneBucket == INSTANCE Bucket WITH credit <- Credit

IsOneBucket == OneBucket!Spec

\* The mutex is given back: every request is let through or refused at last.
EveryRequestIsAnswered == \A r \in Requests : ~At(r, "idle") ~> At(r, "idle")

(***************************************************************************)
(* In any span of time no more requests of an address are let through than *)
(* a burst of two and one for every two seconds of the span.               *)
(***************************************************************************)
BurstAndRate ==
    \A a \in Addresses : \A i, j \in DOMAIN admitted[a] :
        i <= j => Cost * (j - i + 1) <= Full + (admitted[a][j] - admitted[a][i])
===============================================================================
