---------------------------- MODULE RateLimitProofs ----------------------------
(***************************************************************************)
(* Proofs about RateLimit, for any number of addresses and requests and    *)
(* for any length of time: the map of lazy buckets implements one bucket   *)
(* for each address, and what it lets through is bounded.                  *)
(***************************************************************************)
EXTENDS RateLimit, TLAPS

USE RateLimitAssumption DEF Full, Cost

Steps == {"idle", "lock", "make", "allow"}

Request == [at : Steps, ip : Addresses \cup {None}, limiter : Nat \cup {None}]

Types ==
    /\ clock \in Nat
    /\ visitors \in [Addresses -> Nat \cup {None}]
    /\ buckets \in Seq([units : 0 .. Full, last : Nat])
    /\ mu \in Requests \cup {None}
    /\ req \in [Requests -> Request]
    /\ \A r \in Requests : ~At(r, "idle") => req[r].ip \in Addresses
    /\ admitted \in [Addresses -> Seq(Nat)]

\* Each address has a bucket of its own, whose last success is not in the future.
Apart ==
    /\ \A a \in Addresses : visitors[a] # None => visitors[a] \in DOMAIN buckets
    /\ \A a, b \in Addresses : visitors[a] = visitors[b] /\ visitors[a] # None => a = b
    /\ \A b \in DOMAIN buckets : buckets[b].last <= clock

\* Who makes a bucket holds the mutex; who asks a bucket asks the one in the map.
Guarded ==
    /\ \A r \in Requests : At(r, "make") => mu = r /\ visitors[req[r].ip] = None
    /\ \A r \in Requests : At(r, "allow") =>
          req[r].limiter # None /\ visitors[req[r].ip] = req[r].limiter

Inv == Types /\ Apart /\ Guarded

-------------------------------------------------------------------------------
\* The elements of a sequence are of its type.
LEMMA Elements ==
    ASSUME NEW S, NEW s \in Seq(S)
    PROVE  Len(s) \in Nat /\ DOMAIN s = 1 .. Len(s) /\ \A i \in DOMAIN s : s[i] \in S
OBVIOUS

\* What a bucket holds is a number of units, and grows with the clock.
LEMMA UnitsType ==
    ASSUME Inv, NEW b \in DOMAIN buckets
    PROVE  /\ Units(b) \in 0 .. Full
           /\ buckets[b] \in [units : 0 .. Full, last : Nat]
           /\ Units(b) = AtMostFull(buckets[b].units + (clock - buckets[b].last))
<1>1. buckets[b] \in [units : 0 .. Full, last : Nat]
  BY Elements DEF Inv, Types
<1>2. buckets[b].last <= clock /\ clock \in Nat
  BY DEF Inv, Types, Apart
<1> QED
  BY <1>1, <1>2 DEF Units, AtMostFull

\* A sequence and one element more.
LEMMA Appended ==
    ASSUME NEW S, NEW s \in Seq(S), NEW e \in S
    PROVE  /\ Append(s, e) \in Seq(S) /\ Len(s) \in Nat
           /\ DOMAIN s = 1 .. Len(s)
           /\ DOMAIN Append(s, e) = DOMAIN s \cup {Len(s) + 1}
           /\ Append(s, e)[Len(s) + 1] = e /\ Len(s) + 1 \notin DOMAIN s
           /\ \A i \in DOMAIN s : Append(s, e)[i] = s[i]
OBVIOUS

\* The invariant holds at first, and each action keeps it.
LEMMA InitInv == Init => Inv
<1> SUFFICES ASSUME Init PROVE Inv
  OBVIOUS
<1>1. buckets \in Seq([units : 0 .. Full, last : Nat]) /\ DOMAIN buckets = {}
  BY DEF Init
<1>2. admitted \in [Addresses -> Seq(Nat)]
  BY DEF Init
<1>3. Idle \in Request /\ Idle.at = "idle" /\ req = [r \in Requests |-> Idle]
  BY DEF Init, Idle, Request, Steps
<1>4. Types
  BY <1>1, <1>2, <1>3 DEF Init, Types, At
<1>5. Apart /\ Guarded
  BY <1>1, <1>3 DEF Init, Apart, Guarded, At
<1> QED
  BY <1>4, <1>5 DEF Inv

LEMMA TickInv == ASSUME Inv, Tick PROVE Inv'
<1>1. Types'
  BY DEF Inv, Types, Tick, At
<1>2. Apart'
  <2>1. \A b \in DOMAIN buckets : buckets[b].last \in Nat
    BY UnitsType
  <2> QED
    BY <2>1 DEF Inv, Types, Apart, Tick
<1> QED
  BY <1>1, <1>2 DEF Inv, Guarded, Tick, At

LEMMA ArriveInv ==
    ASSUME Inv, NEW r \in Requests, NEW a \in Addresses, Arrive(r, a) PROVE Inv'
<1>1. req' = [req EXCEPT ![r] = [at |-> "lock", ip |-> a, limiter |-> None]]
      /\ UNCHANGED <<clock, visitors, buckets, mu, admitted>>
  BY DEF Arrive
<1>2. /\ req' \in [Requests -> Request] /\ req'[r].at = "lock" /\ req'[r].ip = a
      /\ \A q \in Requests : q # r => req'[q] = req[q]
  BY <1>1 DEF Inv, Types, Request, Steps
<1>4. Types'
  BY <1>1, <1>2 DEF Inv, Types, At
<1>5. Apart' /\ Guarded'
  BY <1>1, <1>2 DEF Inv, Apart, Guarded, At
<1> QED
  BY <1>4, <1>5 DEF Inv

LEMMA LookInv == ASSUME Inv, NEW r \in Requests, Look(r) PROVE Inv'
<1>1. UNCHANGED <<clock, visitors, buckets, admitted>> /\ mu = None
  BY DEF Look
<1>2. /\ At(r, "lock") /\ req[r].ip \in Addresses /\ req[r] \in Request
      /\ req \in [Requests -> Request]
      /\ visitors[req[r].ip] \in Nat \cup {None}
  BY DEF Look, Inv, Types, At
<1>3. CASE visitors[req[r].ip] = None
  <2>1. mu' = r /\ req' = [req EXCEPT ![r].at = "make"]
    BY <1>3 DEF Look
  <2>2. /\ req' \in [Requests -> Request] /\ req'[r].at = "make" /\ req'[r].ip = req[r].ip
        /\ \A q \in Requests : q # r => req'[q] = req[q]
    BY <1>2, <2>1 DEF Request, Steps
  <2>3. Types'
    BY <1>1, <1>2, <2>1, <2>2 DEF Inv, Types, At
  <2>4. Apart' /\ Guarded'
    BY <1>1, <1>3, <2>1, <2>2 DEF Inv, Apart, Guarded, At
  <2> QED
    BY <2>3, <2>4 DEF Inv
<1>4. CASE visitors[req[r].ip] # None
  <2>1. mu' = None
        /\ req' = [req EXCEPT ![r].at = "allow", ![r].limiter = visitors[req[r].ip]]
    BY <1>4 DEF Look
  <2>2. /\ req' \in [Requests -> Request] /\ req'[r].at = "allow" /\ req'[r].ip = req[r].ip
        /\ req'[r].limiter = visitors[req[r].ip]
        /\ \A q \in Requests : q # r => req'[q] = req[q]
    BY <1>2, <2>1 DEF Request, Steps
  <2>3. Types'
    BY <1>1, <1>2, <2>1, <2>2 DEF Inv, Types, At
  <2>4. Apart' /\ Guarded'
    BY <1>1, <1>4, <2>1, <2>2 DEF Inv, Apart, Guarded, At
  <2> QED
    BY <2>3, <2>4 DEF Inv
<1> QED
  BY <1>3, <1>4

LEMMA MakeInv == ASSUME Inv, NEW r \in Requests, Make(r) PROVE Inv'
<1> DEFINE b == Len(buckets) + 1
           full == [units |-> Full, last |-> clock]
           ip == req[r].ip
<1>1. /\ At(r, "make") /\ buckets' = Append(buckets, full)
      /\ visitors' = [visitors EXCEPT ![ip] = b] /\ mu' = None
      /\ UNCHANGED <<clock, admitted>>
      /\ ip \in Addresses /\ visitors[ip] = None /\ mu = r
  BY DEF Make, Inv, Types, Guarded, At
<1>2. /\ req' \in [Requests -> Request]
      /\ \A q \in Requests : q # r => req'[q] = req[q]
      /\ req'[r].at = "allow" /\ req'[r].ip = ip /\ req'[r].limiter = b
  <2>1. req \in [Requests -> Request] /\ req[r] \in Request /\ b \in Nat
    BY Elements DEF Inv, Types
  <2>2. req' = [req EXCEPT ![r].at = "allow", ![r].limiter = b]
    BY DEF Make
  <2> QED
    BY <2>1, <2>2 DEF Request, Steps
<1>3. /\ buckets' \in Seq([units : 0 .. Full, last : Nat])
      /\ b \in Nat /\ b \notin DOMAIN buckets /\ b # None
      /\ DOMAIN buckets' = DOMAIN buckets \cup {b} /\ buckets'[b] = full
      /\ \A i \in DOMAIN buckets : buckets'[i] = buckets[i]
  <2>1. buckets \in Seq([units : 0 .. Full, last : Nat])
        /\ full \in [units : 0 .. Full, last : Nat]
    BY DEF Inv, Types
  <2> QED
    BY <1>1, <2>1, Appended
<1>4. /\ visitors'[ip] = b
      /\ \A a \in Addresses : a # ip => visitors'[a] = visitors[a]
      /\ visitors' \in [Addresses -> Nat \cup {None}]
  BY <1>1, <1>3 DEF Inv, Types
<1>5. Types'
  BY <1>1, <1>2, <1>3, <1>4 DEF Inv, Types, At
<1>6. Apart'
  <2>1. full.last <= clock
    BY DEF Inv, Types
  <2> QED
    BY <1>1, <1>3, <1>4, <2>1 DEF Inv, Apart
<1>7. Guarded'
  <2>1. \A q \in Requests \ {r} : ~At(q, "make")
    BY <1>1 DEF Inv, Guarded
  <2>2. \A q \in Requests \ {r} : At(q, "allow") => req[q].ip \in Addresses /\ req[q].ip # ip
    BY <1>1 DEF Inv, Types, Guarded, At
  <2>3. ~At(r, "make")' /\ At(r, "allow")'
    BY <1>2 DEF At
  <2>4. ASSUME NEW q \in Requests \ {r}, At(q, "allow")
        PROVE  req[q].limiter # None /\ visitors'[req[q].ip] = req[q].limiter
    BY <1>4, <2>2, <2>4 DEF Inv, Guarded
  <2> QED
    BY <1>2, <1>3, <1>4, <2>1, <2>3, <2>4 DEF Guarded, At
<1> QED
  BY <1>5, <1>6, <1>7 DEF Inv

\* What the request takes is out of the bucket it got, and of no other.
LEMMA LetThroughFacts ==
    ASSUME Inv, NEW r \in Requests, LetThrough(r), NEW b, b = req[r].limiter
    PROVE  /\ b \in DOMAIN buckets /\ req[r].ip \in Addresses /\ visitors[req[r].ip] = b /\ b # None
           /\ Units(b) >= Cost
           /\ DOMAIN buckets' = DOMAIN buckets
           /\ buckets'[b] = [units |-> Units(b) - Cost, last |-> clock]
           /\ \A i \in DOMAIN buckets : i # b => buckets'[i] = buckets[i]
           /\ buckets' \in Seq([units : 0 .. Full, last : Nat])
           /\ UNCHANGED <<clock, visitors, mu>>
           /\ admitted' = [admitted EXCEPT ![req[r].ip] = Append(@, clock)]
<1>1. b \in DOMAIN buckets /\ req[r].ip \in Addresses /\ visitors[req[r].ip] = b /\ b # None
  BY DEF LetThrough, Inv, Types, Apart, Guarded, At
<1>2. /\ Units(b) >= Cost /\ UNCHANGED <<clock, visitors, mu>>
      /\ buckets' = [buckets EXCEPT ![b] = [units |-> Units(b) - Cost, last |-> clock]]
      /\ admitted' = [admitted EXCEPT ![req[r].ip] = Append(@, clock)]
  BY DEF LetThrough
<1>3. [units |-> Units(b) - Cost, last |-> clock] \in [units : 0 .. Full, last : Nat]
  <2>1. Units(b) \in 0 .. Full /\ clock \in Nat
    BY <1>1, UnitsType DEF Inv, Types
  <2>2. Units(b) - Cost \in 0 .. Full
    BY <1>2, <2>1
  <2> QED
    BY <2>1, <2>2
<1>4. ASSUME NEW S, NEW s \in Seq(S), NEW i \in DOMAIN s, NEW e \in S
      PROVE  [s EXCEPT ![i] = e] \in Seq(S)
  OBVIOUS
<1>5. buckets' \in Seq([units : 0 .. Full, last : Nat])
  BY <1>1, <1>2, <1>3, <1>4 DEF Inv, Types
<1> QED
  BY <1>1, <1>2, <1>5

\* A request that is over holds nothing.
LEMMA IdleAgain ==
    ASSUME Inv, NEW r \in Requests, req' = [req EXCEPT ![r] = Idle]
    PROVE  /\ req' \in [Requests -> Request]
           /\ \A q \in Requests : q # r => req'[q] = req[q]
           /\ req'[r].at = "idle"
BY DEF Inv, Types, Idle, Request, Steps

LEMMA LetThroughInv == ASSUME Inv, NEW r \in Requests, LetThrough(r) PROVE Inv'
<1> PICK b : b = req[r].limiter
  OBVIOUS
<1>1. req' = [req EXCEPT ![r] = Idle]
  BY DEF LetThrough
<1>2. /\ b \in DOMAIN buckets /\ req[r].ip \in Addresses
      /\ DOMAIN buckets' = DOMAIN buckets /\ buckets'[b].last = clock
      /\ \A i \in DOMAIN buckets : i # b => buckets'[i] = buckets[i]
      /\ buckets' \in Seq([units : 0 .. Full, last : Nat])
      /\ UNCHANGED <<clock, visitors, mu>>
      /\ admitted' = [admitted EXCEPT ![req[r].ip] = Append(@, clock)]
  <2>1. buckets'[b] = [units |-> Units(b) - Cost, last |-> clock]
    BY LetThroughFacts
  <2> QED
    BY <2>1, LetThroughFacts
<1>3. admitted' \in [Addresses -> Seq(Nat)]
  <2>1. admitted \in [Addresses -> Seq(Nat)] /\ clock \in Nat
    BY DEF Inv, Types
  <2>2. Append(admitted[req[r].ip], clock) \in Seq(Nat)
    BY <1>2, <2>1, Appended
  <2> QED
    BY <1>2, <2>1, <2>2
<1>4. Types'
  BY <1>1, <1>2, <1>3, IdleAgain DEF Inv, Types, At
<1>5. Apart'
  <2>1. clock <= clock
    BY DEF Inv, Types
  <2> QED
    BY <1>2, <2>1 DEF Inv, Apart
<1>6. Guarded'
  BY <1>1, <1>2, IdleAgain DEF Inv, Guarded, At
<1> QED
  BY <1>4, <1>5, <1>6 DEF Inv

LEMMA RefuseInv == ASSUME Inv, NEW r \in Requests, Refuse(r) PROVE Inv'
<1>1. req' = [req EXCEPT ![r] = Idle] /\ UNCHANGED <<clock, visitors, buckets, mu, admitted>>
  BY DEF Refuse
<1>2. Types'
  BY <1>1, IdleAgain DEF Inv, Types, At
<1>3. Apart' /\ Guarded'
  BY <1>1, IdleAgain DEF Inv, Apart, Guarded, At
<1> QED
  BY <1>2, <1>3 DEF Inv

LEMMA NextInv == Inv /\ [Next]_vars => Inv'
<1> SUFFICES ASSUME Inv, [Next]_vars PROVE Inv'
  OBVIOUS
<1>1. CASE UNCHANGED vars
  BY <1>1 DEF vars, Inv, Types, Apart, Guarded, At
<1>2. CASE Next
  BY <1>2, TickInv, ArriveInv, LookInv, MakeInv, LetThroughInv, RefuseInv DEF Next, Serve
<1> QED
  BY <1>1, <1>2

(***************************************************************************)
(* Addresses never share a bucket, whatever requests getVisitor serves at  *)
(* once: the one who makes a bucket holds the mutex, and the bucket a      *)
(* request got is still the one in the map when it asks it.                *)
(***************************************************************************)
THEOREM Invariance == Spec => []Inv
BY InitInv, NextInv, PTL DEF Spec

-------------------------------------------------------------------------------
\* What the map holds for an address.
LEMMA CreditType == ASSUME Inv PROVE Credit \in [Addresses -> 0 .. Full]
BY UnitsType DEF Credit, Inv, Apart

\* Time fills every bucket by one unit; a bucket that is not there stays full.
LEMMA TickCredit ==
    ASSUME Inv, Tick
    PROVE  Credit' = [a \in Addresses |-> AtMostFull(Credit[a] + 1)]
<1>1. clock' = clock + 1 /\ UNCHANGED <<visitors, buckets>> /\ clock \in Nat
  BY DEF Tick, Inv, Types
<1>2. ASSUME NEW b \in DOMAIN buckets PROVE Units(b)' = AtMostFull(Units(b) + 1)
  <2>1. /\ buckets[b].units \in 0 .. Full /\ buckets[b].last \in Nat
        /\ buckets[b].last <= clock
    BY UnitsType DEF Inv, Apart
  <2> QED
    BY <1>1, <2>1 DEF Units, AtMostFull
<1>3. ASSUME NEW a \in Addresses
      PROVE  (IF visitors[a] = None THEN Full ELSE Units(visitors[a]))'
              = AtMostFull(Credit[a] + 1)
  <2>1. CASE visitors[a] = None
    BY <1>1, <2>1 DEF Credit, AtMostFull
  <2>2. CASE visitors[a] # None
    <3>1. visitors[a] \in DOMAIN buckets
      BY <2>2 DEF Inv, Apart
    <3> QED
      BY <1>1, <1>2, <2>2, <3>1 DEF Credit
  <2> QED
    BY <2>1, <2>2
<1> QED
  BY <1>3 DEF Credit

\* A request that is let through takes its cost out of its address's bucket.
LEMMA LetThroughCredit ==
    ASSUME Inv, NEW r \in Requests, LetThrough(r)
    PROVE  /\ Credit[req[r].ip] >= Cost
           /\ Credit' = [Credit EXCEPT ![req[r].ip] = @ - Cost]
<1> PICK b, ip : b = req[r].limiter /\ ip = req[r].ip
  OBVIOUS
<1>1. /\ b \in DOMAIN buckets /\ ip \in Addresses /\ visitors[ip] = b /\ b # None
      /\ Units(b) >= Cost /\ Units(b) \in 0 .. Full /\ clock \in Nat
      /\ clock' = clock /\ visitors' = visitors
      /\ buckets'[b] = [units |-> Units(b) - Cost, last |-> clock]
      /\ \A i \in DOMAIN buckets : i # b => buckets'[i] = buckets[i]
  BY LetThroughFacts, UnitsType DEF Inv, Types
<1>2. Credit[ip] = Units(b)
  BY <1>1 DEF Credit
<1>3. Units(b)' = Units(b) - Cost
  BY <1>1 DEF Units, AtMostFull
<1>4. ASSUME NEW a \in Addresses, a # ip, visitors[a] # None
      PROVE  Units(visitors[a])' = Units(visitors[a])
  <2>1. visitors[a] \in DOMAIN buckets /\ visitors[a] # b
    BY <1>1, <1>4 DEF Inv, Apart
  <2> QED
    BY <1>1, <2>1 DEF Units
<1>5. \A a \in Addresses :
         (IF visitors[a] = None THEN Full ELSE Units(visitors[a]))'
          = IF a = ip THEN Credit[ip] - Cost ELSE Credit[a]
  BY <1>1, <1>2, <1>3, <1>4 DEF Credit
<1>6. Credit' = [a \in Addresses |-> IF a = ip THEN Credit[ip] - Cost ELSE Credit[a]]
  BY <1>5 DEF Credit
<1> QED
  BY <1>1, <1>2, <1>6 DEF Credit

\* All other steps leave it alone.
LEMMA OtherCredit ==
    ASSUME Inv, NEW r \in Requests,
           Look(r) \/ Make(r) \/ Refuse(r) \/ \E a \in Addresses : Arrive(r, a)
    PROVE  UNCHANGED <<Credit, clock, admitted>>
<1>1. CASE Make(r)
  <2> PICK b, ip : b = Len(buckets) + 1 /\ ip = req[r].ip
    OBVIOUS
  <2>1. /\ ip \in Addresses /\ visitors[ip] = None /\ visitors' = [visitors EXCEPT ![ip] = b]
        /\ buckets' = Append(buckets, [units |-> Full, last |-> clock])
        /\ UNCHANGED <<clock, admitted>> /\ clock \in Nat
        /\ buckets \in Seq([units : 0 .. Full, last : Nat])
        /\ [units |-> Full, last |-> clock] \in [units : 0 .. Full, last : Nat]
    BY <1>1 DEF Make, Inv, Types, Guarded, At
  <2>2. /\ buckets'[b] = [units |-> Full, last |-> clock] /\ b \in Nat
        /\ \A i \in DOMAIN buckets : buckets'[i] = buckets[i]
    BY <2>1, Appended
  <2>3. visitors'[ip] = b /\ b # None /\ Units(b)' = Full
    BY <2>1, <2>2 DEF Units, AtMostFull, Inv, Types
  <2>4. ASSUME NEW a \in Addresses, a # ip
        PROVE  (IF visitors[a] = None THEN Full ELSE Units(visitors[a]))' = Credit[a]
    <3>1. visitors'[a] = visitors[a]
      BY <2>1, <2>4 DEF Inv, Types
    <3>2. visitors[a] # None => visitors[a] \in DOMAIN buckets
      BY DEF Inv, Apart
    <3> QED
      BY <2>1, <2>2, <3>1, <3>2 DEF Credit, Units
  <2>5. \A a \in Addresses :
           (IF visitors[a] = None THEN Full ELSE Units(visitors[a]))' = Credit[a]
    BY <2>1, <2>3, <2>4 DEF Credit
  <2> QED
    BY <2>1, <2>5 DEF Credit
<1>2. CASE Look(r) \/ Refuse(r) \/ \E a \in Addresses : Arrive(r, a)
  BY <1>2 DEF Look, Refuse, Arrive, Credit, Units
<1> QED
  BY <1>1, <1>2

(***************************************************************************)
(* getVisitor and Allow, with their map, mutex and lazy buckets, implement *)
(* Bucket: one bucket for an address, which fills by half a token a second *)
(* up to a burst of two, and from which each request takes one.            *)
(***************************************************************************)
THEOREM Implements == Spec => IsOneBucket
<1>1. Init => OneBucket!Init
  BY DEF Init, OneBucket!Init, Credit
<1>2. Inv /\ [Next]_vars => [OneBucket!Next]_Credit
  <2> SUFFICES ASSUME Inv, [Next]_vars, Credit' # Credit PROVE OneBucket!Next
    OBVIOUS
  <2>1. CASE Tick
    BY <2>1, TickCredit DEF OneBucket!Next, OneBucket!Tick, OneBucket!AtMostFull, AtMostFull
  <2>2. ASSUME NEW r \in Requests, LetThrough(r) PROVE OneBucket!Next
    <3>1. req[r].ip \in Addresses
      BY <2>2, LetThroughFacts
    <3> QED
      BY <2>2, <3>1, LetThroughCredit DEF OneBucket!Next, OneBucket!LetThrough
  <2>3. CASE UNCHANGED vars
    BY <2>3 DEF vars, Credit, Units
  <2> QED
    BY <2>1, <2>2, <2>3, OtherCredit DEF Next, Serve
<1> QED
  BY <1>1, <1>2, Invariance, PTL DEF Spec, IsOneBucket, OneBucket!Spec

-------------------------------------------------------------------------------
(***************************************************************************)
(* What was let through since a request, with what the bucket still holds, *)
(* is no more than a full bucket and what it gained since.                 *)
(***************************************************************************)
Accounted ==
    \A a \in Addresses : \A i \in DOMAIN admitted[a] :
        /\ admitted[a][i] <= clock
        /\ Cost * (Len(admitted[a]) - i + 1) + Credit[a] <= Full + (clock - admitted[a][i])

IInv == Inv /\ Accounted /\ BurstAndRate

\* The arithmetic of a request that is let through.
LEMMA Taken ==
    ASSUME NEW n \in Nat, NEW i \in 1 .. n, NEW c \in 0 .. Full, c >= Cost,
           NEW t \in Nat, NEW s \in Nat, Cost * (n - i + 1) + c <= Full + (t - s)
    PROVE  /\ Cost * (n + 1 - i + 1) + (c - Cost) <= Full + (t - s)
           /\ Cost * (n + 1 - i + 1) <= Full + (t - s)
OBVIOUS

\* A request that is let through takes from the bucket what it adds to the account.
LEMMA LetThroughBound ==
    ASSUME IInv, NEW r \in Requests, LetThrough(r)
    PROVE  (Accounted /\ BurstAndRate)'
<1> PICK ip, n : ip = req[r].ip /\ n = Len(admitted[ip])
  OBVIOUS
<1>1. /\ ip \in Addresses /\ clock' = clock /\ clock \in Nat
      /\ admitted' = [admitted EXCEPT ![ip] = Append(@, clock)]
      /\ admitted \in [Addresses -> Seq(Nat)]
  BY LetThroughFacts DEF IInv, Inv, Types
<1>2. /\ \A a \in Addresses : a # ip => admitted'[a] = admitted[a] /\ Credit'[a] = Credit[a]
      /\ Credit'[ip] = Credit[ip] - Cost
      /\ Credit[ip] \in 0 .. Full /\ Credit[ip] >= Cost
  BY <1>1, LetThroughCredit, CreditType DEF IInv
<1>3. /\ n \in Nat /\ DOMAIN admitted[ip] = 1 .. n /\ DOMAIN admitted'[ip] = 1 .. n + 1
      /\ Len(admitted'[ip]) = n + 1 /\ admitted'[ip][n + 1] = clock
      /\ \A i \in 1 .. n : admitted'[ip][i] = admitted[ip][i] /\ admitted[ip][i] \in Nat
  <2>1. admitted'[ip] = Append(admitted[ip], clock) /\ admitted[ip] \in Seq(Nat)
    BY <1>1
  <2> QED
    BY <1>1, <2>1
<1>4. \A i \in 1 .. n : /\ admitted[ip][i] <= clock
                        /\ Cost * (n - i + 1) + Credit[ip] <= Full + (clock - admitted[ip][i])
  BY <1>1, <1>3 DEF IInv, Accounted
<1>5. Accounted'
  <2>1. ASSUME NEW i \in 1 .. n + 1
        PROVE  /\ admitted'[ip][i] <= clock
               /\ Cost * (n + 1 - i + 1) + Credit'[ip] <= Full + (clock - admitted'[ip][i])
    <3>1. CASE i = n + 1
      BY <1>1, <1>2, <1>3, <3>1
    <3>2. CASE i \in 1 .. n
      <4>1. /\ admitted'[ip][i] = admitted[ip][i] /\ admitted[ip][i] \in Nat
            /\ admitted[ip][i] <= clock
            /\ Cost * (n - i + 1) + Credit[ip] <= Full + (clock - admitted[ip][i])
        BY <1>3, <1>4, <3>2
      <4>2. Cost * (n + 1 - i + 1) + (Credit[ip] - Cost) <= Full + (clock - admitted[ip][i])
        BY <1>1, <1>2, <1>3, <3>2, <4>1, Taken
      <4> QED
        BY <1>1, <1>2, <4>1, <4>2
    <3>3. i = n + 1 \/ i \in 1 .. n
      BY <1>3
    <3> QED
      BY <3>1, <3>2, <3>3
  <2>2. ASSUME NEW a \in Addresses, a # ip, NEW i \in DOMAIN admitted[a]
        PROVE  /\ admitted[a][i] <= clock
               /\ Cost * (Len(admitted[a]) - i + 1) + Credit[a] <= Full + (clock - admitted[a][i])
    BY DEF IInv, Accounted
  <2>3. \A a \in Addresses : \A i \in DOMAIN admitted'[a] :
           /\ admitted'[a][i] <= clock
           /\ Cost * (Len(admitted'[a]) - i + 1) + Credit'[a] <= Full + (clock - admitted'[a][i])
    <3>1. ASSUME NEW i \in DOMAIN admitted'[ip]
          PROVE  /\ admitted'[ip][i] <= clock
                 /\ Cost * (Len(admitted'[ip]) - i + 1) + Credit'[ip]
                      <= Full + (clock - admitted'[ip][i])
      <4>1. DOMAIN admitted'[ip] = 1 .. n + 1 /\ Len(admitted'[ip]) = n + 1
        BY <1>3
      <4>2. /\ admitted'[ip][i] <= clock
            /\ Cost * (n + 1 - i + 1) + Credit'[ip] <= Full + (clock - admitted'[ip][i])
        BY <2>1, <4>1
      <4> QED
        BY <4>1, <4>2
    <3>2. ASSUME NEW a \in Addresses, a # ip, NEW i \in DOMAIN admitted'[a]
          PROVE  /\ admitted'[a][i] <= clock
                 /\ Cost * (Len(admitted'[a]) - i + 1) + Credit'[a]
                      <= Full + (clock - admitted'[a][i])
      <4>1. admitted'[a] = admitted[a] /\ Credit'[a] = Credit[a]
        BY <1>2, <3>2
      <4> QED
        BY <2>2, <3>2, <4>1
    <3> QED
      BY <3>1, <3>2
  <2> QED
    BY <1>1, <2>3 DEF Accounted
<1>6. BurstAndRate'
  <2>1. \A i \in 1 .. n + 1 : i = n + 1 \/ i \in 1 .. n
    BY <1>3
  <2>2. ASSUME NEW i \in 1 .. n + 1, NEW j \in 1 .. n + 1, i <= j
        PROVE  Cost * (j - i + 1) <= Full + (admitted'[ip][j] - admitted'[ip][i])
    <3>1. CASE j = n + 1
      <4>1. CASE i = n + 1
        BY <1>1, <1>3, <3>1, <4>1
      <4>2. CASE i \in 1 .. n
        <5>1. /\ admitted'[ip][i] = admitted[ip][i] /\ admitted[ip][i] \in Nat
              /\ Cost * (n - i + 1) + Credit[ip] <= Full + (clock - admitted[ip][i])
          BY <1>3, <1>4, <4>2
        <5>2. Cost * (n + 1 - i + 1) <= Full + (clock - admitted[ip][i])
          BY <1>1, <1>2, <1>3, <4>2, <5>1, Taken
        <5>3. admitted'[ip][j] = clock
          BY <1>3, <3>1
        <5> QED
          BY <3>1, <5>1, <5>2, <5>3
      <4> QED
        BY <2>1, <4>1, <4>2
    <3>2. CASE j \in 1 .. n
      <4>1. i \in 1 .. n
        BY <1>3, <2>2, <3>2
      <4>2. Cost * (j - i + 1) <= Full + (admitted[ip][j] - admitted[ip][i])
        BY <1>1, <1>3, <2>2, <3>2, <4>1 DEF IInv, BurstAndRate
      <4>3. admitted'[ip][i] = admitted[ip][i] /\ admitted'[ip][j] = admitted[ip][j]
        BY <1>3, <3>2, <4>1
      <4> QED
        BY <4>2, <4>3
    <3> QED
      BY <2>1, <3>1, <3>2
  <2>3. ASSUME NEW a \in Addresses, a # ip
        PROVE  \A i, j \in DOMAIN admitted'[a] :
                  i <= j => Cost * (j - i + 1) <= Full + (admitted'[a][j] - admitted'[a][i])
    BY <1>2, <2>3 DEF IInv, BurstAndRate
  <2>4. \A i, j \in DOMAIN admitted'[ip] :
           i <= j => Cost * (j - i + 1) <= Full + (admitted'[ip][j] - admitted'[ip][i])
    BY <1>3, <2>2
  <2> QED
    BY <2>3, <2>4 DEF BurstAndRate
<1> QED
  BY <1>5, <1>6

\* Time fills the bucket no faster than it raises the bound.
LEMMA TickBound == ASSUME IInv, Tick PROVE (Accounted /\ BurstAndRate)'
<1>1. clock' = clock + 1 /\ admitted' = admitted /\ clock \in Nat
      /\ admitted \in [Addresses -> Seq(Nat)]
  BY DEF Tick, IInv, Inv, Types
<1>2. \A a \in Addresses : /\ Credit[a] \in 0 .. Full
                           /\ Credit'[a] \in 0 .. Full /\ Credit'[a] <= Credit[a] + 1
  BY TickCredit, CreditType DEF IInv, AtMostFull
<1>3. ASSUME NEW a \in Addresses, NEW i \in DOMAIN admitted'[a]
      PROVE  /\ admitted'[a][i] <= clock'
             /\ Cost * (Len(admitted'[a]) - i + 1) + Credit'[a]
                  <= Full + (clock' - admitted'[a][i])
  <2>1. /\ admitted[a][i] \in Nat /\ admitted[a][i] <= clock
        /\ Len(admitted[a]) \in Nat /\ i \in Nat
        /\ Cost * (Len(admitted[a]) - i + 1) + Credit[a] <= Full + (clock - admitted[a][i])
    BY <1>1 DEF IInv, Accounted
  <2>2. /\ i \in 1 .. Len(admitted[a]) /\ clock' = clock + 1 /\ clock \in Nat
        /\ Credit[a] \in 0 .. Full /\ Credit'[a] \in 0 .. Full /\ Credit'[a] <= Credit[a] + 1
    BY <1>1, <1>2, Elements
  <2>3. PICK n, s, c, d, u : /\ n = Len(admitted[a]) /\ s = admitted[a][i]
                             /\ c = Credit[a] /\ d = Credit'[a] /\ u = clock'
    OBVIOUS
  <2>4. /\ n \in Nat /\ i \in 1 .. n /\ s \in Nat /\ c \in 0 .. Full /\ d \in 0 .. Full
        /\ d <= c + 1 /\ clock \in Nat /\ u = clock + 1 /\ s <= clock
    BY <2>1, <2>2, <2>3
  <2>5. Cost * (n - i + 1) + c <= Full + (clock - s)
    BY <2>1, <2>3
  <2>6. s <= u /\ Cost * (n - i + 1) + d <= Full + (u - s)
    BY <2>4, <2>5
  <2>7. /\ admitted[a][i] <= clock'
        /\ Cost * (Len(admitted[a]) - i + 1) + Credit'[a] <= Full + (clock' - admitted[a][i])
    BY <2>3, <2>6
  <2> QED
    BY <1>1, <2>7
<1>4. Accounted'
  BY <1>3 DEF Accounted
<1> QED
  BY <1>1, <1>4 DEF IInv, BurstAndRate

(***************************************************************************)
(* Logins, registrations and SFTP connections of one address are let       *)
(* through no faster than a burst of two and one for every two seconds, in *)
(* any span of time.                                                       *)
(***************************************************************************)
THEOREM RateIsBounded == Spec => []BurstAndRate
<1>1. Init => Accounted /\ BurstAndRate
  BY DEF Init, Accounted, BurstAndRate
<1>2. IInv /\ [Next]_vars => (Accounted /\ BurstAndRate)'
  <2> SUFFICES ASSUME IInv, [Next]_vars PROVE (Accounted /\ BurstAndRate)'
    OBVIOUS
  <2>1. ASSUME UNCHANGED <<Credit, clock, admitted>> PROVE (Accounted /\ BurstAndRate)'
    BY <2>1 DEF IInv, Accounted, BurstAndRate
  <2>2. CASE UNCHANGED vars
    BY <2>1, <2>2 DEF vars, Credit, Units
  <2>3. ASSUME NEW r \in Requests, Serve(r) \/ \E a \in Addresses : Arrive(r, a)
        PROVE  (Accounted /\ BurstAndRate)'
    BY <2>1, <2>3, LetThroughBound, OtherCredit DEF Serve, IInv
  <2> QED
    BY <2>2, <2>3, TickBound DEF Next
<1>3. IInv => BurstAndRate
  BY DEF IInv
<1> QED
  BY <1>1, <1>2, <1>3, InitInv, NextInv, PTL DEF Spec, IInv
================================================================================
