----------------------------- MODULE DomainsProofs -----------------------------
(***************************************************************************)
(* Domains for any number of accounts, hosts and requests.  EntriesHold is *)
(* inductive with the read lock (Locked).  EveryClaimIsKnown needs to say  *)
(* what holds while the map is being filled (Covered); OneHolder, what a   *)
(* request that saw nobody else knows between its look at the map and its  *)
(* update (AloneIsFree).                                                   *)
(***************************************************************************)
EXTENDS Domains, TLAPS

\* A request under way has the name its row had.
Named == \A r \in Requests : ~At(r, "idle") => req[r].user # None

\* No two rows have one name.
Unique == \A i, j \in Rows : name[i] = name[j] /\ name[i] # None => i = j

\* What a query has still to return are rows with a domain.
Locked == \A r \in Requests : At(r, "put") => req[r].rows \subseteq Claims

\* A domain that is not in the map yet is one that some query has still to return.
Covered ==
    ~unread /\ (\A r \in Requests : req[r].at \notin {"clear", "query"}) =>
        \A i \in Claims :
            \/ domains[domain[i]] # None
            \/ \E r \in Requests : At(r, "put") /\ i \in req[r].rows

\* Nobody has the domain that a request which is alone is about to write, and nobody else writes.
AloneIsFree ==
    \A r \in Requests : At(r, "update") /\ req[r].alone =>
        /\ \A s \in Requests \ {r} : ~At(s, "update")
        /\ \A i \in Claims : domain[i] # req[r].new

Typed == TypeOK /\ Named

Kept == Unique /\ Locked /\ EntriesHold /\ Covered /\ AloneIsFree /\ OneHolder

IInv == Typed /\ Kept

Request == [at : Steps, user : Names \cup {None}, old : Hosts \cup {None},
            new : Hosts \cup {None}, rows : SUBSET Rows, alone : BOOLEAN]

-------------------------------------------------------------------------------
\* Goto keeps the type of the requests, and who is named.
LEMMA GotoTypes ==
    ASSUME TypeOK, NEW r \in Requests, NEW step \in Steps, Goto(r, step)
    PROVE  /\ req' \in [Requests -> Request]
           /\ Named /\ ~At(r, "idle") => Named'
           /\ req'[r].at = step /\ req'[r].rows = {} /\ ~req'[r].alone
           /\ \A s \in Requests \ {r} : req'[s] = req[s]
<1>1. req \in [Requests -> Request] /\ req[r] \in Request
  BY DEF TypeOK, Request
<1>2. [Idle EXCEPT !.at = step, !.user = req[r].user] \in Request
  BY <1>1 DEF Idle, Request
<1>3. req' \in [Requests -> Request] /\ req'[r] = [Idle EXCEPT !.at = step, !.user = req[r].user]
  BY <1>1, <1>2 DEF Goto
<1>4. \A s \in Requests \ {r} : req'[s] = req[s]
  BY <1>1 DEF Goto
<1>5. req'[r].at = step /\ req'[r].user = req[r].user /\ req'[r].rows = {} /\ ~req'[r].alone
  BY <1>3 DEF Idle
<1>6. Named /\ ~At(r, "idle") => Named'
  BY <1>4, <1>5 DEF Named, At
<1> QED BY <1>3, <1>4, <1>5, <1>6

\* A request that ends leaves nothing behind.
LEMMA EndTypes ==
    ASSUME TypeOK, NEW r \in Requests, req' = [req EXCEPT ![r] = Idle]
    PROVE  /\ req' \in [Requests -> Request]
           /\ Named => Named'
           /\ req'[r].at = "idle"
           /\ \A s \in Requests \ {r} : req'[s] = req[s]
<1>1. req \in [Requests -> Request] /\ Idle \in Request /\ Idle.at = "idle"
  BY DEF TypeOK, Request, Idle, Steps, Changing
<1>2. req' \in [Requests -> Request] /\ req'[r] = Idle /\ \A s \in Requests \ {r} : req'[s] = req[s]
  BY <1>1
<1>3. Named => Named'
  BY <1>1, <1>2 DEF Named, At
<1> QED BY <1>1, <1>2, <1>3

\* What Begin, Check, Query and Put do to the requests.
LEMMA BeginTypes ==
    ASSUME TypeOK, NEW r \in Requests, NEW i \in Rows, NEW d \in Hosts \cup {None}, Begin(r, i, d)
    PROVE  /\ req' \in [Requests -> Request]
           /\ Named => Named'
           /\ req'[r].at = "check"
           /\ \A s \in Requests \ {r} : req'[s] = req[s]
<1> DEFINE new == [Idle EXCEPT !.at = "check", !.user = name[i], !.old = domain[i], !.new = d]
<1>1. req \in [Requests -> Request] /\ name[i] \in Names /\ domain[i] \in Hosts \cup {None}
  BY DEF TypeOK, Request, Begin
<1>2. new \in Request /\ new.at = "check" /\ new.user # None
  BY <1>1 DEF Request, Idle, Steps, Begin
<1>3. req' \in [Requests -> Request] /\ req'[r] = new /\ \A s \in Requests \ {r} : req'[s] = req[s]
  BY <1>1, <1>2 DEF Begin
<1>4. Named => Named'
  BY <1>2, <1>3 DEF Named, At
<1> QED BY <1>2, <1>3, <1>4

LEMMA CheckTypes ==
    ASSUME TypeOK, NEW r \in Requests, Check(r)
    PROVE  /\ req' \in [Requests -> Request]
           /\ Named => Named'
           /\ req'[r].at = "update" /\ req'[r].new = req[r].new
           /\ req'[r].alone => ~unread /\ \A s \in Requests \ {r} : req[s].at \notin Changing
           /\ \A s \in Requests \ {r} :
                /\ req'[s].at = req[s].at /\ req'[s].new = req[s].new /\ req'[s].rows = req[s].rows
                /\ req[s].at \in Changing => ~req'[s].alone
<1> DEFINE others == {s \in Requests \ {r} : req[s].at \in Changing}
           mine == [req[r] EXCEPT !.at = "update", !.old = None,
                                  !.alone = (others = {} /\ ~unread)]
<1>1. req \in [Requests -> Request] /\ unread \in BOOLEAN
  BY DEF TypeOK, Request
<1>2. req' = [s \in Requests |-> CASE s = r -> mine
                                   [] s \in others -> [req[s] EXCEPT !.alone = FALSE]
                                   [] OTHER -> req[s]]
  BY DEF Check
<1>3. req'[r] = mine
  BY <1>2
<1>4. /\ mine \in Request /\ mine.at = "update" /\ mine.new = req[r].new
      /\ mine.user = req[r].user /\ mine.alone = (others = {} /\ ~unread)
  BY <1>1 DEF Request, Steps, Changing
<1>5. \A s \in others : req'[s] = [req[s] EXCEPT !.alone = FALSE]
  BY <1>2
<1>6. \A s \in Requests : s # r /\ s \notin others => req'[s] = req[s]
  BY <1>2
<1>7. ASSUME NEW s \in Requests \ {r}
      PROVE  /\ req'[s] \in Request
             /\ req'[s].at = req[s].at /\ req'[s].new = req[s].new /\ req'[s].rows = req[s].rows
             /\ req'[s].user = req[s].user
             /\ req[s].at \in Changing => ~req'[s].alone
  <2>1. req[s] \in Request
    BY <1>1
  <2>2. CASE s \in others
    BY <1>5, <2>1, <2>2 DEF Request
  <2>3. CASE s \notin others
    BY <1>6, <2>1, <2>3
  <2> QED BY <2>2, <2>3
<1>8. req' \in [Requests -> Request]
  <2>1. \A s \in Requests : req'[s] \in Request
    BY <1>3, <1>4, <1>7
  <2> QED BY <1>2, <2>1
<1>9. ASSUME Named
      PROVE  Named'
  <2>1. req'[r].user # None
    BY <1>3, <1>4, <1>9 DEF Named, At, Check
  <2>2. \A s \in Requests \ {r} : req'[s].at # "idle" => req'[s].user # None
    BY <1>7, <1>9 DEF Named, At
  <2> QED BY <2>1, <2>2 DEF Named, At
<1> QED BY <1>3, <1>4, <1>7, <1>8, <1>9

LEMMA QueryTypes ==
    ASSUME TypeOK, NEW r \in Requests, Query(r)
    PROVE  /\ req' \in [Requests -> Request]
           /\ Named => Named'
           /\ req'[r].at = "put" /\ req'[r].rows = Claims
           /\ \A s \in Requests \ {r} : req'[s] = req[s]
<1> DEFINE new == [req[r] EXCEPT !.at = "put", !.rows = Claims]
<1>1. req \in [Requests -> Request] /\ req[r] \in Request /\ Claims \subseteq Rows
  BY DEF TypeOK, Request, Claims
<1>2. new \in Request /\ new.at = "put" /\ new.rows = Claims /\ new.user = req[r].user
  BY <1>1 DEF Request, Steps, Changing
<1>3. req' = [req EXCEPT ![r] = new]
  BY <1>1 DEF Query
<1>4. req' \in [Requests -> Request] /\ req'[r] = new /\ \A s \in Requests \ {r} : req'[s] = req[s]
  BY <1>1, <1>2, <1>3
<1>5. Named => Named'
  BY <1>2, <1>4 DEF Named, At, Query
<1> QED BY <1>2, <1>4, <1>5

LEMMA PutTypes ==
    ASSUME TypeOK, NEW r \in Requests, NEW i \in Rows, Put(r, i)
    PROVE  /\ req' \in [Requests -> Request]
           /\ Named => Named'
           /\ req'[r].at = "put" /\ req'[r].rows = req[r].rows \ {i}
           /\ \A s \in Requests \ {r} : req'[s] = req[s]
<1> DEFINE new == [req[r] EXCEPT !.rows = @ \ {i}]
<1>1. req \in [Requests -> Request] /\ req[r] \in Request /\ req[r].at = "put"
  BY DEF TypeOK, Request, Put, At
<1>2. /\ new \in Request /\ new.at = "put" /\ new.rows = req[r].rows \ {i}
      /\ new.user = req[r].user
  BY <1>1 DEF Request
<1>3. req' = [req EXCEPT ![r] = new]
  BY <1>1 DEF Put
<1>4. req' \in [Requests -> Request] /\ req'[r] = new /\ \A s \in Requests \ {r} : req'[s] = req[s]
  BY <1>1, <1>2, <1>3
<1>5. Named => Named'
  BY <1>2, <1>4 DEF Named, At, Put
<1> QED BY <1>2, <1>4, <1>5

-------------------------------------------------------------------------------
\* Every way to change the rows.
LEMMA RowTypes ==
    ASSUME TypeOK, NEW i \in Rows
    PROVE  /\ \A n \in Names : RenameRow(i, n) =>
                /\ name' \in [Rows -> Names \cup {None}] /\ stale' \subseteq Hosts
                /\ \A j \in Rows : name'[j] = None => domain'[j] = None
           /\ Delete(i) =>
                /\ name' \in [Rows -> Names \cup {None}] /\ stale' \subseteq Hosts
                /\ domain' \in [Rows -> Hosts \cup {None}]
                /\ \A j \in Rows : name'[j] = None => domain'[j] = None
           /\ \A n \in Names : Register(i, n) =>
                /\ name' \in [Rows -> Names \cup {None}]
                /\ \A j \in Rows : name'[j] = None => domain'[j] = None
<1>1. /\ name \in [Rows -> Names \cup {None}] /\ domain \in [Rows -> Hosts \cup {None}]
      /\ stale \subseteq Hosts /\ \A j \in Rows : name[j] = None => domain[j] = None
  BY DEF TypeOK
<1>2. \A n \in Names : n # None
  BY DomainsAssumption
<1>3. ASSUME NEW n \in Names, RenameRow(i, n)
      PROVE  /\ name' \in [Rows -> Names \cup {None}] /\ stale' \subseteq Hosts
             /\ \A j \in Rows : name'[j] = None => domain'[j] = None
  BY <1>1, <1>2, <1>3 DEF RenameRow
<1>4. ASSUME Delete(i)
      PROVE  /\ name' \in [Rows -> Names \cup {None}] /\ stale' \subseteq Hosts
             /\ domain' \in [Rows -> Hosts \cup {None}]
             /\ \A j \in Rows : name'[j] = None => domain'[j] = None
  BY <1>1, <1>4 DEF Delete
<1>5. ASSUME NEW n \in Names, Register(i, n)
      PROVE  /\ name' \in [Rows -> Names \cup {None}]
             /\ \A j \in Rows : name'[j] = None => domain'[j] = None
  BY <1>1, <1>2, <1>5 DEF Register
<1> QED BY <1>3, <1>4, <1>5

\* Update gives a domain to a row that has a name.
LEMMA UpdateTypes ==
    ASSUME Typed, NEW r \in Requests, Update(r)
    PROVE  /\ domain' \in [Rows -> Hosts \cup {None}] /\ raced' \subseteq Hosts
           /\ \A i \in Rows : name[i] = None => domain'[i] = None
<1>1. /\ req[r] \in Request /\ req[r].user # None
      /\ domain \in [Rows -> Hosts \cup {None}] /\ raced \subseteq Hosts
      /\ \A i \in Rows : name[i] = None => domain[i] = None
  BY DEF Typed, TypeOK, Named, Request, Update, At
<1>2. req[r].new \in Hosts \cup {None}
  BY <1>1 DEF Request
<1> QED BY <1>1, <1>2 DEF Update

LEMMA InitTyped == Init => Typed
<1> SUFFICES ASSUME Init PROVE Typed
  OBVIOUS
<1>1. Idle \in Request /\ Idle.at = "idle"
  BY DEF Idle, Request, Steps
<1>2. \A r \in Requests : req[r] = Idle
  BY DEF Init
<1>3. name \in [Rows -> Names \cup {None}] /\ domain \in [Rows -> Hosts \cup {None}]
  BY DEF Init
<1>4. \A i \in Rows : domain[i] = None
  BY DEF Init
<1>5. req \in [Requests -> Request]
  BY <1>1 DEF Init
<1>6. TypeOK
  BY <1>3, <1>4, <1>5 DEF Init, TypeOK, Request, Empty
<1>7. Named
  BY <1>1, <1>2 DEF Named, At
<1> QED BY <1>6, <1>7 DEF Typed

LEMMA StepTyped == Typed /\ [Next]_vars => Typed'
<1> SUFFICES ASSUME Typed, [Next]_vars PROVE Typed'
  OBVIOUS
<1> USE DEF Typed
<1>1. CASE UNCHANGED vars
  BY <1>1 DEF TypeOK, Named, At, vars
<1>2. ASSUME NEW r \in Requests, NEW i \in Rows, NEW d \in Hosts \cup {None}, Begin(r, i, d)
      PROVE  Typed'
  BY <1>2, BeginTypes DEF Begin, TypeOK, Request, table, history
<1>3. ASSUME NEW r \in Requests, Check(r)
      PROVE  Typed'
  BY <1>3, CheckTypes DEF Check, TypeOK, Request, table, history
<1>4. ASSUME NEW r \in Requests, CheckTaken(r) \/ UpdateFails(r) \/ Close(r)
      PROVE  Typed'
  <2>1. Goto(r, "rename") /\ ~At(r, "idle") /\ UNCHANGED <<table, domains, history>>
    BY <1>4 DEF CheckTaken, UpdateFails, Close, At
  <2> QED BY <2>1, GotoTypes DEF TypeOK, Request, table, history, Steps
<1>5. ASSUME NEW r \in Requests, Update(r)
      PROVE  Typed'
  <2>1. Goto(r, "clear") /\ ~At(r, "idle") /\ UNCHANGED <<name, domains, stale, unread>>
    BY <1>5 DEF Update, At
  <2>2. req' \in [Requests -> Request] /\ Named'
    BY <2>1, GotoTypes DEF Steps, Changing
  <2> QED BY <1>5, <2>1, <2>2, UpdateTypes DEF TypeOK, Request
<1>6. ASSUME NEW r \in Requests, Clear(r)
      PROVE  Typed'
  <2>1. Goto(r, "query") /\ ~At(r, "idle") /\ UNCHANGED <<table, raced, unread>>
    BY <1>6 DEF Clear, At
  <2>2. req' \in [Requests -> Request] /\ Named'
    BY <2>1, GotoTypes DEF Steps, Changing
  <2> QED BY <1>6, <2>1, <2>2 DEF TypeOK, Request, table, Clear, Empty
<1>7. ASSUME NEW r \in Requests, Query(r)
      PROVE  Typed'
  BY <1>7, QueryTypes DEF Query, TypeOK, Request, table
<1>8. ASSUME NEW r \in Requests, QueryFails(r)
      PROVE  Typed'
  <2>1. Goto(r, "rename") /\ ~At(r, "idle") /\ UNCHANGED <<table, domains, stale, raced>>
    BY <1>8 DEF QueryFails, At
  <2> QED BY <1>8, <2>1, GotoTypes DEF TypeOK, Request, table, Steps, QueryFails
<1>9. ASSUME NEW r \in Requests, NEW i \in Rows, Put(r, i)
      PROVE  Typed'
  BY <1>9, PutTypes DEF Put, TypeOK, Request, table, history
<1>10. ASSUME NEW r \in Requests, NEW i \in Rows, NEW n \in Names, EndRenaming(r, i, n)
       PROVE  Typed'
  BY <1>10, EndTypes, RowTypes DEF EndRenaming, RenameRow, TypeOK, Request
<1>11. ASSUME NEW r \in Requests, End(r)
       PROVE  Typed'
  BY <1>11, EndTypes DEF End, TypeOK, Request, table, history
<1>12. ASSUME NEW i \in Rows, NEW n \in Names, Rename(i, n)
       PROVE  Typed'
  BY <1>12, RowTypes DEF Rename, RenameRow, TypeOK, Named, At
<1>13. ASSUME NEW i \in Rows, Delete(i)
       PROVE  Typed'
  BY <1>13, RowTypes DEF Delete, TypeOK, Named, At
<1>14. ASSUME NEW i \in Rows, NEW n \in Names, Register(i, n)
       PROVE  Typed'
  BY <1>14, RowTypes DEF Register, TypeOK, Named, At, history
<1>15. CASE Restart
  <2>1. Idle \in Request /\ Idle.at = "idle"
    BY DEF Idle, Request, Steps
  <2>2. Named'
    BY <1>15, <2>1 DEF Restart, Named, At
  <2>3. req' \in [Requests -> Request] /\ UNCHANGED <<name, domain, raced>> /\ stale' = {}
    BY <1>15, <2>1 DEF Restart, table
  <2>4. unread' \in BOOLEAN /\ domains' \in [Hosts -> Names \cup {None}]
    BY <1>15 DEF Restart, Empty
  <2> QED BY <2>2, <2>3, <2>4 DEF TypeOK, Request
<1> QED BY <1>1, <1>2, <1>3, <1>4, <1>5, <1>6, <1>7, <1>8, <1>9, <1>10, <1>11, <1>12, <1>13,
           <1>14, <1>15 DEF Next, Work

-------------------------------------------------------------------------------
LEMMA InitKept == Init => Kept
<1> SUFFICES ASSUME Init PROVE Kept
  OBVIOUS
<1>1. \A r \in Requests : req[r].at = "idle"
  BY DEF Init, Idle
<1>2. Claims = {}
  BY DEF Init, Claims
<1>3. \A d \in Hosts : domains[d] = None
  BY DEF Init, Empty
<1>4. Unique
  BY DEF Init, Unique
<1> QED BY <1>1, <1>2, <1>3, <1>4
           DEF Kept, Locked, EntriesHold, Covered, AloneIsFree, OneHolder, At

\* A request that moves between steps that neither change the table nor fill the map.
LEMMA MoveKept ==
    ASSUME Kept, UNCHANGED <<table, domains, history>>, NEW r \in Requests,
           \A s \in Requests \ {r} : req'[s] = req[s],
           req[r].at \notin {"clear", "query"}, At(r, "put") => req[r].rows = {},
           req'[r].at \notin Changing
    PROVE  Kept'
<1> USE DEF At, Changing
<1>1. UNCHANGED <<name, domain, domains, stale, raced, unread>> /\ Claims' = Claims
  BY DEF table, history, Claims
<1>2. Unique' /\ Locked' /\ AloneIsFree' /\ OneHolder'
  BY <1>1 DEF Kept, Unique, Locked, AloneIsFree, OneHolder
<1>3. EntriesHold'
  BY <1>1 DEF Kept, EntriesHold, Holds
<1>4. Covered'
  BY <1>1 DEF Kept, Covered
<1> QED BY <1>2, <1>3, <1>4 DEF Kept

\* A request that finds its domain free, with nobody else about, finds that nobody has it.
LEMMA CheckKept ==
    ASSUME Typed, Kept, NEW r \in Requests, Check(r)
    PROVE  Kept'
<1> USE DEF At
<1>1. UNCHANGED <<name, domain, domains, stale, raced, unread>> /\ Claims' = Claims
  BY DEF table, history, Claims, Check
<1>2. /\ req[r].at = "check" /\ req'[r].at = "update" /\ req'[r].new = req[r].new
      /\ req'[r].alone => ~unread /\ \A s \in Requests \ {r} : req[s].at \notin Changing
      /\ \A s \in Requests \ {r} :
           /\ req'[s].at = req[s].at /\ req'[s].new = req[s].new /\ req'[s].rows = req[s].rows
           /\ req[s].at \in Changing => ~req'[s].alone
  BY CheckTypes DEF Check, Typed
<1>3. Unique' /\ Locked' /\ OneHolder'
  BY <1>1, <1>2 DEF Kept, Unique, Locked, OneHolder
<1>4. EntriesHold'
  BY <1>1, <1>2 DEF Kept, EntriesHold, Holds
<1>5. Covered'
  BY <1>1, <1>2 DEF Kept, Covered
<1>6. ASSUME req'[r].alone
      PROVE  \A i \in Claims : domain[i] # req[r].new
  <2>1. \A s \in Requests : req[s].at \notin {"clear", "query", "put"}
    BY <1>2, <1>6 DEF Changing
  <2>2. \A i \in Claims : domains[domain[i]] # None
    BY <1>2, <1>6, <2>1 DEF Kept, Covered
  <2>3. req[r].new \in Hosts => domains[req[r].new] = None
    BY DEF Check, Free
  <2>4. \A i \in Claims : domain[i] \in Hosts
    BY DEF Typed, TypeOK, Claims
  <2> QED BY <2>2, <2>3, <2>4
<1>7. AloneIsFree'
  <2> SUFFICES ASSUME NEW s \in Requests, req'[s].at = "update", req'[s].alone
               PROVE  /\ \A q \in Requests \ {s} : req'[q].at # "update"
                      /\ \A i \in Claims : domain[i] # req'[s].new
    BY <1>1 DEF AloneIsFree
  <2>1. s = r
    BY <1>2 DEF Changing
  <2> QED BY <1>2, <1>6, <2>1 DEF Changing
<1> QED BY <1>3, <1>4, <1>5, <1>7 DEF Kept

\* The update: the one row with the name.
LEMMA UpdateKept ==
    ASSUME Typed, Kept, NEW r \in Requests, Update(r)
    PROVE  Kept'
<1> USE DEF At
<1>1. /\ UNCHANGED <<name, domains, stale, unread>> /\ ~Reading /\ req[r].at = "update"
      /\ domain' = [i \in Rows |-> IF name[i] = req[r].user THEN req[r].new ELSE domain[i]]
      /\ raced' = IF req[r].alone THEN raced ELSE raced \cup ({req[r].new} \ {None})
  BY DEF Update
<1>2. req'[r].at = "clear" /\ \A s \in Requests \ {r} : req'[s] = req[s]
  BY GotoTypes DEF Update, Typed, Steps, Changing
<1>3. req[r].user # None
  BY <1>1 DEF Typed, Named
<1>4. Unique'
  BY <1>1 DEF Kept, Unique
<1>5. Locked' /\ EntriesHold' /\ Covered'
  BY <1>1, <1>2 DEF Locked, EntriesHold, Covered, Reading
<1>6. AloneIsFree'
  <2> SUFFICES ASSUME NEW s \in Requests, req'[s].at = "update", req'[s].alone
               PROVE  FALSE
    BY DEF AloneIsFree
  <2>1. s # r /\ req[s].at = "update" /\ req[s].alone
    BY <1>2
  <2> QED BY <1>1, <2>1 DEF Kept, AloneIsFree
<1>7. OneHolder'
  <2> SUFFICES ASSUME NEW i \in Rows, NEW j \in Rows, i # j, name[i] # None, name[j] # None,
                      domain'[i] # None, domain'[i] = domain'[j]
               PROVE  domain'[i] \in raced'
    BY <1>1 DEF OneHolder, Claims
  <2>1. raced \subseteq raced'
    BY <1>1
  <2>2. CASE name[i] # req[r].user /\ name[j] # req[r].user
    <3>1. domain'[i] = domain[i] /\ domain'[j] = domain[j]
      BY <1>1, <2>2
    <3> QED BY <2>1, <3>1 DEF Kept, OneHolder, Claims
  <2>3. ASSUME NEW k \in Rows, NEW l \in Rows, k # l, name[k] = req[r].user, name[l] # None,
               domain'[k] # None, domain'[l] = domain'[k]
        PROVE  domain'[k] \in raced'
    <3>1. name[l] # req[r].user
      BY <1>3, <2>3 DEF Kept, Unique
    <3>2. domain'[k] = req[r].new /\ domain'[l] = domain[l]
      BY <1>1, <2>3, <3>1
    <3>3. l \in Claims /\ domain[l] = req[r].new
      BY <2>3, <3>2 DEF Claims
    <3>4. ~req[r].alone
      BY <1>1, <3>3 DEF Kept, AloneIsFree
    <3> QED BY <1>1, <2>3, <3>2, <3>4
  <2>4. CASE name[i] = req[r].user
    BY <2>3, <2>4
  <2>5. CASE name[j] = req[r].user
    BY <2>3, <2>5
  <2> QED BY <2>2, <2>4, <2>5
<1> QED BY <1>4, <1>5, <1>6, <1>7 DEF Kept

-------------------------------------------------------------------------------
\* refreshDomainMap, step by step.
LEMMA ClearKept ==
    ASSUME Typed, Kept, NEW r \in Requests, Clear(r)
    PROVE  Kept'
<1> USE DEF At
<1>1. UNCHANGED <<name, domain, raced, unread>> /\ Claims' = Claims /\ domains' = Empty
  BY DEF Clear, table, Claims
<1>2. req'[r].at = "query" /\ \A s \in Requests \ {r} : req'[s] = req[s]
  BY GotoTypes DEF Clear, Typed, Steps, Changing
<1>3. Unique' /\ Locked' /\ AloneIsFree' /\ OneHolder'
  BY <1>1, <1>2 DEF Kept, Unique, Locked, AloneIsFree, OneHolder
<1>4. EntriesHold' /\ Covered'
  BY <1>1, <1>2 DEF EntriesHold, Covered, Empty
<1> QED BY <1>3, <1>4 DEF Kept

LEMMA QueryKept ==
    ASSUME Typed, Kept, NEW r \in Requests, Query(r)
    PROVE  Kept'
<1> USE DEF At
<1>1. UNCHANGED <<name, domain, domains, stale, raced>> /\ Claims' = Claims
  BY DEF Query, table, Claims
<1>2. /\ req[r].at = "query" /\ req'[r].at = "put" /\ req'[r].rows = Claims
      /\ \A s \in Requests \ {r} : req'[s] = req[s]
  BY QueryTypes DEF Query, Typed
<1>3. Unique' /\ Locked' /\ AloneIsFree' /\ OneHolder'
  BY <1>1, <1>2 DEF Kept, Unique, Locked, AloneIsFree, OneHolder
<1>4. EntriesHold'
  BY <1>1, <1>2 DEF Kept, EntriesHold, Holds
<1>5. Covered'
  BY <1>1, <1>2 DEF Covered
<1> QED BY <1>3, <1>4, <1>5 DEF Kept

LEMMA QueryFailsKept ==
    ASSUME Typed, Kept, NEW r \in Requests, QueryFails(r)
    PROVE  Kept'
<1> USE DEF At
<1>1. UNCHANGED <<name, domain, domains, stale, raced>> /\ Claims' = Claims /\ unread'
  BY DEF QueryFails, table, Claims
<1>2. /\ req[r].at = "query" /\ req'[r].at = "rename"
      /\ \A s \in Requests \ {r} : req'[s] = req[s]
  BY GotoTypes DEF QueryFails, Typed, Steps
<1>3. Unique' /\ Locked' /\ AloneIsFree' /\ OneHolder'
  BY <1>1, <1>2 DEF Kept, Unique, Locked, AloneIsFree, OneHolder
<1>4. EntriesHold' /\ Covered'
  BY <1>1, <1>2 DEF Kept, EntriesHold, Holds, Covered
<1> QED BY <1>3, <1>4 DEF Kept

\* The row that goes into the map still is in the table, as the query holds the lock.
LEMMA PutKept ==
    ASSUME Typed, Kept, NEW r \in Requests, NEW i \in Rows, Put(r, i)
    PROVE  Kept'
<1> USE DEF At
<1>1. /\ UNCHANGED <<name, domain, stale, raced, unread>> /\ Claims' = Claims
      /\ domains' = [domains EXCEPT ![domain[i]] = name[i]]
  BY DEF Put, table, history, Claims
<1>2. /\ req[r].at = "put" /\ req'[r].at = "put" /\ req'[r].rows = req[r].rows \ {i}
      /\ \A s \in Requests \ {r} : req'[s] = req[s]
  BY PutTypes DEF Put, Typed
<1>3. i \in Claims /\ name[i] # None /\ domain[i] \in Hosts /\ domains \in [Hosts -> Names \cup {None}]
  BY <1>2 DEF Put, Kept, Locked, Claims, Typed, TypeOK
<1>4. /\ domains'[domain[i]] = name[i]
      /\ \A d \in Hosts : d # domain[i] => domains'[d] = domains[d]
  BY <1>1, <1>3
<1>5. Unique' /\ Locked' /\ AloneIsFree' /\ OneHolder'
  BY <1>1, <1>2 DEF Kept, Unique, Locked, AloneIsFree, OneHolder
<1>6. EntriesHold'
  BY <1>1, <1>2, <1>3, <1>4 DEF Kept, EntriesHold, Holds
<1>7. Covered'
  <2> SUFFICES ASSUME ~unread, \A s \in Requests : req'[s].at \notin {"clear", "query"},
                      NEW j \in Claims, domains'[domain[j]] = None
               PROVE  \E s \in Requests : req'[s].at = "put" /\ j \in req'[s].rows
    BY <1>1 DEF Covered
  <2>1. domain[j] \in Hosts
    BY DEF Typed, TypeOK, Claims
  <2>2. domain[j] # domain[i] /\ domains[domain[j]] = None
    BY <1>3, <1>4, <2>1
  <2>3. \A s \in Requests : req[s].at \notin {"clear", "query"}
    BY <1>2
  <2>4. PICK s \in Requests : req[s].at = "put" /\ j \in req[s].rows
    BY <2>2, <2>3 DEF Kept, Covered
  <2> QED BY <1>2, <2>2, <2>4
<1> QED BY <1>5, <1>6, <1>7 DEF Kept

-------------------------------------------------------------------------------
\* What renaming, deleting and registering leave of the claims, and of who holds what.
LEMMA RowFacts ==
    ASSUME Typed, Unique, NEW i \in Rows,
           \/ Delete(i)
           \/ \E n \in Names : RenameRow(i, n) \/ Register(i, n)
    PROVE  /\ UNCHANGED <<domains, raced, unread>> /\ ~Reading
           /\ stale \subseteq stale'
           /\ Unique'
           /\ Claims' \subseteq Claims
           /\ \A j \in Claims' : domain'[j] = domain[j]
           /\ \A m \in Names, d \in Hosts \ stale' : Holds(m, d) => Holds(m, d)'
<1>1. /\ name \in [Rows -> Names \cup {None}] /\ domain \in [Rows -> Hosts \cup {None}]
      /\ \A j \in Rows : name[j] = None => domain[j] = None
      /\ None \notin Names
  BY DomainsAssumption DEF Typed, TypeOK
<1>2. ASSUME Delete(i)
      PROVE  /\ UNCHANGED <<domains, raced, unread>> /\ ~Reading
             /\ stale \subseteq stale'
             /\ Unique'
             /\ Claims' \subseteq Claims
             /\ \A j \in Claims' : domain'[j] = domain[j]
             /\ \A m \in Names, d \in Hosts \ stale' : Holds(m, d) => Holds(m, d)'
  <2>1. /\ name'[i] = None /\ \A j \in Rows \ {i} : name'[j] = name[j] /\ domain'[j] = domain[j]
        /\ stale' = stale \cup ({domain[i]} \ {None})
    BY <1>1, <1>2 DEF Delete
  <2>2. UNCHANGED <<domains, raced, unread>> /\ ~Reading
    BY <1>2 DEF Delete
  <2>3. Unique'
    BY <2>1 DEF Unique
  <2>4. Claims' \subseteq Claims /\ \A j \in Claims' : domain'[j] = domain[j]
    BY <2>1 DEF Claims
  <2>5. \A m \in Names, d \in Hosts \ stale' : Holds(m, d) => Holds(m, d)'
    BY <1>1, <2>1, DomainsAssumption DEF Holds
  <2> QED BY <2>1, <2>2, <2>3, <2>4, <2>5
<1>3. ASSUME NEW n \in Names, RenameRow(i, n)
      PROVE  /\ UNCHANGED <<domains, raced, unread>> /\ ~Reading
             /\ stale \subseteq stale'
             /\ Unique'
             /\ Claims' \subseteq Claims
             /\ \A j \in Claims' : domain'[j] = domain[j]
             /\ \A m \in Names, d \in Hosts \ stale' : Holds(m, d) => Holds(m, d)'
  <2>1. /\ name[i] # None /\ name'[i] = n /\ \A j \in Rows \ {i} : name'[j] = name[j]
        /\ domain' = domain /\ stale' = stale \cup ({domain[i]} \ {None})
        /\ \A j \in Rows : name[j] # n
    BY <1>1, <1>3 DEF RenameRow
  <2>2. UNCHANGED <<domains, raced, unread>> /\ ~Reading
    BY <1>3 DEF RenameRow
  <2>3. Unique'
    BY <2>1 DEF Unique
  <2>4. Claims' \subseteq Claims
    BY <2>1 DEF Claims
  <2>5. \A m \in Names, d \in Hosts \ stale' : Holds(m, d) => Holds(m, d)'
    BY <1>1, <2>1, DomainsAssumption DEF Holds
  <2> QED BY <2>1, <2>2, <2>3, <2>4, <2>5
<1>4. ASSUME NEW n \in Names, Register(i, n)
      PROVE  /\ UNCHANGED <<domains, raced, unread>> /\ ~Reading
             /\ stale \subseteq stale'
             /\ Unique'
             /\ Claims' \subseteq Claims
             /\ \A j \in Claims' : domain'[j] = domain[j]
             /\ \A m \in Names, d \in Hosts \ stale' : Holds(m, d) => Holds(m, d)'
  <2> i >= i
    BY DEF Rows
  <2>1. /\ name[i] = None /\ name'[i] = n /\ \A j \in Rows \ {i} : name'[j] = name[j]
        /\ UNCHANGED <<domain, stale>>
        /\ \A j \in Rows : name[j] # n
    BY <1>1, <1>4 DEF Register, history
  <2>2. UNCHANGED <<domains, raced, unread>> /\ ~Reading
    BY <1>4 DEF Register, history
  <2>3. Unique'
    BY <2>1 DEF Unique
  <2>4. Claims' \subseteq Claims
    BY <1>1, <2>1 DEF Claims
  <2>5. \A m \in Names, d \in Hosts \ stale' : Holds(m, d) => Holds(m, d)'
    BY <1>1, <2>1 DEF Holds
  <2> QED BY <2>1, <2>2, <2>3, <2>4, <2>5
<1> QED BY <1>2, <1>3, <1>4

\* The same for the invariant, whether a request renames at its end or somebody else does.
LEMMA RowKept ==
    ASSUME Typed, Kept, NEW i \in Rows,
           \/ Delete(i)
           \/ \E n \in Names : RenameRow(i, n) \/ Register(i, n),
           \A s \in Requests :
               req'[s] = req[s] \/ (req[s].at = "rename" /\ req'[s].at = "idle")
    PROVE  Kept'
<1> USE DEF At
<1>1. /\ UNCHANGED <<domains, raced, unread>> /\ ~Reading
      /\ stale \subseteq stale'
      /\ Unique'
      /\ Claims' \subseteq Claims
      /\ \A j \in Claims' : domain'[j] = domain[j]
      /\ \A m \in Names, d \in Hosts \ stale' : Holds(m, d) => Holds(m, d)'
  BY RowFacts DEF Kept
<1>2. Locked'
  BY <1>1 DEF Locked, Reading
<1>3. EntriesHold'
  <2>1. \A d \in Hosts : domains[d] # None => domains[d] \in Names
    BY DEF Typed, TypeOK
  <2> QED BY <1>1, <2>1 DEF Kept, EntriesHold
<1>4. Covered'
  BY <1>1 DEF Kept, Covered
<1>5. AloneIsFree'
  BY <1>1 DEF Kept, AloneIsFree
<1>6. OneHolder'
  BY <1>1 DEF Kept, OneHolder
<1> QED BY <1>1, <1>2, <1>3, <1>4, <1>5, <1>6 DEF Kept

\* The map that main has filled.
LEMMA RestartKept ==
    ASSUME Typed, Kept, Restart
    PROVE  Kept'
<1>1. /\ UNCHANGED <<name, domain, raced>> /\ Claims' = Claims
      /\ \A r \in Requests : req'[r].at = "idle"
  BY DEF Restart, table, Claims, Idle
<1>2. \/ /\ ~unread'
         /\ \A d \in Hosts : IF domains'[d] = None THEN \A i \in Claims : domain[i] # d
                                                 ELSE Holds(domains'[d], d)
      \/ unread' /\ \A d \in Hosts : domains'[d] = None
  BY DEF Restart, Empty
<1>3. \A i \in Claims : domain[i] \in Hosts
  BY DEF Claims, Typed, TypeOK
<1>4. Unique' /\ OneHolder' /\ Locked' /\ AloneIsFree'
  BY <1>1 DEF Kept, Unique, OneHolder, Locked, AloneIsFree, At
<1>5. EntriesHold'
  BY <1>1, <1>2 DEF EntriesHold, Holds
<1>6. Covered'
  BY <1>1, <1>2, <1>3 DEF Covered
<1> QED BY <1>4, <1>5, <1>6 DEF Kept

LEMMA StutterKept == Kept /\ UNCHANGED vars => Kept'
<1> SUFFICES ASSUME Kept, UNCHANGED vars PROVE Kept'
  OBVIOUS
<1>1. UNCHANGED <<name, domain, domains, req, stale, raced, unread>>
  BY DEF vars
<1> QED BY <1>1 DEF Kept, Unique, Locked, EntriesHold, Covered, AloneIsFree, OneHolder,
                    At, Claims, Holds

-------------------------------------------------------------------------------
LEMMA StepIInv == IInv /\ [Next]_vars => IInv'
<1> SUFFICES ASSUME Typed, Kept, [Next]_vars PROVE Kept'
  BY StepTyped DEF IInv
<1>1. CASE UNCHANGED vars
  BY <1>1, StutterKept
<1>2. ASSUME NEW r \in Requests, NEW i \in Rows, NEW d \in Hosts \cup {None}, Begin(r, i, d)
      PROVE  Kept'
  <2>1. /\ req[r].at = "idle" /\ req'[r].at = "check"
        /\ \A s \in Requests \ {r} : req'[s] = req[s]
        /\ UNCHANGED <<table, domains, history>>
    BY <1>2, BeginTypes DEF Begin, At, Typed
  <2> QED BY <2>1, MoveKept DEF At, Changing
<1>3. ASSUME NEW r \in Requests, CheckTaken(r) \/ UpdateFails(r) \/ Close(r)
      PROVE  Kept'
  <2>1. Goto(r, "rename") /\ UNCHANGED <<table, domains, history>>
    BY <1>3 DEF CheckTaken, UpdateFails, Close
  <2>2. req'[r].at = "rename" /\ \A s \in Requests \ {r} : req'[s] = req[s]
    BY <2>1, GotoTypes DEF Typed, Steps
  <2>3. req[r].at \notin {"clear", "query"} /\ (At(r, "put") => req[r].rows = {})
    BY <1>3 DEF CheckTaken, UpdateFails, Close, At
  <2> QED BY <2>1, <2>2, <2>3, MoveKept DEF Changing
<1>4. ASSUME NEW r \in Requests, End(r)
      PROVE  Kept'
  <2>1. /\ req[r].at = "rename" /\ req'[r].at = "idle"
        /\ \A s \in Requests \ {r} : req'[s] = req[s]
        /\ UNCHANGED <<table, domains, history>>
    BY <1>4, EndTypes DEF End, At, Typed
  <2> QED BY <2>1, MoveKept DEF At, Changing
<1>5. ASSUME NEW r \in Requests, NEW i \in Rows, NEW n \in Names, EndRenaming(r, i, n)
      PROVE  Kept'
  <2>1. /\ req[r].at = "rename" /\ req'[r].at = "idle"
        /\ \A s \in Requests \ {r} : req'[s] = req[s]
        /\ RenameRow(i, n)
    BY <1>5, EndTypes DEF EndRenaming, At, Typed
  <2>2. \A s \in Requests : req'[s] = req[s] \/ (req[s].at = "rename" /\ req'[s].at = "idle")
    BY <2>1
  <2> QED BY <2>1, <2>2, RowKept
<1>6. ASSUME NEW i \in Rows,
             Delete(i) \/ \E n \in Names : Rename(i, n) \/ Register(i, n)
      PROVE  Kept'
  <2>1. Delete(i) \/ \E n \in Names : RenameRow(i, n) \/ Register(i, n)
    BY <1>6 DEF Rename
  <2>2. \A s \in Requests : req'[s] = req[s]
    BY <1>6 DEF Delete, Rename, Register
  <2> QED BY <2>1, <2>2, RowKept
<1> QED BY <1>1, <1>2, <1>3, <1>4, <1>5, <1>6, CheckKept, UpdateKept, ClearKept, QueryKept,
           QueryFailsKept, PutKept, RestartKept DEF Next, Work

(***************************************************************************)
(* The invariant holds in every state, whatever the number of accounts,    *)
(* hosts and requests.                                                     *)
(***************************************************************************)
THEOREM Invariance == Spec => []IInv
<1>1. Init => IInv
  BY InitTyped, InitKept DEF IInv
<1> QED BY <1>1, StepIInv, PTL DEF Spec

(***************************************************************************)
(* The variables have their types, and a row that is gone leaves no domain *)
(* behind (deleteUser; the update by username).                            *)
(***************************************************************************)
THEOREM TypeCorrect == Spec => []TypeOK
<1>1. IInv => TypeOK
  BY DEF IInv, Typed
<1> QED BY <1>1, Invariance, PTL

(***************************************************************************)
(* Entries of the map are of accounts that have the domain, except between *)
(* an update and the emptying of the map, and after a rename or deletion   *)
(* (refreshDomainMap, which nothing locks).                                *)
(***************************************************************************)
THEOREM EntriesAreHeld == Spec => []EntriesHold
<1>1. IInv => EntriesHold
  BY DEF IInv, Kept
<1> QED BY <1>1, Invariance, PTL

(***************************************************************************)
(* With no rebuild under way, and the table read, every domain is in the   *)
(* map (refreshDomainMap, userFile).                                       *)
(***************************************************************************)
THEOREM ClaimsAreKnown == Spec => []EveryClaimIsKnown
<1>1. IInv => EveryClaimIsKnown
  BY DEF IInv, Kept, Covered, EveryClaimIsKnown, At
<1> QED BY <1>1, Invariance, PTL

(***************************************************************************)
(* A domain that two accounts have was claimed while another request was   *)
(* changing one, or after the table could not be read (myAccountHandler).  *)
(***************************************************************************)
THEOREM DomainsHaveOneHolder == Spec => []OneHolder
<1>1. IInv => OneHolder
  BY DEF IInv, Kept
<1> QED BY <1>1, Invariance, PTL

(***************************************************************************)
(* What the three say together: between rebuilds, and after the table was  *)
(* read, a host leads to an account through the map if and only if the     *)
(* account has it in the table; but for the domains claimed in a race, and *)
(* those of accounts renamed or deleted since.                             *)
(***************************************************************************)
Settled == ~unread /\ \A r \in Requests : req[r].at \notin {"clear", "query", "put"}

MapIsColumn ==
    Settled =>
        \A d \in Hosts \ (stale \cup raced), n \in Names : domains[d] = n <=> Holds(n, d)

THEOREM MapIsTheColumn == Spec => []MapIsColumn
<1>1. TypeOK /\ EntriesHold /\ EveryClaimIsKnown /\ OneHolder => MapIsColumn
  <2> SUFFICES ASSUME TypeOK, EntriesHold, EveryClaimIsKnown, OneHolder, Settled,
                      NEW d \in Hosts, d \notin stale, d \notin raced, NEW n \in Names
               PROVE  domains[d] = n <=> Holds(n, d)
    BY DEF MapIsColumn
  <2> USE DomainsAssumption
  <2>1. domains[d] # None => Holds(domains[d], d)
    BY DEF EntriesHold, Settled, At
  <2>2. ASSUME Holds(n, d) PROVE domains[d] = n
    <3>1. PICK i \in Rows : name[i] = n /\ domain[i] = d
      BY <2>2 DEF Holds
    <3>2. i \in Claims
      BY <3>1 DEF Claims
    <3>3. domains[d] # None
      BY <3>1, <3>2 DEF EveryClaimIsKnown, Settled
    <3>4. PICK j \in Rows : name[j] = domains[d] /\ domain[j] = d
      BY <2>1, <3>3 DEF Holds
    <3>5. j \in Claims
      BY <3>3, <3>4 DEF Claims
    <3>6. i = j
      BY <3>1, <3>2, <3>4, <3>5 DEF OneHolder
    <3> QED BY <3>1, <3>4, <3>6
  <2> QED BY <2>1, <2>2
<1> QED BY <1>1, TypeCorrect, EntriesAreHeld, ClaimsAreKnown, DomainsHaveOneHolder, PTL
===============================================================================
