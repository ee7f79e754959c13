-------------------------------- MODULE Domains --------------------------------
(***************************************************************************)
(* Custom domains: a column of the table "user", and the map "domains" in  *)
(* memory, which says whose site a host is.  myAccountHandler looks a      *)
(* domain up in the map, writes it to the table, and has the map emptied   *)
(* and filled again from the table.  The map is one global variable that   *)
(* nothing locks: other requests read it, and fill it, at the same time.   *)
(* Renaming or deleting an account does not touch it.                      *)
(*                                                                         *)
(* SQLite lets nobody write to the table while a query still has rows to   *)
(* return.  The Go runtime may end the program at a concurrent access of   *)
(* the map: the program starts again, at any time (Restart).               *)
(***************************************************************************)
EXTENDS Naturals, FiniteSets

CONSTANTS
    LastRow,    \* bound: the largest rowid
    Names,      \* usernames
    Hosts,      \* domains that users ask for
    Label,      \* Label[d]: the first label of host d, taken for a username
    None,       \* no name, no domain
    Requests    \* requests that may be in flight at once

Rows == 1 .. LastRow

ASSUME DomainsAssumption ==
    /\ LastRow \in Nat
    /\ None \notin Names /\ None \notin Hosts
    /\ Label \in [Hosts -> Names]

VARIABLES
    name,       \* table user: name[i] is the username in row i, None if there is no row
    domain,     \* domain[i]: the domain in row i, None if it is ""
    domains,    \* the map: domains[d] is a username, None if d is no key of it
    req,        \* req[r]: the request r to change a domain, and its next step
    stale,      \* history: domains whose account was renamed or deleted since the map was emptied
    raced,      \* history: domains claimed while another request to change a domain was about
    unread      \* history: has the last attempt to read the table failed?

table == <<name, domain>>
history == <<stale, raced, unread>>
vars == <<name, domain, domains, req, stale, raced, unread>>

Idle == [at |-> "idle", user |-> None, old |-> None, new |-> None, rows |-> {}, alone |-> FALSE]

At(r, step) == req[r].at = step

\* The next step of a request that needs nothing but its user from here on.
Goto(r, step) == req' = [req EXCEPT ![r] = [Idle EXCEPT !.at = step, !.user = req[r].user]]

\* The rows with a domain; the query asks for no order.
Claims == {i \in Rows : name[i] # None /\ domain[i] # None}

Holds(n, d) == \E i \in Rows : name[i] = n /\ domain[i] = d

Empty == [d \in Hosts |-> None]

\* A query that has not returned its last row holds SQLite's read lock.
Reading == \E r \in Requests : At(r, "put")

\* From its look at the map until it has filled it again, a request may change what others see.
Changing == {"update", "clear", "query", "put"}

-------------------------------------------------------------------------------
\* The program starts with the admin account, and no domains.
Init ==
    /\ \E n \in Names : name = [i \in Rows |-> IF i = 1 THEN n ELSE None]
    /\ domain = [i \in Rows |-> None]
    /\ domains = Empty
    /\ req = [r \in Requests |-> Idle]
    /\ stale = {} /\ raced = {} /\ unread = FALSE

\* myAccountHandler: select the row of the session's user.
Begin(r, i, d) ==
    /\ At(r, "idle")
    /\ name[i] # None
    /\ req' = [req EXCEPT ![r] = [Idle EXCEPT !.at = "check", !.user = name[i],
                                              !.old = domain[i], !.new = d]]
    /\ UNCHANGED <<table, domains, history>>

\* Mutant: a name that is in the map may be claimed.
FreeOrTaken(r) == req[r].new # req[r].old

\* The domain is another than before, and no key of the map.
Free(r) ==
    /\ req[r].new # req[r].old
    /\ req[r].new \in Hosts => domains[req[r].new] = None

\* The request goes on to the table; history: are there others that are changing a domain?
Check(r) ==
    /\ At(r, "check") /\ Free(r)
    /\ LET others == {s \in Requests \ {r} : req[s].at \in Changing}
       IN req' = [s \in Requests |->
                    CASE s = r -> [req[r] EXCEPT !.at = "update", !.old = None,
                                                 !.alone = (others = {} /\ ~unread)]
                      [] s \in others -> [req[s] EXCEPT !.alone = FALSE]
                      [] OTHER -> req[s]]
    /\ UNCHANGED <<table, domains, history>>

CheckTaken(r) ==
    /\ At(r, "check") /\ ~Free(r)
    /\ Goto(r, "rename")
    /\ UNCHANGED <<table, domains, history>>

\* The row of that username, if it is still there, gets the domain.
Update(r) ==
    /\ At(r, "update") /\ ~Reading
    /\ domain' = [i \in Rows |-> IF name[i] = req[r].user THEN req[r].new ELSE domain[i]]
    /\ raced' = IF req[r].alone THEN raced ELSE raced \cup ({req[r].new} \ {None})
    /\ Goto(r, "clear")
    /\ UNCHANGED <<name, domains, stale, unread>>

\* The database is locked for too long: an error on the page, and no new map.
UpdateFails(r) ==
    /\ At(r, "update")
    /\ Goto(r, "rename")
    /\ UNCHANGED <<table, domains, history>>

-------------------------------------------------------------------------------
\* refreshDomainMap.  Mutant: the entries of the old map are kept.
ClearNothing(r) ==
    /\ At(r, "clear")
    /\ stale' = {}
    /\ Goto(r, "query")
    /\ UNCHANGED <<table, domains, raced, unread>>

Clear(r) ==
    /\ At(r, "clear")
    /\ domains' = Empty
    /\ stale' = {}
    /\ Goto(r, "query")
    /\ UNCHANGED <<table, raced, unread>>

\* Mutant: the last row is not read.
QueryAllButLast(r) ==
    /\ At(r, "query")
    /\ req' = [req EXCEPT ![r].at = "put", ![r].rows = Claims \ {LastRow}]
    /\ unread' = FALSE
    /\ UNCHANGED <<table, domains, stale, raced>>

Query(r) ==
    /\ At(r, "query")
    /\ req' = [req EXCEPT ![r].at = "put", ![r].rows = Claims]
    /\ unread' = FALSE
    /\ UNCHANGED <<table, domains, stale, raced>>

\* The error is returned to myAccountHandler, which does not look at it.
QueryFails(r) ==
    /\ At(r, "query")
    /\ Goto(r, "rename")
    /\ unread' = TRUE
    /\ UNCHANGED <<table, domains, stale, raced>>

\* Some row that is left goes into the map that the variable holds by now.
Put(r, i) ==
    /\ At(r, "put")
    /\ i \in req[r].rows
    /\ domains' = [domains EXCEPT ![domain[i]] = name[i]]
    /\ req' = [req EXCEPT ![r].rows = @ \ {i}]
    /\ UNCHANGED <<table, history>>

\* rows.Next finds no further row.
Close(r) ==
    /\ At(r, "put") /\ req[r].rows = {}
    /\ Goto(r, "rename")
    /\ UNCHANGED <<table, domains, history>>

-------------------------------------------------------------------------------
\* renameUser on row i: the map keeps the old name.
RenameRow(i, n) ==
    /\ ~Reading
    /\ name[i] # None
    /\ \A j \in Rows : name[j] # n
    /\ name' = [name EXCEPT ![i] = n]
    /\ stale' = stale \cup ({domain[i]} \ {None})
    /\ UNCHANGED <<domain, domains, raced, unread>>

\* The same request may also rename the account, after its domain.
EndRenaming(r, i, n) ==
    /\ At(r, "rename")
    /\ name[i] = req[r].user
    /\ RenameRow(i, n)
    /\ req' = [req EXCEPT ![r] = Idle]

\* It does not, or cannot.
End(r) ==
    /\ At(r, "rename")
    /\ req' = [req EXCEPT ![r] = Idle]
    /\ UNCHANGED <<table, domains, history>>

\* Other requests and the admin command rename, delete and register accounts.
Rename(i, n) == RenameRow(i, n) /\ UNCHANGED req

\* Mutant: the name goes, the row stays.
DeleteName(i) ==
    /\ ~Reading
    /\ name[i] # None
    /\ name' = [name EXCEPT ![i] = None]
    /\ stale' = stale \cup ({domain[i]} \ {None})
    /\ UNCHANGED <<domain, domains, req, raced, unread>>

Delete(i) ==
    /\ ~Reading
    /\ name[i] # None
    /\ name' = [name EXCEPT ![i] = None]
    /\ domain' = [domain EXCEPT ![i] = None]
    /\ stale' = stale \cup ({domain[i]} \ {None})
    /\ UNCHANGED <<domains, req, raced, unread>>

\* SQLite's next rowid is the largest and one.
Register(i, n) ==
    /\ ~Reading
    /\ \A j \in Rows : name[j] # n /\ (j >= i => name[j] = None)
    /\ i > 1 => name[i - 1] # None
    /\ name' = [name EXCEPT ![i] = n]
    /\ UNCHANGED <<domain, domains, req, history>>

\* The program stops, and main has the map filled before it serves anybody, or left empty.
Restart ==
    /\ \/ /\ unread' = FALSE
          /\ \E m \in [Hosts -> Names \cup {None}] :
               /\ \A d \in Hosts : IF m[d] = None THEN \A i \in Claims : domain[i] # d
                                                 ELSE Holds(m[d], d)
               /\ domains' = m
       \/ unread' = TRUE /\ domains' = Empty
    /\ req' = [r \in Requests |-> Idle]
    /\ stale' = {}
    /\ UNCHANGED <<table, raced>>

Work(r) ==
    \/ Check(r) \/ CheckTaken(r) \/ Update(r) \/ UpdateFails(r)
    \/ Clear(r) \/ Query(r) \/ QueryFails(r) \/ (\E i \in Rows : Put(r, i)) \/ Close(r)
    \/ (\E i \in Rows, n \in Names : EndRenaming(r, i, n)) \/ End(r)

Next ==
    \/ \E r \in Requests : Work(r) \/ \E i \in Rows, d \in Hosts \cup {None} : Begin(r, i, d)
    \/ \E i \in Rows : Delete(i) \/ \E n \in Names : Rename(i, n) \/ Register(i, n)
    \/ Restart

Spec == Init /\ [][Next]_vars

\* A handler runs to its end.
FairSpec == Spec /\ \A r \in Requests : WF_vars(Work(r))

-------------------------------------------------------------------------------
Steps == {"idle", "check", "rename"} \cup Changing

\* Every variable has its type; a row without a name has no domain.
TypeOK ==
    /\ name \in [Rows -> Names \cup {None}]
    /\ domain \in [Rows -> Hosts \cup {None}]
    /\ \A i \in Rows : name[i] = None => domain[i] = None
    /\ domains \in [Hosts -> Names \cup {None}]
    /\ req \in [Requests -> [at : Steps, user : Names \cup {None}, old : Hosts \cup {None},
                             new : Hosts \cup {None}, rows : SUBSET Rows, alone : BOOLEAN]]
    /\ stale \subseteq Hosts /\ raced \subseteq Hosts
    /\ unread \in BOOLEAN

(***************************************************************************)
(* However rebuilds of the map and changes of the table interleave, an     *)
(* entry of the map is of an account that has the domain, unless a request *)
(* that has changed the table has not yet emptied the map, or the account  *)
(* was renamed or deleted since (refreshDomainMap on a shared map).        *)
(***************************************************************************)
EntriesHold ==
    (\A r \in Requests : ~At(r, "clear")) =>
        \A d \in Hosts \ stale : domains[d] # None => Holds(domains[d], d)

(***************************************************************************)
(* When no request is rebuilding the map, and the last that read the table *)
(* succeeded, every domain in the table is a key of it: a host with an     *)
(* account never falls through to the user its first label names, as       *)
(* userFile and the Gemini server have it.                                 *)
(***************************************************************************)
EveryClaimIsKnown ==
    ~unread /\ (\A r \in Requests : req[r].at \notin {"clear", "query", "put"}) =>
        \A i \in Claims : domains[domain[i]] # None

(***************************************************************************)
(* Two accounts come to have one domain only if a request claimed it while *)
(* another was changing a domain, or after the table could not be read:    *)
(* the look at the map and the update are two steps, and the column is not *)
(* unique.                                                                 *)
(***************************************************************************)
OneHolder ==
    \A i, j \in Claims : i # j /\ domain[i] = domain[j] => domain[i] \in raced

\* Whose site a host shows (userFile, the Gemini server).
Served(d) == IF domains[d] = None THEN Label[d] ELSE domains[d]

(***************************************************************************)
(* A domain that was claimed is shown: at some time the host leads to the  *)
(* account, unless that is renamed, deleted or given another domain by     *)
(* then, shares the domain, or the table could not be read.                *)
(***************************************************************************)
ClaimsTakeEffect ==
    \A i \in Rows, d \in Hosts, n \in Names, r \in Requests :
        At(r, "clear") /\ req[r].user = n /\ name[i] = n /\ domain[i] = d
            ~> \/ Served(d) = n
               \/ name[i] # n \/ domain[i] # d
               \/ d \in raced \/ unread
===============================================================================
