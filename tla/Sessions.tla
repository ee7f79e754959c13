------------------------------- MODULE Sessions -------------------------------
(***************************************************************************)
(* Who a client acts for.  A browser keeps a signed cookie with three      *)
(* values, "auth_user", "impersonating_user" and "admin"; the server keeps *)
(* nothing.  An SFTP connection keeps the name it logged in with.  Names   *)
(* pass from account to account meanwhile, by requests of this browser, of *)
(* others, and by the "flounder admin" command.                            *)
(*                                                                         *)
(* A request carries the cookie its browser had when it was sent; what     *)
(* changes the session answers with a whole new cookie, which replaces the *)
(* browser's when, and if, it arrives.  Several requests of one browser    *)
(* may be under way.  How a rename or a deletion treats the directory is   *)
(* left to Accounts: here it succeeds or fails.                            *)
(***************************************************************************)
EXTENDS Naturals

CONSTANTS
    Names,          \* strings that serve as usernames
    Ids,            \* accounts, and the people who registered them
    Browsers,       \* clients with a cookie
    Connections,    \* clients with an SFTP connection
    Requests,       \* requests that may be in flight at once
    Admin, AdminId, \* the first account
    MaxSpent,       \* a bound on the requests, connections and commands of a run
    None

Clients == Browsers \cup Connections

ASSUME SessionsAssumption ==
    /\ Admin \in Names /\ AdminId \in Ids
    /\ None \notin Names /\ None \notin Ids
    /\ Browsers \cap Connections = {}
    /\ MaxSpent \in Nat

VARIABLES
    holder,     \* table user: the account whose username is n, or None
    active,     \* column active
    admins,     \* column admin, with the accounts deleted since
    email,      \* column email: a string that could be a username, or None for another
    issued,     \* the accounts created so far
    password,   \* column password_hash: the person who chose i's password
    jar,        \* jar[x]: the cookie of a browser, the name of a connection
    req,        \* req[r]: a request in flight
    former,     \* history: the accounts that ever bore name n
    spent       \* requests, connections and commands so far

table == <<holder, active, admins, email, issued, password, former>>
vars == <<holder, active, admins, email, issued, password, jar, req, former, spent>>

-------------------------------------------------------------------------------
(***************************************************************************)
(* A cookie.  user, impers and admin are what the code stores.  The rest   *)
(* is history: the accounts that user and impers stood for when they were  *)
(* set (acts, back), the account whose password was entered last (by),     *)
(* whether that was while impersonating (mixed), and which of acts and     *)
(* back the names are not of (astray): they have been renamed or deleted   *)
(* since by anything but the request that answers with this cookie, or     *)
(* logged in over SFTP with an email.                                      *)
(***************************************************************************)
Cookie ==
    [user : Names \cup {None}, impers : Names \cup {None}, admin : BOOLEAN,
     acts : Ids \cup {None}, back : Ids \cup {None}, by : Ids \cup {None},
     mixed : BOOLEAN, astray : SUBSET Ids]

NoCookie ==
    [user |-> None, impers |-> None, admin |-> FALSE, acts |-> None,
     back |-> None, by |-> None, mixed |-> FALSE, astray |-> {}]

Idle == [at |-> "idle", from |-> None, cookie |-> NoCookie, arg |-> None]

Request ==
    {Idle} \cup
    [at : {"sent", "moveDir", "removeAll", "hash", "answer"},
     from : Browsers, cookie : Cookie, arg : Names \cup Ids \cup {None}]

At(r, step) == req[r].at = step

\* The request answers with cookie k; it ends without a cookie.
AnswerWith(r, k) == [req EXCEPT ![r].at = "answer", ![r].cookie = k, ![r].arg = None]

End(r) == [req EXCEPT ![r] = Idle]

\* Account i is renamed or deleted behind the back of a cookie that stands for it.
Mark(k, i) ==
    [k EXCEPT !.astray = @ \cup ({i} \cap {k.acts, k.back} \cap Ids)]

MarkJars(i) == jar' = [x \in Clients |-> Mark(jar[x], i)]

MarkRequests(rs, i) ==
    [r \in Requests |-> IF r \in rs THEN [req[r] EXCEPT !.cookie = Mark(@, i)] ELSE req[r]]

-------------------------------------------------------------------------------
\* The table, as the statements of register, rename and delete change it.

\* The account of a name, which is None without a session.
Bearer(n) == IF n = None THEN None ELSE holder[n]

\* UNIQUE: no row has that email, which nothing says must look like one.
FreshEmail(e) == e = None \/ \A i \in Ids : email[i] # e

Create(n, i, e) ==
    /\ holder[n] = None /\ i \in Ids \ issued /\ FreshEmail(e)
    /\ holder' = [holder EXCEPT ![n] = i]
    /\ email' = [email EXCEPT ![i] = e]
    /\ issued' = issued \cup {i}
    /\ former' = [former EXCEPT ![n] = @ \cup {i}]

Rename(o, n) ==
    /\ o # n /\ holder[o] # None /\ holder[n] = None
    /\ holder' = [holder EXCEPT ![n] = holder[o], ![o] = None]
    /\ former' = [former EXCEPT ![n] = @ \cup {holder[o]}]
    /\ UNCHANGED <<active, admins, email, issued, password>>

Remove(n) ==
    /\ holder' = [m \in Names |-> IF m = n THEN None ELSE holder[m]]
    /\ email' = [i \in Ids |-> IF i = Bearer(n) THEN None ELSE email[i]]
    /\ UNCHANGED <<active, admins, issued, password, former>>

Init ==
    /\ holder = [n \in Names |-> IF n = Admin THEN AdminId ELSE None]
    /\ active = {AdminId} /\ admins = {AdminId} /\ issued = {AdminId}
    /\ password = [i \in Ids |-> i]
    /\ email = [i \in Ids |-> None]
    /\ former = [n \in Names |-> IF n = Admin THEN {AdminId} ELSE {}]
    /\ jar = [x \in Clients |-> NoCookie]
    /\ req = [r \in Requests |-> Idle]
    /\ spent = 0

-------------------------------------------------------------------------------
\* What happens without a session: registration, and the admin command.

Register(n, i, e) ==
    /\ Create(n, i, e)
    /\ UNCHANGED <<active, admins, password, jar, req>>

Activate(n) ==
    /\ holder[n] \in Ids
    /\ active' = active \cup {holder[n]}
    /\ UNCHANGED <<holder, admins, email, issued, password, former, jar, req>>

\* Mutant: a name without a row is noted as an admin's.
MakeAdminOfAnyName(n) ==
    /\ admins' = admins \cup {holder[n]}
    /\ UNCHANGED <<holder, active, email, issued, password, former, jar, req>>

MakeAdmin(n) ==
    /\ holder[n] \in Ids
    /\ admins' = admins \cup {holder[n]}
    /\ UNCHANGED <<holder, active, email, issued, password, former, jar, req>>

\* setPassword: an administrator gives the owner a new password.
SetPassword(n) ==
    /\ holder[n] \in Ids
    /\ password' = [password EXCEPT ![holder[n]] = holder[n]]
    /\ UNCHANGED <<holder, active, admins, email, issued, former, jar, req>>

CommandRename(o, n) ==
    /\ Rename(o, n)
    /\ MarkJars(holder[o]) /\ req' = MarkRequests(Requests, holder[o])

CommandDelete(n) ==
    /\ holder[n] \in Ids
    /\ Remove(n)
    /\ MarkJars(holder[n]) /\ req' = MarkRequests(Requests, holder[n])

Command ==
    \E n \in Names :
        \/ \E i \in Ids, e \in Names \cup {None} : Register(n, i, e)
        \/ \E o \in Names : CommandRename(o, n)
        \/ Activate(n) \/ MakeAdmin(n) \/ SetPassword(n) \/ CommandDelete(n)

-------------------------------------------------------------------------------
\* A request, its answer, and an answer without a cookie or that never comes.

Send(r, b) ==
    /\ At(r, "idle")
    /\ req' = [req EXCEPT ![r] = [at |-> "sent", from |-> b, cookie |-> jar[b], arg |-> None]]
    /\ UNCHANGED <<table, jar>>

Arrive(r) ==
    /\ At(r, "answer")
    /\ jar' = [jar EXCEPT ![req[r].from] = req[r].cookie]
    /\ req' = End(r)
    /\ UNCHANGED table

\* Refused, failed or lost.
Drop(r) ==
    /\ ~At(r, "idle")
    /\ req' = End(r)
    /\ UNCHANGED <<table, jar>>

(***************************************************************************)
(* checkLogin: a row with that username or that email, whichever of two is *)
(* found first; it is active, and person p knows its password.             *)
(***************************************************************************)
LoginOk(n, i, p) ==
    /\ i \in active /\ password[i] = p
    /\ holder[n] = i \/ email[i] = n

\* Mutant: the admin flag is only ever set.
LoginKeepsAdmin(r, n, p) ==
    LET k == req[r].cookie
        i == holder[n]
    IN
    /\ At(r, "sent") /\ LoginOk(n, i, p)
    /\ req' = AnswerWith(r, [k EXCEPT
          !.user = n, !.admin = k.admin \/ i \in admins, !.acts = i, !.by = i,
          !.mixed = k.impers # None, !.astray = @ \ ({i} \ {k.back})])
    /\ UNCHANGED <<table, jar>>

(***************************************************************************)
(* loginHandler: with whichever of its two names a row was found, n is its *)
(* username.  The values the handler does not set stay in the cookie.      *)
(***************************************************************************)
Login(r, n, p) ==
    LET k == req[r].cookie
        i == holder[n]
    IN
    /\ At(r, "sent") /\ LoginOk(n, i, p)
    /\ req' = AnswerWith(r, [k EXCEPT
          !.user = n, !.admin = i \in admins, !.acts = i, !.by = i,
          !.mixed = k.impers # None, !.astray = @ \ ({i} \ {k.back})])
    /\ UNCHANGED <<table, jar>>

\* logoutHandler: back to the impersonator, or the cookie is removed.
LoggedOut(k) ==
    IF k.impers = None THEN NoCookie
    ELSE [k EXCEPT !.user = k.impers, !.impers = None, !.acts = k.back,
                   !.back = None, !.astray = @ \cap {k.back}]

Logout(r) ==
    /\ At(r, "sent")
    /\ req' = AnswerWith(r, LoggedOut(req[r].cookie))
    /\ UNCHANGED <<table, jar>>

\* Mutant: impersonation may be nested.
ImpersonateNested(r, n) ==
    LET k == req[r].cookie IN
    /\ At(r, "sent") /\ k.admin
    /\ req' = AnswerWith(r, [k EXCEPT
          !.user = n, !.impers = k.user, !.acts = holder[n], !.back = k.acts,
          !.astray = @ \cap {k.acts}])
    /\ UNCHANGED <<table, jar>>

\* adminUserHandler: whether an account of that name exists is not looked at.
Impersonate(r, n) ==
    LET k == req[r].cookie IN
    /\ At(r, "sent") /\ k.admin /\ k.impers = None
    /\ req' = AnswerWith(r, [k EXCEPT
          !.user = n, !.impers = k.user, !.acts = holder[n], !.back = k.acts,
          !.astray = @ \cap {k.acts}])
    /\ UNCHANGED <<table, jar>>

\* adminUserHandler, with "activate" for an action.
ActivateByAdmin(r, n) ==
    /\ At(r, "sent") /\ req[r].cookie.admin
    /\ holder[n] \in Ids
    /\ active' = active \cup {holder[n]}
    /\ req' = End(r)
    /\ UNCHANGED <<holder, admins, email, issued, password, former, jar>>

(***************************************************************************)
(* myAccountHandler with another name: the row is renamed, then the        *)
(* directory; if that fails, the answer has no cookie (Drop).              *)
(***************************************************************************)
RenameRow(r, n) ==
    LET k == req[r].cookie IN
    /\ At(r, "sent") /\ k.user # None
    /\ Rename(k.user, n)
    /\ MarkJars(holder[k.user])
    /\ req' = [MarkRequests(Requests \ {r}, holder[k.user]) EXCEPT ![r] =
                  [req[r] EXCEPT !.at = "moveDir", !.arg = n,
                       !.cookie.astray = @ \cup ({k.back} \cap {holder[k.user]})]]

(***************************************************************************)
(* myAccountHandler with another email: no cookie.  A request that changes *)
(* both values is two that were sent together.                             *)
(***************************************************************************)
ChangeEmail(r, e) ==
    LET i == Bearer(req[r].cookie.user) IN
    /\ At(r, "sent") /\ i \in Ids
    /\ FreshEmail(e)
    /\ email' = [email EXCEPT ![i] = e]
    /\ req' = End(r)
    /\ UNCHANGED <<holder, active, admins, issued, password, former, jar>>

\* Mutant: the session is saved without the new name.
RenameDoneOldName(r) ==
    /\ At(r, "moveDir")
    /\ req' = AnswerWith(r, req[r].cookie)
    /\ UNCHANGED <<table, jar>>

RenameDone(r) ==
    /\ At(r, "moveDir")
    /\ req' = AnswerWith(r, [req[r].cookie EXCEPT !.user = req[r].arg])
    /\ UNCHANGED <<table, jar>>

(***************************************************************************)
(* deleteAccountHandler: the row, if it is still there, the directory,     *)
(* then a logout.  Nobody has to be logged in.                             *)
(***************************************************************************)
DeleteRow(r) ==
    LET k == req[r].cookie
        i == Bearer(k.user)
    IN
    /\ At(r, "sent")
    /\ Remove(k.user)
    /\ MarkJars(i)
    /\ req' = [MarkRequests(Requests \ {r}, i) EXCEPT ![r] =
                  [req[r] EXCEPT !.at = "removeAll",
                       !.cookie.astray = @ \cup ({k.back} \cap {i} \cap Ids)]]

DeleteDone(r) ==
    /\ At(r, "removeAll")
    /\ req' = AnswerWith(r, LoggedOut(req[r].cookie))
    /\ UNCHANGED <<table, jar>>

\* Mutant: the current password is not asked for.
ResetUnchecked(r, p) ==
    LET k == req[r].cookie IN
    /\ At(r, "sent") /\ k.user # None /\ holder[k.user] # None
    /\ req' = [req EXCEPT ![r].at = "hash", ![r].arg = k.by]
    /\ UNCHANGED <<table, jar>>

\* resetPasswordHandler: checkAuth; then the new password, by the name again.
ResetCheck(r, p) ==
    LET k == req[r].cookie IN
    /\ At(r, "sent") /\ k.user # None /\ holder[k.user] # None
    /\ password[holder[k.user]] = p
    /\ req' = [req EXCEPT ![r].at = "hash", ![r].arg = p]
    /\ UNCHANGED <<table, jar>>

ResetUpdate(r) ==
    LET i == holder[req[r].cookie.user] IN
    /\ At(r, "hash")
    /\ password' = [j \in Ids |-> IF j = i THEN req[r].arg ELSE password[j]]
    /\ req' = End(r)
    /\ UNCHANGED <<holder, active, admins, email, issued, former, jar>>

Handle(r) ==
    \/ \E n \in Names : \/ \E p \in Ids : Login(r, n, p)
                        \/ Impersonate(r, n) \/ ActivateByAdmin(r, n) \/ RenameRow(r, n)
    \/ \E e \in Names \cup {None} : ChangeEmail(r, e)
    \/ \E p \in Ids : ResetCheck(r, p)
    \/ Logout(r) \/ RenameDone(r) \/ DeleteRow(r) \/ DeleteDone(r) \/ ResetUpdate(r)

-------------------------------------------------------------------------------
(***************************************************************************)
(* PasswordCallback drops the username of the row: the string that was     *)
(* given to log in is the name of the connection until it is closed, and   *)
(* where it is an email, that of no account, or of another one.            *)
(***************************************************************************)
Connect(s, n, i, p) ==
    /\ jar[s] = NoCookie /\ LoginOk(n, i, p)
    /\ jar' = [jar EXCEPT ![s] = [NoCookie EXCEPT
          !.user = n, !.acts = i, !.by = i, !.astray = {i} \ {holder[n]}]]
    /\ UNCHANGED <<table, req>>

Disconnect(s) ==
    /\ jar[s] # NoCookie
    /\ jar' = [jar EXCEPT ![s] = NoCookie]
    /\ UNCHANGED <<table, req>>

Spend == spent < MaxSpent /\ spent' = spent + 1

Next ==
    \/ Spend /\ Command
    \/ Spend /\ \E r \in Requests, b \in Browsers : Send(r, b)
    \/ Spend /\ \E s \in Connections, n \in Names, i, p \in Ids : Connect(s, n, i, p)
    \/ UNCHANGED spent /\ \E r \in Requests : Handle(r) \/ Arrive(r) \/ Drop(r)
    \/ UNCHANGED spent /\ \E s \in Connections : Disconnect(s)

Spec == Init /\ [][Next]_vars

-------------------------------------------------------------------------------
\* Every variable has its type.
TypeOK ==
    /\ holder \in [Names -> Ids \cup {None}]
    /\ active \subseteq Ids /\ admins \subseteq Ids /\ issued \subseteq Ids
    /\ password \in [Ids -> Ids]
    /\ email \in [Ids -> Names \cup {None}]
    /\ former \in [Names -> SUBSET Ids]
    /\ jar \in [Clients -> Cookie]
    /\ req \in [Requests -> Request]
    /\ spent \in 0 .. MaxSpent

Cookies == {jar[x] : x \in Clients} \cup {req[r].cookie : r \in Requests}

(***************************************************************************)
(* The names a client holds are those of the accounts they stood for when  *)
(* it got them, the one it acts for and the one its logout leads back to,  *)
(* whatever answers were lost or came in another order.  Only an account   *)
(* renamed or deleted elsewhere leaves a session behind, and only a login  *)
(* over SFTP with an email that could be a username begins one with a name *)
(* that is not its account's: astray has both (the cookie set by           *)
(* myAccountHandler, the logout in deleteAccountHandler, PasswordCallback).*)
(***************************************************************************)
StandsFor(n, i, k) == i \in Ids \ k.astray => holder[n] = i

NamesAreCurrent ==
    \A x \in Clients : /\ StandsFor(jar[x].user, jar[x].acts, jar[x])
                       /\ StandsFor(jar[x].impers, jar[x].back, jar[x])

(***************************************************************************)
(* The admin flag is in the cookies only of browsers whose last login was  *)
(* an admin's, through impersonation, logout, rename and a login over      *)
(* another session.                                                        *)
(***************************************************************************)
AdminFlagIsEarned == \A k \in Cookies : k.admin => k.by \in admins

(***************************************************************************)
(* Unless somebody logged in while impersonating: without impersonation a  *)
(* session acts for the account that logged in, and with it that account   *)
(* is an admin's and the one the next logout leads back to.                *)
(***************************************************************************)
ImpersonationIsUndone ==
    \A k \in Cookies : ~k.mixed =>
        IF k.impers = None THEN k.acts = k.by ELSE k.back = k.by /\ k.admin

(***************************************************************************)
(* A password was chosen by the account's owner, who knew the one before;  *)
(* resetPasswordHandler checks and updates by name, so that only an        *)
(* account that got a name another had before can be hit by mistake.       *)
(***************************************************************************)
Heir(i) == \E n \in Names : i \in former[n] /\ former[n] # {i}

PasswordIsTheOwners == \A i \in Ids : password[i] = i \/ Heir(i)
===============================================================================
