------------------------------- MODULE Accounts -------------------------------
(***************************************************************************)
(* The life of an account: a row of the SQLite table "user" and a          *)
(* directory of that name under FilesDirectory.  No lock and no            *)
(* transaction spans the two: registerHandler, activateUser, renameUser    *)
(* and deleteUser each make one or two SQL calls and then some file        *)
(* system calls, from HTTP handlers (one goroutine per request) and from   *)
(* the "flounder admin" process, and may stop between any two of them.     *)
(*                                                                         *)
(* A worker is a request in flight or an admin command; each action is     *)
(* one SQL statement or one file system call.  Nothing but its name ties a *)
(* request to an account, and an empty name stands for all directories.    *)
(***************************************************************************)
EXTENDS FiniteSets

CONSTANTS
    Names,      \* strings a form or the command line may carry as a username
    OkNames,    \* those of them that isOkUsername accepts
    Admin,      \* the name createTablesIfDNE gives the first account
    Ids,        \* identities of accounts: a bound on how many are ever created
    AdminId,    \* the identity of the first account
    Workers,    \* requests and admin commands that may be in flight at once
    None,       \* nobody, no page, no name
    NoOnes      \* a page that is no account's own: the welcome page, or one saved
                \* by a session under a name its account does not bear

ASSUME AccountsAssumption ==
    /\ OkNames \subseteq Names
    /\ Admin \in OkNames
    /\ AdminId \in Ids
    /\ None \notin Ids /\ None \notin Names
    /\ NoOnes \notin Ids /\ NoOnes # None

VARIABLES
    holder,     \* table user: holder[n] is the account whose username is n
    active,     \* the accounts whose column active is true
    issued,     \* the identities given out so far
    base,       \* whether FilesDirectory exists
    dirs,       \* the names under which a directory exists in it
    home,       \* home[n]: whose page index.gmi in directory n is, None if there is none
    op,         \* op[w]: the operation worker w is in, and its next step
    dirty,      \* history: names a race, a stop or the empty name may have broken
    disturbed   \* history: workers whose operation another one raced with

disk == <<base, dirs, home>>
vars == <<holder, active, issued, disk, op, dirty, disturbed>>

-------------------------------------------------------------------------------
\* Workers and the names they work on.

Idle == [at |-> "idle", src |-> None, dst |-> None]

Steps == {"insert", "update", "mkdir", "index", "mkdirAgain", "moveDir", "removeAll",
          "removeBase", "makeDir", "write"}

At(w, step) == op[w].at = step

NamesOf(w) == IF At(w, "removeBase") THEN Names ELSE {op[w].src, op[w].dst} \ {None}

(***************************************************************************)
(* History only.  What a registration or an upload does between its check  *)
(* and its last call cannot break anything, whoever else is at work (Light); *)
(* renames and deletions (Movers) and whatever makes a directory, an       *)
(* activation or an edit, can break each other.  HalfDone: the steps       *)
(* before which row and directory differ.                                  *)
(***************************************************************************)
Light == {"idle", "insert", "write"}

Movers == {"moveDir", "removeAll", "removeBase"}

HalfDone == Movers \cup {"mkdir"}

Conflict(s, t) == {s, t} \cap Light = {} /\ {s, t} \cap Movers # {}

Rivals(w, step, N) ==
    {v \in Workers \ {w} : Conflict(step, op[v].at) /\ NamesOf(v) \cap N # {}}

\* The names that are no longer clean when w starts at a step, on the names N.
Soiled(w, step, N) ==
    LET R == Rivals(w, step, N) IN
    (UNION {NamesOf(v) : v \in R})
        \cup IF R # {} \/ N \cap dirty # {} \/ step = "removeBase" THEN N ELSE {}

BeginOn(w, step, src, dst, N) ==
    LET R == Rivals(w, step, N) IN
    /\ op[w] = Idle
    /\ op' = [op EXCEPT ![w] = [at |-> step, src |-> src, dst |-> dst]]
    /\ dirty' = dirty \cup Soiled(w, step, N)
    /\ disturbed' = IF R = {} THEN disturbed ELSE disturbed \cup {w} \cup R

Begin(w, step, src, dst) == BeginOn(w, step, src, dst, {src, dst})

Goto(w, step) == op' = [op EXCEPT ![w].at = step] /\ UNCHANGED <<dirty, disturbed>>

Leave(w) == op' = [op EXCEPT ![w] = Idle] /\ disturbed' = disturbed \ {w}

Finish(w) == Leave(w) /\ UNCHANGED dirty

\* An operation nothing raced with ends; whatever was wrong with its name is mended.
FinishMending(w) ==
    /\ Leave(w)
    /\ dirty' = IF base /\ w \notin disturbed THEN dirty \ NamesOf(w) ELSE dirty

-------------------------------------------------------------------------------
(***************************************************************************)
(* The program starts with the table it has just created: the admin        *)
(* account, activated.                                                     *)
(***************************************************************************)
Init ==
    /\ holder = [n \in Names |-> IF n = Admin THEN AdminId ELSE None]
    /\ active = {AdminId}
    /\ issued = {AdminId}
    /\ base = TRUE
    /\ dirs = {Admin}
    /\ home = [n \in Names |-> IF n = Admin THEN NoOnes ELSE None]
    /\ op = [w \in Workers |-> Idle]
    /\ dirty = {}
    /\ disturbed = {}

\* registerHandler: the folder must not exist; then the row is inserted.
RegisterStat(w, n) ==
    /\ n \in OkNames
    /\ n \notin dirs
    /\ Begin(w, "insert", n, n)
    /\ UNCHANGED <<holder, active, issued, disk>>

RegisterInsert(w) ==
    LET n == op[w].src IN
    /\ At(w, "insert")
    /\ holder[n] = None
    /\ \E i \in Ids \ issued :
          /\ holder' = [holder EXCEPT ![n] = i]
          /\ issued' = issued \cup {i}
    /\ Finish(w)
    /\ UNCHANGED <<active, disk>>

\* "Username or email is already used".
RegisterRefused(w) ==
    /\ At(w, "insert")
    /\ Finish(w)
    /\ UNCHANGED <<holder, active, issued, disk>>

(***************************************************************************)
(* activateUser: select the row, set active, make the directory, write     *)
(* the welcome page, make the directory again.  The result of the update   *)
(* and the errors of the file system calls are not looked at; os.Mkdir     *)
(* fails without FilesDirectory.                                           *)
(***************************************************************************)
ActivateSelect(w, n) ==
    /\ holder[n] # None
    /\ Begin(w, "update", n, n)
    /\ UNCHANGED <<holder, active, issued, disk>>

\* Mutant: the update also counts an account that is gone by now.
ActivateUpdateOfAnyRow(w) ==
    /\ At(w, "update")
    /\ active' = active \cup {holder[op[w].src]}
    /\ Goto(w, "mkdir")
    /\ UNCHANGED <<holder, issued, disk>>

ActivateUpdate(w) ==
    LET n == op[w].src IN
    /\ At(w, "update")
    /\ active' = active \cup ({holder[n]} \ {None})
    /\ Goto(w, "mkdir")
    /\ UNCHANGED <<holder, issued, disk>>

Mkdir(n) == dirs' = IF base THEN dirs \cup {n} ELSE dirs

ActivateMkdir(w) ==
    /\ At(w, "mkdir")
    /\ Mkdir(op[w].src)
    /\ Goto(w, "index")
    /\ UNCHANGED <<holder, active, issued, base, home>>

ActivateIndex(w) ==
    LET n == op[w].src IN
    /\ At(w, "index")
    /\ home' = IF n \in dirs THEN [home EXCEPT ![n] = NoOnes] ELSE home
    /\ Goto(w, "mkdirAgain")
    /\ UNCHANGED <<holder, active, issued, base, dirs>>

ActivateMkdirAgain(w) ==
    /\ At(w, "mkdirAgain")
    /\ Mkdir(op[w].src)
    /\ FinishMending(w)
    /\ UNCHANGED <<holder, active, issued, base, home>>

(***************************************************************************)
(* renameUser: update the row (the new name must be well formed and, as    *)
(* the column is UNIQUE, free), then rename the directory.  os.Rename      *)
(* fails when there is no old directory and when the new one exists; the   *)
(* row keeps its new name all the same.                                    *)
(***************************************************************************)
RenameUpdate(w, o, n) ==
    /\ o # n /\ n \in OkNames
    /\ holder[o] # None /\ holder[n] = None
    /\ holder' = [holder EXCEPT ![n] = holder[o], ![o] = None]
    /\ Begin(w, "moveDir", o, n)
    /\ UNCHANGED <<active, issued, disk>>

\* Mutant: only the row is renamed.
RenameDirForgotten(w) ==
    /\ At(w, "moveDir")
    /\ Finish(w)
    /\ UNCHANGED <<holder, active, issued, disk>>

\* Mutant: a new directory is made and the old one removed with its pages.
RenameDirWithoutPages(w) ==
    LET o == op[w].src
        n == op[w].dst
    IN
    /\ At(w, "moveDir")
    /\ IF o \in dirs /\ n \notin dirs
       THEN /\ dirs' = (dirs \ {o}) \cup {n}
            /\ home' = [home EXCEPT ![o] = None]
       ELSE UNCHANGED <<dirs, home>>
    /\ Finish(w)
    /\ UNCHANGED <<holder, active, issued, base>>

RenameDir(w) ==
    LET o == op[w].src
        n == op[w].dst
    IN
    /\ At(w, "moveDir")
    /\ IF o \in dirs /\ n \notin dirs
       THEN /\ dirs' = (dirs \ {o}) \cup {n}
            /\ home' = [home EXCEPT ![n] = home[o], ![o] = None]
       ELSE UNCHANGED <<dirs, home>>
    /\ Finish(w)
    /\ UNCHANGED <<holder, active, issued, base>>

\* deleteUser: delete the row, if there is one, then the directory and all in it.
DeleteRow(w, n) ==
    /\ holder' = [holder EXCEPT ![n] = None]
    /\ active' = active \ {holder[n]}
    /\ Begin(w, "removeAll", n, n)
    /\ UNCHANGED <<issued, disk>>

\* Mutant: os.Remove in the place of os.RemoveAll, which fails on a directory with pages.
DeleteDirOnlyIfEmpty(w) ==
    LET n == op[w].src IN
    /\ At(w, "removeAll")
    /\ dirs' = IF home[n] = None THEN dirs \ {n} ELSE dirs
    /\ FinishMending(w)
    /\ UNCHANGED <<holder, active, issued, base, home>>

DeleteDir(w) ==
    LET n == op[w].src IN
    /\ At(w, "removeAll")
    /\ dirs' = dirs \ {n}
    /\ home' = [home EXCEPT ![n] = None]
    /\ FinishMending(w)
    /\ UNCHANGED <<holder, active, issued, base>>

(***************************************************************************)
(* deleteUser with the empty name, which deleteAccountHandler takes from   *)
(* a request without a session: no row has it, and filepath.Clean makes it *)
(* FilesDirectory itself.                                                  *)
(***************************************************************************)
DeleteNoRow(w) ==
    /\ BeginOn(w, "removeBase", None, None, Names)
    /\ UNCHANGED <<holder, active, issued, disk>>

DeleteBase(w) ==
    /\ At(w, "removeBase")
    /\ base' = FALSE
    /\ dirs' = {}
    /\ home' = [n \in Names |-> None]
    /\ Finish(w)
    /\ UNCHANGED <<holder, active, issued>>

(***************************************************************************)
(* The rest of an operation never happens: the server or the admin command *)
(* is killed, or a call returns an error.  os.RemoveAll may have removed   *)
(* some pages, and some directories that it had emptied, by then.          *)
(***************************************************************************)
Abandon(w) ==
    LET removing == IF op[w].at \in {"removeAll", "removeBase"} THEN NamesOf(w) ELSE {} IN
    /\ op[w] # Idle
    /\ Leave(w)
    /\ dirty' = IF op[w].at \in HalfDone THEN dirty \cup NamesOf(w) ELSE dirty
    /\ \E pages \in SUBSET removing : \E gone \in SUBSET pages :
          /\ home' = [n \in Names |-> IF n \in pages THEN None ELSE home[n]]
          /\ dirs' = dirs \ gone
    /\ UNCHANGED <<holder, active, issued, base>>

(***************************************************************************)
(* index.gmi is saved by a session or an SFTP connection that says n (the  *)
(* other files are in UserFiles): checkIfValidFile, which fails when there *)
(* is no directory n; for the edit form os.MkdirAll; the write.  Whether   *)
(* whoever logged in still bears n is not looked at: he may be a former    *)
(* bearer, or an administrator who impersonates the present one.           *)
(***************************************************************************)
SaveCheck(w, n) ==
    /\ n \in dirs
    /\ \E step \in {"makeDir", "write"} : Begin(w, step, n, n)
    /\ UNCHANGED <<holder, active, issued, disk>>

SaveMkdirAll(w) ==
    /\ At(w, "makeDir")
    /\ base' = TRUE
    /\ dirs' = dirs \cup {op[w].src}
    /\ Goto(w, "write")
    /\ UNCHANGED <<holder, active, issued, home>>

SaveWrite(w) ==
    LET n == op[w].src IN
    /\ At(w, "write")
    /\ \E who \in ({holder[n]} \cap active) \cup {NoOnes} :
          home' = IF n \in dirs THEN [home EXCEPT ![n] = who] ELSE home
    /\ Finish(w)
    /\ UNCHANGED <<holder, active, issued, base, dirs>>

Step(w) ==
    \/ \E n \in Names : \/ RegisterStat(w, n) \/ ActivateSelect(w, n)
                       \/ DeleteRow(w, n) \/ SaveCheck(w, n)
    \/ \E o, n \in Names : RenameUpdate(w, o, n)
    \/ RegisterInsert(w) \/ RegisterRefused(w)
    \/ ActivateUpdate(w) \/ ActivateMkdir(w)
    \/ ActivateIndex(w) \/ ActivateMkdirAgain(w)
    \/ RenameDir(w)
    \/ DeleteDir(w)
    \/ DeleteNoRow(w) \/ DeleteBase(w)
    \/ SaveMkdirAll(w) \/ SaveWrite(w)
    \/ Abandon(w)

Next == \E w \in Workers : Step(w)

Spec == Init /\ [][Next]_vars

-------------------------------------------------------------------------------
Operation ==
    {Idle, [Idle EXCEPT !.at = "removeBase"]}
        \cup [at : Steps \ {"removeBase"}, src : Names, dst : Names]

\* Every variable has its type: the table, the directories, the workers.
TypeOK ==
    /\ holder \in [Names -> Ids \cup {None}]
    /\ active \subseteq Ids
    /\ issued \subseteq Ids
    /\ base \in BOOLEAN
    /\ dirs \subseteq Names
    /\ home \in [Names -> Ids \cup {None, NoOnes}]
    /\ op \in [Workers -> Operation]
    /\ dirty \subseteq Names
    /\ disturbed \subseteq Workers

\* Names with no operation between its row and its directory, and nothing broken.
Settled ==
    Names \ (dirty \cup UNION {NamesOf(w) : w \in {v \in Workers : op[v].at \in HalfDone}})

(***************************************************************************)
(* A directory exists exactly for the active accounts.  Registrations and  *)
(* uploads may race with anything, activations and edits with each other.  *)
(* Excused are the names on which a rename or a deletion met another       *)
(* operation, those of one that stopped between row and directory, and     *)
(* all names after a deletion without a name; each until an activation or  *)
(* a deletion of the name that nothing races with, which repairs it.       *)
(***************************************************************************)
DirectoryMatchesRow == \A n \in Settled : n \in dirs <=> holder[n] \in active

(***************************************************************************)
(* A page that an account saved under the name it bore is that account's   *)
(* as long as it is there: a rename moves it with the account, a deletion  *)
(* leaves none behind for the next bearer, no registration or activation   *)
(* gets hold of it.  What a session saves under a name that its account    *)
(* does not bear is no one's.                                              *)
(***************************************************************************)
PageIsTheHolders ==
    \A n \in Settled : home[n] \in Ids => home[n] = holder[n]

(***************************************************************************)
(* The page of an account that still has its row is moved, never removed:  *)
(* if there is none any more under a name, it is then under another name   *)
(* of the same account, or the name is excused as above.                   *)
(***************************************************************************)
LivePage(n) == home[n] \in Ids /\ \E m \in Names : holder[m] = home[n]

KeepsPages ==
    \A n \in Names \ (dirty \cup dirty') :
        LivePage(n) /\ home'[n] = None =>
            \E m \in Names : home'[m] = home[n] /\ holder'[m] = home[n]

NoPageLost == [][KeepsPages]_vars

===============================================================================
