--------------------------------- MODULE Boot ---------------------------------
(***************************************************************************)
(* The start of the program: main opens the database, makes the tables     *)
(* that do not exist, the first account with them, and reads or makes the  *)
(* key that signs cookies.  "flounder serve" and each "flounder admin"     *)
(* command start this way, on one database, perhaps at the same time; each *)
(* may be killed between any two calls and started again.                  *)
(*                                                                         *)
(* Each action is one SQL statement or file system call.  A statement may  *)
(* fail while another process works on the database.                       *)
(***************************************************************************)
EXTENDS Naturals, Sequences

CONSTANTS
    Processes,
    MaxStarts,      \* a bound on the starts of programs
    None

VARIABLES
    userTable,  \* table user exists
    admin,      \* its row "admin": "none", "inactive" or "active"
    site,       \* the admin's directory: "none", "empty" or "welcome"
    keyTable,   \* table cookie_key exists
    keys,       \* its rows, in the order of their insertion
    proc,       \* proc[p]: the step process p is at, the key it signs with; history:
                \* it made table user; it and another found no key at once
    starts,     \* starts of programs so far; also the source of fresh keys
    spoiled     \* history: a start ended before the first account was complete

vars == <<userTable, admin, site, keyTable, keys, proc, starts, spoiled>>

ASSUME BootAssumption == MaxStarts \in Nat /\ None \notin Nat

-------------------------------------------------------------------------------
Down == [at |-> "down", key |-> None, creator |-> FALSE, met |-> FALSE]

At(p, step) == proc[p].at = step

Goto(p, step) == proc' = [proc EXCEPT ![p].at = step]

\* Another process holds a lock: a statement of p may fail.
Locked(p) == \E q \in Processes \ {p} : proc[q].at \notin {"down", "up"}

\* The table is made and the first account is not complete.
Creating(p) == proc[p].creator /\ proc[p].at \notin {"keyTable", "readKey", "insertKey", "up"}

Init ==
    /\ userTable = FALSE /\ keyTable = FALSE
    /\ admin = "none" /\ site = "none" /\ keys = <<>>
    /\ proc = [p \in Processes |-> Down]
    /\ starts = 0 /\ spoiled = FALSE

Start(p) ==
    /\ At(p, "down") /\ starts < MaxStarts
    /\ starts' = starts + 1
    /\ proc' = [proc EXCEPT ![p] = [Down EXCEPT !.at = "userTable", !.key = starts']]
    /\ UNCHANGED <<userTable, admin, site, keyTable, keys, spoiled>>

\* Killed, an admin command that is done, or log.Fatal after a statement that failed.
Stop(p) ==
    /\ ~At(p, "down")
    /\ proc' = [proc EXCEPT ![p] = Down]
    /\ spoiled' = (spoiled \/ Creating(p))
    /\ UNCHANGED <<userTable, admin, site, keyTable, keys, starts>>

\* Mutant: the table is made as the other one is, without asking whether it was there.
CreateIfNotExists(p) ==
    /\ At(p, "userTable")
    /\ userTable' = TRUE
    /\ proc' = [proc EXCEPT ![p].at = "keyTable"]
    /\ UNCHANGED <<admin, site, keyTable, keys, starts, spoiled>>

(***************************************************************************)
(* CREATE TABLE user.  Every error is taken for "it exists", also that of  *)
(* a database that another process has locked.                             *)
(***************************************************************************)
CreateUserTable(p) ==
    /\ At(p, "userTable")
    /\ \/ /\ ~userTable
          /\ userTable' = TRUE
          /\ proc' = [proc EXCEPT ![p].at = "insertAdmin", ![p].creator = TRUE]
          /\ UNCHANGED spoiled
       \/ /\ userTable \/ Locked(p)
          /\ Goto(p, "keyTable")
          /\ spoiled' = (spoiled \/ ~userTable)
          /\ UNCHANGED userTable
    /\ UNCHANGED <<admin, site, keyTable, keys, starts>>

\* INSERT OR IGNORE of the admin; its error is looked at after the activation.
InsertAdmin(p) ==
    /\ At(p, "insertAdmin")
    /\ \/ admin' = "inactive"
       \/ Locked(p) /\ UNCHANGED admin
    /\ Goto(p, "selectAdmin")
    /\ UNCHANGED <<userTable, site, keyTable, keys, starts, spoiled>>

\* activateUser("admin"): nothing is done if the row cannot be read or updated.
SelectAdmin(p) ==
    /\ At(p, "selectAdmin")
    /\ \/ admin # "none" /\ Goto(p, "updateAdmin")
       \/ (admin = "none" \/ Locked(p)) /\ Goto(p, "checkInsert")
    /\ UNCHANGED <<userTable, admin, site, keyTable, keys, starts, spoiled>>

UpdateAdmin(p) ==
    /\ At(p, "updateAdmin")
    /\ \/ admin' = "active" /\ Goto(p, "mkdir")
       \/ Locked(p) /\ UNCHANGED admin /\ Goto(p, "checkInsert")
    /\ UNCHANGED <<userTable, site, keyTable, keys, starts, spoiled>>

Mkdir(p) ==
    /\ At(p, "mkdir")
    /\ site' = IF site = "none" THEN "empty" ELSE site
    /\ Goto(p, "index")
    /\ UNCHANGED <<userTable, admin, keyTable, keys, starts, spoiled>>

WriteIndex(p) ==
    /\ At(p, "index")
    /\ site' = "welcome"
    /\ Goto(p, "checkInsert")
    /\ UNCHANGED <<userTable, admin, keyTable, keys, starts, spoiled>>

\* log.Fatal if the insertion failed; the result of the activation is not used.
CheckInsert(p) ==
    /\ At(p, "checkInsert")
    /\ proc' = [proc EXCEPT ![p] = IF admin = "none" THEN Down
                                   ELSE [@ EXCEPT !.at = "keyTable"]]
    /\ spoiled' = (spoiled \/ site # "welcome")
    /\ UNCHANGED <<userTable, admin, site, keyTable, keys, starts>>

CreateKeyTable(p) ==
    /\ At(p, "keyTable")
    /\ keyTable' = TRUE
    /\ Goto(p, "readKey")
    /\ UNCHANGED <<userTable, admin, site, keys, starts, spoiled>>

\* Mutant: the newest key is read.
ReadLastKey(p) ==
    /\ At(p, "readKey")
    /\ IF keys = <<>> THEN Goto(p, "insertKey")
       ELSE proc' = [proc EXCEPT ![p].at = "up", ![p].key = keys[Len(keys)]]
    /\ UNCHANGED <<userTable, admin, site, keyTable, keys, starts, spoiled>>

\* generateCookieKeyIfDNE: the first row, or else a random key.
ReadKey(p) ==
    LET others == {q \in Processes \ {p} : At(q, "insertKey")} IN
    /\ At(p, "readKey")
    /\ IF keys = <<>>
       THEN proc' = [q \in Processes |->
              IF q = p THEN [proc[p] EXCEPT !.at = "insertKey", !.met = others # {}]
              ELSE [proc[q] EXCEPT !.met = @ \/ q \in others]]
       ELSE proc' = [proc EXCEPT ![p].at = "up", ![p].key = Head(keys)]
    /\ UNCHANGED <<userTable, admin, site, keyTable, keys, starts, spoiled>>

InsertKey(p) ==
    /\ At(p, "insertKey")
    /\ keys' = Append(keys, proc[p].key)
    /\ Goto(p, "up")
    /\ UNCHANGED <<userTable, admin, site, keyTable, starts, spoiled>>

Next ==
    \E p \in Processes :
        \/ Start(p) \/ Stop(p)
        \/ CreateUserTable(p)
        \/ InsertAdmin(p) \/ SelectAdmin(p) \/ UpdateAdmin(p)
        \/ Mkdir(p) \/ WriteIndex(p) \/ CheckInsert(p)
        \/ CreateKeyTable(p) \/ ReadKey(p) \/ InsertKey(p)

Spec == Init /\ [][Next]_vars

-------------------------------------------------------------------------------
(***************************************************************************)
(* A program that is up finds the first account active with its page,      *)
(* unless a start before it was cut short half way, or another is under    *)
(* way: the account is made only by who makes the table.                   *)
(***************************************************************************)
AdminIsThere ==
    \A p \in Processes : At(p, "up") =>
        \/ admin = "active" /\ site = "welcome"
        \/ spoiled \/ \E q \in Processes : Creating(q)

(***************************************************************************)
(* Programs sign with the first key of the table, so that a session        *)
(* outlives a restart and is known to all; only of programs that found no  *)
(* key at the same time, one signs with a key that nobody reads again.     *)
(***************************************************************************)
KeyIsTheFirst ==
    \A p \in Processes : At(p, "up") => \/ keys # <<>> /\ proc[p].key = Head(keys)
                                        \/ proc[p].met
===============================================================================
