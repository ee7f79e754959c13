------------------------------- MODULE BootProofs -------------------------------
(***************************************************************************)
(* Proofs about Boot, for any number of programs and of starts: the first  *)
(* account is there unless a start was cut short, and the first key of the *)
(* table is the one that is used.                                          *)
(***************************************************************************)
EXTENDS Boot, TLAPS

USE BootAssumption

MakingAdmin == {"insertAdmin", "selectAdmin", "updateAdmin", "mkdir", "index", "checkInsert"}

PastAdmin == {"keyTable", "readKey", "insertKey", "up"}

Steps == {"down", "userTable"} \cup MakingAdmin \cup PastAdmin

Proc == [at : Steps, key : Nat \cup {None}, creator : BOOLEAN, met : BOOLEAN]

Types ==
    /\ keys \in Seq(Nat) /\ starts \in Nat
    /\ proc \in [Processes -> Proc]
    /\ \A p \in Processes : ~At(p, "down") => proc[p].key \in Nat

\* Only who made the table makes the account, in the order of the calls.
AdminInv ==
    /\ \A p \in Processes : proc[p].at \in MakingAdmin => proc[p].creator /\ userTable
    /\ \A p \in Processes : proc[p].creator => proc[p].at \in MakingAdmin \cup PastAdmin
    /\ \A p, q \in Processes : proc[p].at \in MakingAdmin /\ proc[q].at \in MakingAdmin => p = q
    /\ \A p \in Processes : At(p, "insertAdmin") => admin = "none"
    /\ \A p \in Processes : proc[p].at \in {"mkdir", "index"} => admin = "active"
    /\ site # "none" => admin = "active"
    /\ ~userTable => admin = "none"
    /\ userTable /\ ~spoiled /\ (\A p \in Processes : proc[p].at \notin MakingAdmin)
          => site = "welcome"
    /\ \A p \in Processes : proc[p].at \in PastAdmin => userTable \/ spoiled

\* Who is about to insert a key and has met nobody will insert the first.
KeyInv ==
    /\ \A p \in Processes : At(p, "insertKey") /\ ~proc[p].met =>
          /\ keys = <<>>
          /\ \A q \in Processes : At(q, "insertKey") => q = p
    /\ \A p \in Processes : At(p, "up") /\ ~proc[p].met =>
          keys # <<>> /\ proc[p].key = Head(keys)

Inv == Types /\ AdminInv /\ KeyInv

-------------------------------------------------------------------------------
\* A step that moves one program to step s, and changes nothing else of it.
LEMMA Moved ==
    ASSUME Inv, NEW p \in Processes, NEW s \in Steps, Goto(p, s)
    PROVE  /\ proc' \in [Processes -> Proc]
           /\ \A q \in Processes : q # p => proc'[q] = proc[q]
           /\ proc'[p].at = s /\ proc'[p].key = proc[p].key
           /\ proc'[p].creator = proc[p].creator /\ proc'[p].met = proc[p].met
BY DEF Inv, Types, Goto, Proc

\* The invariant holds at first, and each action keeps it.
LEMMA InitInv == Init => Inv
<1> SUFFICES ASSUME Init PROVE Inv
  OBVIOUS
<1>1. Down \in Proc /\ Down.at = "down" /\ ~Down.creator
  BY DEF Down, Proc, Steps
<1>2. \A p \in Processes : proc[p] = Down
  BY DEF Init
<1>3. Types
  BY <1>1, <1>2 DEF Init, Types, At
<1>4. AdminInv /\ KeyInv
  BY <1>1, <1>2 DEF Init, AdminInv, KeyInv, At, MakingAdmin, PastAdmin
<1> QED
  BY <1>3, <1>4 DEF Inv

LEMMA StartInv == ASSUME Inv, NEW p \in Processes, Start(p) PROVE Inv'
<1>1. /\ At(p, "down") /\ starts' = starts + 1
      /\ proc' = [proc EXCEPT ![p] = [Down EXCEPT !.at = "userTable", !.key = starts']]
      /\ UNCHANGED <<userTable, admin, site, keyTable, keys, spoiled>>
  BY DEF Start
<1>2. /\ proc' \in [Processes -> Proc] /\ starts' \in Nat
      /\ \A q \in Processes : q # p => proc'[q] = proc[q]
      /\ proc'[p].at = "userTable" /\ proc'[p].key \in Nat /\ ~proc'[p].creator
  <2>1. starts' \in Nat /\ proc \in [Processes -> Proc]
    BY <1>1 DEF Inv, Types
  <2>2. PICK d : d = Down
    OBVIOUS
  <2>3. d \in Proc /\ ~d.creator
    BY <2>2 DEF Down, Proc, Steps
  <2>4. PICK e : e = [d EXCEPT !.at = "userTable", !.key = starts']
    OBVIOUS
  <2>5. e \in Proc /\ e.at = "userTable" /\ e.key = starts' /\ ~e.creator
    BY <2>1, <2>3, <2>4 DEF Proc, Steps
  <2>6. proc' = [proc EXCEPT ![p] = e]
    BY <1>1, <2>2, <2>4
  <2> QED
    BY <2>1, <2>5, <2>6
<1>3. Types'
  BY <1>1, <1>2 DEF Inv, Types, At
<1>4. AdminInv'
  BY <1>1, <1>2 DEF Inv, AdminInv, At, MakingAdmin, PastAdmin
<1>5. KeyInv'
  BY <1>1, <1>2 DEF Inv, KeyInv, At
<1> QED
  BY <1>3, <1>4, <1>5 DEF Inv

LEMMA StopInv == ASSUME Inv, NEW p \in Processes, Stop(p) PROVE Inv'
<1>1. /\ proc' = [proc EXCEPT ![p] = Down] /\ spoiled' = (spoiled \/ Creating(p))
      /\ UNCHANGED <<userTable, admin, site, keyTable, keys, starts>>
  BY DEF Stop
<1>2. /\ proc' \in [Processes -> Proc]
      /\ \A q \in Processes : q # p => proc'[q] = proc[q]
      /\ proc'[p].at = "down" /\ ~proc'[p].creator
  BY <1>1 DEF Inv, Types, Down, Proc, Steps
<1>3. Types'
  BY <1>1, <1>2 DEF Inv, Types, At
<1>4. proc[p].at \in MakingAdmin => spoiled'
  BY <1>1 DEF Inv, AdminInv, Creating, MakingAdmin
<1>5. AdminInv'
  BY <1>1, <1>2, <1>4 DEF Inv, AdminInv, At, MakingAdmin, PastAdmin
<1>6. KeyInv'
  BY <1>1, <1>2 DEF Inv, KeyInv, At
<1> QED
  BY <1>3, <1>5, <1>6 DEF Inv

LEMMA CreateUserTableInv == ASSUME Inv, NEW p \in Processes, CreateUserTable(p) PROVE Inv'
<1>1. At(p, "userTable") /\ UNCHANGED <<admin, site, keyTable, keys, starts>>
  BY DEF CreateUserTable
<1>2. CASE /\ ~userTable /\ userTable' = TRUE /\ UNCHANGED spoiled
           /\ proc' = [proc EXCEPT ![p].at = "insertAdmin", ![p].creator = TRUE]
  <2>1. /\ proc' \in [Processes -> Proc]
        /\ \A q \in Processes : q # p => proc'[q] = proc[q]
        /\ proc'[p].at = "insertAdmin" /\ proc'[p].key = proc[p].key /\ proc'[p].creator
    BY <1>2 DEF Inv, Types, Proc, Steps, MakingAdmin
  <2>2. Types'
    BY <1>1, <2>1 DEF Inv, Types, At
  <2>3. AdminInv'
    BY <1>1, <1>2, <2>1 DEF Inv, AdminInv, At, MakingAdmin, PastAdmin
  <2>4. KeyInv'
    BY <1>1, <2>1 DEF Inv, KeyInv, At
  <2> QED
    BY <2>2, <2>3, <2>4 DEF Inv
<1>3. CASE Goto(p, "keyTable") /\ spoiled' = (spoiled \/ ~userTable) /\ UNCHANGED userTable
  <2>1. /\ proc' \in [Processes -> Proc]
        /\ \A q \in Processes : q # p => proc'[q] = proc[q]
        /\ proc'[p].at = "keyTable" /\ proc'[p].key = proc[p].key
        /\ proc'[p].creator = proc[p].creator
    BY <1>3, Moved DEF Steps, PastAdmin
  <2>2. Types'
    BY <1>1, <2>1 DEF Inv, Types, At
  <2>3. AdminInv'
    BY <1>1, <1>3, <2>1 DEF Inv, AdminInv, At, MakingAdmin, PastAdmin
  <2>4. KeyInv'
    BY <1>1, <2>1 DEF Inv, KeyInv, At
  <2> QED
    BY <2>2, <2>3, <2>4 DEF Inv
<1> QED
  BY <1>2, <1>3 DEF CreateUserTable

\* Between the table and the keys, a program only makes the account.
LEMMA AdminStepInv ==
    ASSUME Inv, NEW p \in Processes, NEW s \in MakingAdmin, Goto(p, s),
           proc[p].at \in MakingAdmin,
           UNCHANGED <<userTable, keyTable, keys, starts, spoiled>>,
           s # "insertAdmin",
           admin' = "none" => admin = "none",
           s \in {"mkdir", "index"} => admin' = "active",
           site' # "none" => admin' = "active"
    PROVE  Inv'
<1>1. /\ proc' \in [Processes -> Proc]
      /\ \A q \in Processes : q # p => proc'[q] = proc[q]
      /\ proc'[p].at = s /\ proc'[p].key = proc[p].key /\ proc'[p].creator = proc[p].creator
  BY Moved DEF Steps
<1>2. Types'
  BY <1>1 DEF Inv, Types, At, MakingAdmin
<1>3. \A q \in Processes : proc[q].at \in MakingAdmin => q = p
  BY DEF Inv, AdminInv
<1>4. userTable /\ proc[p].creator
  BY DEF Inv, AdminInv
<1>5. AdminInv'
  BY <1>1, <1>3, <1>4 DEF Inv, AdminInv, At, MakingAdmin, PastAdmin
<1>6. KeyInv'
  BY <1>1 DEF Inv, KeyInv, At, MakingAdmin
<1> QED
  BY <1>2, <1>5, <1>6 DEF Inv

LEMMA MakeAdminInv ==
    ASSUME Inv, NEW p \in Processes,
           InsertAdmin(p) \/ SelectAdmin(p) \/ UpdateAdmin(p) \/ Mkdir(p) \/ WriteIndex(p)
    PROVE  Inv'
<1>1. CASE InsertAdmin(p)
  <2>1. admin = "none" /\ site = "none"
    BY <1>1 DEF InsertAdmin, Inv, AdminInv
  <2> QED
    BY <1>1, <2>1, AdminStepInv DEF InsertAdmin, At, MakingAdmin
<1>2. CASE SelectAdmin(p)
  <2>1. site # "none" => admin = "active"
    BY DEF Inv, AdminInv
  <2> QED
    BY <1>2, <2>1, AdminStepInv DEF SelectAdmin, At, MakingAdmin
<1>3. CASE UpdateAdmin(p)
  <2>1. site # "none" => admin = "active"
    BY DEF Inv, AdminInv
  <2> QED
    BY <1>3, <2>1, AdminStepInv DEF UpdateAdmin, At, MakingAdmin
<1>4. CASE Mkdir(p)
  <2>1. admin = "active"
    BY <1>4 DEF Mkdir, At, Inv, AdminInv
  <2> QED
    BY <1>4, <2>1, AdminStepInv DEF Mkdir, At, MakingAdmin
<1>5. CASE WriteIndex(p)
  <2>1. admin = "active"
    BY <1>5 DEF WriteIndex, At, Inv, AdminInv
  <2> QED
    BY <1>5, <2>1, AdminStepInv DEF WriteIndex, At, MakingAdmin
<1> QED
  BY <1>1, <1>2, <1>3, <1>4, <1>5

LEMMA CheckInsertInv == ASSUME Inv, NEW p \in Processes, CheckInsert(p) PROVE Inv'
<1>1. /\ At(p, "checkInsert") /\ spoiled' = (spoiled \/ site # "welcome")
      /\ UNCHANGED <<userTable, admin, site, keyTable, keys, starts>>
      /\ userTable /\ proc[p].creator
      /\ \A q \in Processes : proc[q].at \in MakingAdmin => q = p
  BY DEF CheckInsert, Inv, AdminInv, At, MakingAdmin
<1>2. /\ proc' \in [Processes -> Proc]
      /\ \A q \in Processes : q # p => proc'[q] = proc[q]
      /\ \/ proc'[p].at = "down" /\ ~proc'[p].creator
         \/ proc'[p].at = "keyTable" /\ proc'[p].key = proc[p].key
  <2>1. CASE admin = "none"
    <3>1. proc' = [proc EXCEPT ![p] = Down]
      BY <2>1 DEF CheckInsert
    <3> QED
      BY <3>1 DEF Inv, Types, Down, Proc, Steps
  <2>2. CASE admin # "none"
    <3>1. proc' = [proc EXCEPT ![p] = [@ EXCEPT !.at = "keyTable"]]
      BY <2>2 DEF CheckInsert
    <3> QED
      BY <3>1 DEF Inv, Types, Proc, Steps, PastAdmin
  <2> QED
    BY <2>1, <2>2
<1>3. Types'
  BY <1>1, <1>2 DEF Inv, Types, At
<1>4. AdminInv'
  BY <1>1, <1>2 DEF Inv, AdminInv, At, MakingAdmin, PastAdmin
<1>5. KeyInv'
  BY <1>1, <1>2 DEF Inv, KeyInv, At
<1> QED
  BY <1>3, <1>4, <1>5 DEF Inv

\* The keys have nothing to do with the account.
LEMMA AdminUntouched ==
    ASSUME Inv, NEW p \in Processes, proc[p].at \in PastAdmin,
           proc'[p].at \in PastAdmin,
           \A q \in Processes : q # p => proc'[q].at = proc[q].at /\ proc'[q].creator = proc[q].creator,
           UNCHANGED <<userTable, admin, site, spoiled>>
    PROVE  AdminInv'
BY DEF Inv, AdminInv, At, MakingAdmin, PastAdmin

LEMMA CreateKeyTableInv == ASSUME Inv, NEW p \in Processes, CreateKeyTable(p) PROVE Inv'
<1>1. /\ At(p, "keyTable") /\ Goto(p, "readKey")
      /\ UNCHANGED <<userTable, admin, site, keys, starts, spoiled>>
  BY DEF CreateKeyTable
<1>2. /\ proc' \in [Processes -> Proc]
      /\ \A q \in Processes : q # p => proc'[q] = proc[q]
      /\ proc'[p].at = "readKey" /\ proc'[p].key = proc[p].key
  BY <1>1, Moved DEF Steps, PastAdmin
<1>3. Types'
  BY <1>1, <1>2 DEF Inv, Types, At
<1>4. AdminInv'
  BY <1>1, <1>2, AdminUntouched DEF At, PastAdmin
<1>5. KeyInv'
  BY <1>1, <1>2 DEF Inv, KeyInv, At
<1> QED
  BY <1>3, <1>4, <1>5 DEF Inv

LEMMA ReadKeyInv == ASSUME Inv, NEW p \in Processes, ReadKey(p) PROVE Inv'
<1> PICK others : others = {q \in Processes \ {p} : At(q, "insertKey")}
  OBVIOUS
<1>1. At(p, "readKey") /\ UNCHANGED <<userTable, admin, site, keyTable, keys, starts, spoiled>>
  BY DEF ReadKey
<1>2. CASE keys = <<>>
  <2>1. proc' = [q \in Processes |->
                  IF q = p THEN [proc[p] EXCEPT !.at = "insertKey", !.met = others # {}]
                  ELSE [proc[q] EXCEPT !.met = @ \/ q \in others]]
    BY <1>2 DEF ReadKey
  <2>2. /\ proc' \in [Processes -> Proc]
        /\ \A q \in Processes : q # p =>
              /\ proc'[q].at = proc[q].at /\ proc'[q].key = proc[q].key
              /\ proc'[q].creator = proc[q].creator
              /\ q \in others => proc'[q].met
              /\ proc[q].met => proc'[q].met
        /\ proc'[p].at = "insertKey" /\ proc'[p].key = proc[p].key
        /\ others # {} => proc'[p].met
    <3>1. ASSUME NEW q \in Processes, q # p
          PROVE  /\ proc'[q] = [proc[q] EXCEPT !.met = @ \/ q \in others]
                 /\ proc'[q] \in Proc
                 /\ proc'[q].at = proc[q].at /\ proc'[q].key = proc[q].key
                 /\ proc'[q].creator = proc[q].creator
                 /\ q \in others => proc'[q].met
                 /\ proc[q].met => proc'[q].met
      <4>1. proc'[q] = [proc[q] EXCEPT !.met = @ \/ q \in others] /\ proc[q] \in Proc
        BY <2>1, <3>1 DEF Inv, Types
      <4>2. proc'[q] = [at |-> proc[q].at, key |-> proc[q].key, creator |-> proc[q].creator,
                        met |-> (proc[q].met \/ q \in others)]
        BY <4>1 DEF Proc
      <4>3. (proc[q].met \/ q \in others) \in BOOLEAN
        OBVIOUS
      <4> QED
        BY <4>1, <4>2, <4>3 DEF Proc
    <3>2. /\ proc'[p] \in Proc /\ proc'[p].at = "insertKey" /\ proc'[p].key = proc[p].key
          /\ others # {} => proc'[p].met
      <4>1. proc'[p] = [proc[p] EXCEPT !.at = "insertKey", !.met = others # {}]
            /\ proc[p] \in Proc
        BY <2>1 DEF Inv, Types
      <4>2. proc'[p] = [at |-> "insertKey", key |-> proc[p].key, creator |-> proc[p].creator,
                        met |-> others # {}]
        BY <4>1 DEF Proc
      <4>3. (others # {}) \in BOOLEAN /\ "insertKey" \in Steps
        BY DEF Steps, PastAdmin
      <4> QED
        BY <4>1, <4>2, <4>3 DEF Proc
    <3>3. proc' = [q \in Processes |-> proc'[q]]
      BY <2>1
    <3> QED
      BY <3>1, <3>2, <3>3
  <2>3. Types'
    BY <1>1, <2>2 DEF Inv, Types, At
  <2>4. AdminInv'
    BY <1>1, <2>2, AdminUntouched DEF At, PastAdmin
  <2>5. KeyInv'
    BY <1>1, <1>2, <2>2 DEF Inv, KeyInv, At
  <2> QED
    BY <2>3, <2>4, <2>5 DEF Inv
<1>3. CASE keys # <<>>
  <2>1. proc' = [proc EXCEPT ![p].at = "up", ![p].key = Head(keys)]
    BY <1>3 DEF ReadKey
  <2>2. Head(keys) \in Nat
    BY <1>3 DEF Inv, Types
  <2>3. /\ proc' \in [Processes -> Proc]
        /\ \A q \in Processes : q # p => proc'[q] = proc[q]
        /\ proc'[p].at = "up" /\ proc'[p].key = Head(keys)
    BY <2>1, <2>2 DEF Inv, Types, Proc, Steps, PastAdmin
  <2>4. Types'
    BY <1>1, <2>2, <2>3 DEF Inv, Types, At
  <2>5. AdminInv'
    BY <1>1, <2>3, AdminUntouched DEF At, PastAdmin
  <2>6. KeyInv'
    BY <1>1, <1>3, <2>3 DEF Inv, KeyInv, At
  <2> QED
    BY <2>4, <2>5, <2>6 DEF Inv
<1> QED
  BY <1>2, <1>3

\* The first element of a sequence that grows.
LEMMA HeadOfAppend ==
    ASSUME NEW S, NEW s \in Seq(S), NEW e \in S
    PROVE  /\ Append(s, e) \in Seq(S) /\ Append(s, e) # <<>>
           /\ s = <<>> => Head(Append(s, e)) = e
           /\ s # <<>> => Head(Append(s, e)) = Head(s)
<1>1. /\ Append(s, e) \in Seq(S) /\ Len(Append(s, e)) = Len(s) + 1 /\ Len(s) \in Nat
      /\ Append(s, e)[Len(s) + 1] = e
      /\ \A i \in 1 .. Len(s) : Append(s, e)[i] = s[i]
      /\ s # <<>> => Len(s) >= 1
      /\ s = <<>> => Len(s) = 0
  OBVIOUS
<1>2. Append(s, e) # <<>>
  BY <1>1
<1>3. Head(Append(s, e)) = Append(s, e)[1] /\ Head(s) = s[1]
  OBVIOUS
<1> QED
  BY <1>1, <1>2, <1>3

LEMMA InsertKeyInv == ASSUME Inv, NEW p \in Processes, InsertKey(p) PROVE Inv'
<1>1. /\ At(p, "insertKey") /\ Goto(p, "up") /\ keys' = Append(keys, proc[p].key)
      /\ UNCHANGED <<userTable, admin, site, keyTable, starts, spoiled>>
  BY DEF InsertKey
<1>2. /\ proc' \in [Processes -> Proc]
      /\ \A q \in Processes : q # p => proc'[q] = proc[q]
      /\ proc'[p].at = "up" /\ proc'[p].key = proc[p].key /\ proc'[p].met = proc[p].met
  BY <1>1, Moved DEF Steps, PastAdmin
<1>3. /\ keys \in Seq(Nat) /\ proc[p].key \in Nat
  BY <1>1 DEF Inv, Types, At
<1>4. /\ keys' \in Seq(Nat) /\ keys' # <<>>
      /\ keys = <<>> => Head(keys') = proc[p].key
      /\ keys # <<>> => Head(keys') = Head(keys)
  BY <1>1, <1>3, HeadOfAppend
<1>5. Types'
  BY <1>1, <1>2, <1>4 DEF Inv, Types, At
<1>6. AdminInv'
  BY <1>1, <1>2, AdminUntouched DEF At, PastAdmin
<1>7. KeyInv'
  BY <1>1, <1>2, <1>4 DEF Inv, KeyInv, At
<1> QED
  BY <1>5, <1>6, <1>7 DEF Inv

(***************************************************************************)
(* What createTablesIfDNE and generateCookieKeyIfDNE rely on, whoever runs *)
(* them at the same time and wherever they are stopped.                    *)
(***************************************************************************)
THEOREM Invariance == Spec => []Inv
<1>1. Inv /\ [Next]_vars => Inv'
  <2> SUFFICES ASSUME Inv, [Next]_vars PROVE Inv'
    OBVIOUS
  <2>1. CASE UNCHANGED vars
    BY <2>1 DEF vars, Inv, Types, AdminInv, KeyInv, At
  <2>2. CASE Next
    BY <2>2, StartInv, StopInv, CreateUserTableInv, MakeAdminInv, CheckInsertInv,
       CreateKeyTableInv, ReadKeyInv, InsertKeyInv DEF Next
  <2> QED
    BY <2>1, <2>2
<1> QED
  BY <1>1, InitInv, PTL DEF Spec

(***************************************************************************)
(* Every program that is up has an administrator to log in, with a page,   *)
(* unless the making of the account was cut short or is under way.         *)
(***************************************************************************)
THEOREM AdminIsMade == Spec => []AdminIsThere
<1>1. Inv => AdminIsThere
  <2> SUFFICES ASSUME Inv, NEW p \in Processes, At(p, "up"), ~spoiled,
                      \A q \in Processes : ~Creating(q)
               PROVE  admin = "active" /\ site = "welcome"
    BY DEF AdminIsThere
  <2>1. userTable
    BY DEF Inv, AdminInv, At, PastAdmin
  <2>2. \A q \in Processes : proc[q].at \notin MakingAdmin
    BY DEF Inv, AdminInv, Creating, MakingAdmin
  <2> QED
    BY <2>1, <2>2 DEF Inv, AdminInv
<1> QED
  BY <1>1, Invariance, PTL

(***************************************************************************)
(* Every program that is up signs cookies with the first key of the table, *)
(* which all later starts read, unless it met another that found no key.   *)
(***************************************************************************)
THEOREM KeyIsFirst == Spec => []KeyIsTheFirst
<1>1. Inv => KeyIsTheFirst
  BY DEF Inv, KeyInv, KeyIsTheFirst
<1> QED
  BY <1>1, Invariance, PTL
================================================================================
