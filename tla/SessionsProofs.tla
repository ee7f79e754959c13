----------------------------- MODULE SessionsProofs -----------------------------
(***************************************************************************)
(* Proofs about Sessions, for any number of accounts, browsers,            *)
(* connections and requests under way: whom a cookie acts for, who is an   *)
(* administrator, where a logout leads, and whose a password is.           *)
(***************************************************************************)
EXTENDS Sessions, TLAPS

USE SessionsAssumption

\* A cookie stands for nobody without a name, and its flags were earned.
Honest(k) ==
    /\ k.acts \in Ids => k.user \in Names
    /\ k.back \in Ids => k.impers \in Names
    /\ k.admin => k.by \in admins /\ k.user # None
    /\ ~k.mixed => IF k.impers = None THEN k.acts = k.by ELSE k.back = k.by /\ k.admin

JarOK(k) ==
    /\ k \in Cookie /\ Honest(k)
    /\ StandsFor(k.user, k.acts, k) /\ StandsFor(k.impers, k.back, k)

\* The name a request's account has by now: a rename is under way, or not.
NameNow(e) == IF e.at = "moveDir" THEN e.arg ELSE e.cookie.user

\* Whoever asked for a new password for a name knew that of an account that had it.
KnewOne(e) == \E j \in Ids : j \in former[e.cookie.user] /\ (e.arg = j \/ Heir(j))

RequestOK(e) ==
    /\ e \in Request /\ Honest(e.cookie)
    /\ e.at # "idle" => e.from \in Browsers
    /\ e.at = "moveDir" => e.arg \in Names
    /\ e.at = "hash" => e.arg \in Ids /\ e.cookie.user \in Names /\ KnewOne(e)
    /\ e.at # "removeAll" => StandsFor(NameNow(e), e.cookie.acts, e.cookie)
    /\ StandsFor(e.cookie.impers, e.cookie.back, e.cookie)

TableOK ==
    /\ holder \in [Names -> Ids \cup {None}]
    /\ active \subseteq Ids /\ admins \subseteq Ids /\ issued \subseteq Ids
    /\ password \in [Ids -> Ids]
    /\ email \in [Ids -> Names \cup {None}]
    /\ former \in [Names -> SUBSET Ids]
    /\ \A n \in Names : holder[n] \in Ids => holder[n] \in former[n]
    /\ PasswordIsTheOwners

ClientsOK == jar \in [Clients -> Cookie] /\ \A x \in Clients : JarOK(jar[x])

RequestsOK == req \in [Requests -> Request] /\ \A r \in Requests : RequestOK(req[r])

Inv == TableOK /\ ClientsOK /\ RequestsOK

-------------------------------------------------------------------------------
\* What a cookie is when its account was renamed or deleted elsewhere.
Marked(k, l, i) ==
    /\ l \in Cookie
    /\ l.user = k.user /\ l.impers = k.impers /\ l.admin = k.admin
    /\ l.acts = k.acts /\ l.back = k.back /\ l.by = k.by /\ l.mixed = k.mixed
    /\ k.astray \subseteq l.astray
    /\ i \in Ids /\ i \in {k.acts, k.back} => i \in l.astray

LEMMA MarkIsMarked ==
    ASSUME NEW k \in Cookie, NEW i
    PROVE  Marked(k, Mark(k, i), i)
<1> PICK a : a = k.astray \cup ({i} \cap {k.acts, k.back} \cap Ids)
  OBVIOUS
<1> PICK l : l = [k EXCEPT !.astray = a]
  OBVIOUS
<1>1. a \subseteq Ids
  BY DEF Cookie
<1>2. /\ l \in Cookie
      /\ l.user = k.user /\ l.impers = k.impers /\ l.admin = k.admin
      /\ l.acts = k.acts /\ l.back = k.back /\ l.by = k.by /\ l.mixed = k.mixed
      /\ l.astray = a
  BY <1>1 DEF Cookie
<1>3. Mark(k, i) = l
  BY DEF Mark
<1> QED
  BY <1>2, <1>3 DEF Marked

\* Nothing about a cookie is touched.
LEMMA SameIsMarked == ASSUME NEW k \in Cookie PROVE Marked(k, k, None)
BY DEF Marked

LEMMA NoCookieType ==
    /\ NoCookie \in Cookie /\ NoCookie.user = None /\ NoCookie.impers = None
    /\ ~NoCookie.admin /\ NoCookie.acts = None /\ NoCookie.back = None
    /\ NoCookie.by = None /\ ~NoCookie.mixed /\ NoCookie.astray = {}
BY DEF NoCookie, Cookie

LEMMA NoCookieOK == JarOK(NoCookie)
BY NoCookieType DEF JarOK, Honest, StandsFor

LEMMA IdleType ==
    /\ Idle \in Request /\ Idle.at = "idle" /\ Idle.cookie = NoCookie
    /\ Idle.arg = None /\ Idle.from = None
BY DEF Idle, Request

LEMMA IdleOK == RequestOK(Idle)
BY IdleType, NoCookieType DEF RequestOK, Honest, StandsFor, NameNow

\* The fields of a request, and of one that is made of them.
LEMMA RequestFields ==
    ASSUME NEW e \in Request
    PROVE  /\ e.cookie \in Cookie
           /\ e = [at |-> e.at, from |-> e.from, cookie |-> e.cookie, arg |-> e.arg]
           /\ e # Idle => /\ e.at \in {"sent", "moveDir", "removeAll", "hash", "answer"}
                          /\ e.from \in Browsers /\ e.arg \in Names \cup Ids \cup {None}
           /\ e.at = "idle" <=> e = Idle
<1>1. CASE e = Idle
  <2>1. Idle = [at |-> Idle.at, from |-> Idle.from, cookie |-> Idle.cookie, arg |-> Idle.arg]
    BY DEF Idle
  <2> QED
    BY <1>1, <2>1, IdleType, NoCookieType
<1>2. CASE e # Idle
  <2>1. e \in [at : {"sent", "moveDir", "removeAll", "hash", "answer"},
               from : Browsers, cookie : Cookie, arg : Names \cup Ids \cup {None}]
    BY <1>2 DEF Request
  <2> QED
    BY <2>1, <1>2
<1> QED
  BY <1>1, <1>2

LEMMA RequestMade ==
    ASSUME NEW at \in {"sent", "moveDir", "removeAll", "hash", "answer"}, NEW b \in Browsers,
           NEW k \in Cookie, NEW a \in Names \cup Ids \cup {None}
    PROVE  [at |-> at, from |-> b, cookie |-> k, arg |-> a] \in Request
BY DEF Request

-------------------------------------------------------------------------------
\* How the table may change: names pass on, as long as cookies are marked for it.
TableStep(i) ==
    /\ \A n \in Names : holder[n] \in Ids /\ holder[n] # i => holder'[n] = holder[n]
    /\ admins \subseteq admins'
    /\ \A n \in Names : former[n] \subseteq former'[n]

LEMMA MarkedStands ==
    ASSUME TableOK, NEW i, TableStep(i), NEW k, NEW l, Marked(k, l, i),
           NEW n \in Names, NEW j \in {k.acts, k.back}, StandsFor(n, j, k)
    PROVE  StandsFor(n, j, l)'
BY DEF StandsFor, Marked, TableStep

LEMMA HeirStays ==
    ASSUME TableOK, NEW i, TableStep(i), NEW j, Heir(j) PROVE Heir(j)'
BY DEF Heir, TableStep

LEMMA MarkedJar ==
    ASSUME TableOK, NEW i, TableStep(i), NEW k, NEW l, JarOK(k), Marked(k, l, i)
    PROVE  JarOK(l)'
<1>1. Honest(l)'
  BY DEF JarOK, Honest, Marked, TableStep
<1>2. /\ l.user = k.user /\ l.acts = k.acts /\ l.impers = k.impers /\ l.back = k.back
      /\ k.acts \in Ids => k.user \in Names
      /\ k.back \in Ids => k.impers \in Names
  BY DEF JarOK, Honest, Marked
<1>3. StandsFor(l.user, l.acts, l)'
  <2>1. CASE k.acts \in Ids
    BY <1>2, <2>1, MarkedStands DEF JarOK
  <2>2. CASE k.acts \notin Ids
    BY <1>2, <2>2 DEF StandsFor
  <2> QED
    BY <2>1, <2>2
<1>4. StandsFor(l.impers, l.back, l)'
  <2>1. CASE k.back \in Ids
    BY <1>2, <2>1, MarkedStands DEF JarOK
  <2>2. CASE k.back \notin Ids
    BY <1>2, <2>2 DEF StandsFor
  <2> QED
    BY <2>1, <2>2
<1>5. l \in Cookie
  BY DEF Marked
<1> QED
  BY <1>1, <1>3, <1>4, <1>5 DEF JarOK

LEMMA MarkedRequest ==
    ASSUME TableOK, NEW i, TableStep(i), NEW e, NEW f \in Request, RequestOK(e),
           f.at = e.at, f.arg = e.arg, f.from = e.from, Marked(e.cookie, f.cookie, i)
    PROVE  RequestOK(f)'
<1>1. Honest(f.cookie)'
  BY DEF RequestOK, Honest, Marked, TableStep
<1>2. /\ f.cookie.user = e.cookie.user /\ f.cookie.acts = e.cookie.acts
      /\ f.cookie.impers = e.cookie.impers /\ f.cookie.back = e.cookie.back
      /\ e.cookie.acts \in Ids => e.cookie.user \in Names
      /\ e.cookie.back \in Ids => e.cookie.impers \in Names
  BY DEF RequestOK, Honest, Marked
<1>3. e.at # "removeAll" => StandsFor(NameNow(f), f.cookie.acts, f.cookie)'
  <2> SUFFICES ASSUME e.at # "removeAll" PROVE StandsFor(NameNow(f), f.cookie.acts, f.cookie)'
    OBVIOUS
  <2> PICK n : n = NameNow(e)
    OBVIOUS
  <2>1. NameNow(f) = n /\ NameNow(f)' = n
    BY <1>2 DEF NameNow
  <2>2. CASE e.cookie.acts \in Ids
    <3>1. n \in Names
      BY <1>2, <2>2 DEF NameNow, RequestOK
    <3>2. StandsFor(n, e.cookie.acts, e.cookie)
      BY DEF RequestOK
    <3>3. StandsFor(n, e.cookie.acts, f.cookie)'
      BY <3>1, <3>2, MarkedStands
    <3> QED
      BY <1>2, <2>1, <3>3
  <2>3. CASE e.cookie.acts \notin Ids
    BY <1>2, <2>3 DEF StandsFor
  <2> QED
    BY <2>2, <2>3
<1>4. StandsFor(f.cookie.impers, f.cookie.back, f.cookie)'
  <2>1. CASE e.cookie.back \in Ids
    BY <1>2, <2>1, MarkedStands DEF RequestOK
  <2>2. CASE e.cookie.back \notin Ids
    BY <1>2, <2>2 DEF StandsFor
  <2> QED
    BY <2>1, <2>2
<1>5. e.at = "hash" => e.arg \in Ids /\ e.cookie.user \in Names /\ KnewOne(f)'
  BY <1>2, HeirStays DEF RequestOK, KnewOne, TableStep
<1> QED
  BY <1>1, <1>2, <1>3, <1>4, <1>5 DEF RequestOK

\* With the table as it was, everything else is as good as before.
LEMMA SameTable ==
    ASSUME UNCHANGED <<holder, admins, former>>
    PROVE  /\ \A k : JarOK(k) => JarOK(k)'
           /\ \A e : RequestOK(e) => RequestOK(e)'
           /\ \A i : Heir(i)' = Heir(i)
<1>1. \A n, i, k : StandsFor(n, i, k)' = StandsFor(n, i, k)
  BY DEF StandsFor
<1>2. \A k : Honest(k)' = Honest(k)
  BY DEF Honest
<1>3. \A i : Heir(i)' = Heir(i)
  BY DEF Heir
<1>4. \A e : KnewOne(e)' = KnewOne(e)
  BY <1>3 DEF KnewOne
<1> QED
  BY <1>1, <1>2, <1>3, <1>4 DEF JarOK, RequestOK, NameNow

-------------------------------------------------------------------------------
\* The invariant holds at first.
LEMMA InitInv == Init => Inv
<1> SUFFICES ASSUME Init PROVE Inv
  OBVIOUS
<1>1. TableOK
  <2>1. holder \in [Names -> Ids \cup {None}] /\ former \in [Names -> SUBSET Ids]
        /\ password \in [Ids -> Ids] /\ email \in [Ids -> Names \cup {None}]
    BY DEF Init
  <2>2. \A n \in Names : holder[n] \in Ids => holder[n] \in former[n]
    BY DEF Init
  <2>3. PasswordIsTheOwners
    BY DEF Init, PasswordIsTheOwners
  <2> QED
    BY <2>1, <2>2, <2>3 DEF Init, TableOK
<1>2. ClientsOK
  BY NoCookieOK, NoCookieType DEF Init, ClientsOK
<1>3. RequestsOK
  BY IdleOK, IdleType DEF Init, RequestsOK
<1> QED
  BY <1>1, <1>2, <1>3 DEF Inv

\* What a request, or a client, is after a step, said of a value that does not change.
LEMMA RequestIs ==
    ASSUME NEW e, RequestOK(e)', NEW r, req'[r] = e PROVE RequestOK(req[r])'
BY DEF RequestOK, Honest, StandsFor, NameNow, KnewOne, Heir

LEMMA ClientIs ==
    ASSUME NEW k, JarOK(k)', NEW x, jar'[x] = k PROVE JarOK(jar[x])'
BY DEF JarOK, Honest, StandsFor

\* Steps that change one request, one client, or both, and not whom a name stands for.
LEMMA OneRequest ==
    ASSUME Inv, NEW r \in Requests, NEW e, RequestOK(e)',
           req' = [req EXCEPT ![r] = e], UNCHANGED <<holder, admins, former>>
    PROVE  RequestsOK'
<1>1. e \in Request
  BY DEF RequestOK
<1>2. req' \in [Requests -> Request]
  BY <1>1 DEF Inv, RequestsOK
<1>3. ASSUME NEW q \in Requests PROVE RequestOK(req[q])'
  <2> PICK f : f = req'[q]
    OBVIOUS
  <2>1. RequestOK(f)'
    <3>1. CASE q = r
      <4>1. f = e
        BY <3>1 DEF Inv, RequestsOK
      <4> QED
        BY <4>1
    <3>2. CASE q # r
      <4>1. f = req[q]
        BY <3>2 DEF Inv, RequestsOK
      <4> QED
        BY <4>1, SameTable DEF Inv, RequestsOK
    <3> QED
      BY <3>1, <3>2
  <2> QED
    BY <2>1, RequestIs
<1> QED
  BY <1>2, <1>3 DEF RequestsOK

LEMMA OneClient ==
    ASSUME Inv, NEW x \in Clients, NEW k, JarOK(k)',
           jar' = [jar EXCEPT ![x] = k], UNCHANGED <<holder, admins, former>>
    PROVE  ClientsOK'
<1>1. k \in Cookie
  BY DEF JarOK
<1>2. jar' \in [Clients -> Cookie]
  BY <1>1 DEF Inv, ClientsOK
<1>3. ASSUME NEW y \in Clients PROVE JarOK(jar[y])'
  <2> PICK l : l = jar'[y]
    OBVIOUS
  <2>1. JarOK(l)'
    <3>1. CASE y = x
      <4>1. l = k
        BY <3>1 DEF Inv, ClientsOK
      <4> QED
        BY <4>1
    <3>2. CASE y # x
      <4>1. l = jar[y]
        BY <3>2 DEF Inv, ClientsOK
      <4> QED
        BY <4>1, SameTable DEF Inv, ClientsOK
    <3> QED
      BY <3>1, <3>2
  <2> QED
    BY <2>1, ClientIs
<1> QED
  BY <1>2, <1>3 DEF ClientsOK

LEMMA SameClients ==
    ASSUME Inv, UNCHANGED <<holder, admins, former, jar>> PROVE ClientsOK'
BY SameTable DEF Inv, ClientsOK

LEMMA SameRequests ==
    ASSUME Inv, UNCHANGED <<holder, admins, former, req>> PROVE RequestsOK'
BY SameTable DEF Inv, RequestsOK

LEMMA TableUntouched == ASSUME Inv, UNCHANGED table PROVE TableOK'
<1>1. PasswordIsTheOwners'
  BY SameTable DEF Inv, TableOK, PasswordIsTheOwners, table
<1> QED
  BY <1>1 DEF Inv, TableOK, table

\* A request of a browser answers with a cookie.
LEMMA Answered ==
    ASSUME Inv, NEW r \in Requests, ~At(r, "idle"), NEW k, JarOK(k),
           req' = AnswerWith(r, k), UNCHANGED <<table, jar>>
    PROVE  Inv'
<1>1. req[r] \in Request /\ req[r] # Idle /\ req[r].from \in Browsers
  BY RequestFields, IdleType DEF Inv, RequestsOK, At
<1> PICK e : e = [at |-> "answer", from |-> req[r].from, cookie |-> k, arg |-> None]
  OBVIOUS
<1>2. req' = [req EXCEPT ![r] = e]
  <2> PICK f : f = req[r]
    OBVIOUS
  <2> PICK g : g = [f EXCEPT !.at = "answer", !.cookie = k, !.arg = None]
    OBVIOUS
  <2>2. g = e
    <3>1. /\ f \in [at : {"sent", "moveDir", "removeAll", "hash", "answer"}, from : Browsers,
                   cookie : Cookie, arg : Names \cup Ids \cup {None}]
          /\ k \in Cookie
      BY <1>1 DEF Request, JarOK
    <3>2. /\ g \in [at : {"sent", "moveDir", "removeAll", "hash", "answer"}, from : Browsers,
                   cookie : Cookie, arg : Names \cup Ids \cup {None}]
          /\ g.at = "answer" /\ g.from = f.from /\ g.cookie = k /\ g.arg = None
      BY <3>1
    <3>3. g = [at |-> g.at, from |-> g.from, cookie |-> g.cookie, arg |-> g.arg]
      BY <3>2
    <3> QED
      BY <3>2, <3>3
  <2>3. req' = [req EXCEPT ![r] = [req[r] EXCEPT !.at = "answer", !.cookie = k, !.arg = None]]
    BY <1>1 DEF AnswerWith, Inv, RequestsOK
  <2> QED
    BY <2>2, <2>3
<1>3. RequestOK(e)
  <2>1. e \in Request
    BY <1>1, RequestMade DEF JarOK
  <2> QED
    BY <1>1, <2>1 DEF JarOK, RequestOK, NameNow
<1>4. RequestOK(e)' /\ UNCHANGED <<holder, admins, former>>
  BY <1>3, SameTable DEF table
<1> QED
  BY <1>2, <1>4, OneRequest, SameClients, TableUntouched DEF Inv

-------------------------------------------------------------------------------
\* What loginHandler, logoutHandler and adminUserHandler make of a good cookie.
LoggedIn(k, n, adm, i, mix, a) ==
    [k EXCEPT !.user = n, !.admin = adm, !.acts = i, !.by = i, !.mixed = mix, !.astray = a]

LEMMA MixedCookie ==
    ASSUME NEW k \in Cookie, NEW mix \in BOOLEAN
    PROVE  [k EXCEPT !.mixed = mix] \in Cookie
BY DEF Cookie

LEMMA LoggedInOK ==
    ASSUME NEW k, JarOK(k), NEW n \in Names, NEW i \in Ids, holder[n] = i,
           NEW adm \in BOOLEAN, adm => i \in admins,
           NEW mix \in BOOLEAN, ~mix => k.impers = None
    PROVE  JarOK(LoggedIn(k, n, adm, i, mix, k.astray \ ({i} \ {k.back})))
<1> PICK a : a = k.astray \ ({i} \ {k.back})
  OBVIOUS
<1> PICK l : l = LoggedIn(k, n, adm, i, mix, a)
  OBVIOUS
<1>1. k \in Cookie /\ a \subseteq Ids
  BY DEF JarOK, Cookie
<1>2. /\ l \in Cookie
      /\ l.user = n /\ l.impers = k.impers /\ l.admin = adm
      /\ l.acts = i /\ l.back = k.back /\ l.by = i /\ l.mixed = mix /\ l.astray = a
  <2>1. l \in Cookie
    <3> PICK h : h = [k EXCEPT !.user = n, !.acts = i, !.by = i, !.astray = a, !.admin = adm]
      OBVIOUS
    <3>1. h \in Cookie
      BY <1>1 DEF Cookie
    <3> PICK j : j = [h EXCEPT !.mixed = mix]
      OBVIOUS
    <3>2. j \in Cookie
      BY <3>1, MixedCookie
    <3>3. l = j
      BY <1>1 DEF Cookie, LoggedIn
    <3> QED
      BY <3>2, <3>3
  <2>2. l.user = n /\ l.impers = k.impers /\ l.admin = adm /\ l.acts = i
    BY <1>1 DEF Cookie, LoggedIn
  <2>3. l.back = k.back /\ l.by = i /\ l.mixed = mix /\ l.astray = a
    BY <1>1 DEF Cookie, LoggedIn
  <2> QED
    BY <2>1, <2>2, <2>3
<1>3. Honest(l)
  BY <1>2 DEF JarOK, Honest
<1>4. StandsFor(l.user, l.acts, l)
  BY <1>2 DEF StandsFor
<1>5. StandsFor(l.impers, l.back, l)
  BY <1>1, <1>2 DEF StandsFor, JarOK
<1> QED
  BY <1>2, <1>3, <1>4, <1>5 DEF JarOK

LEMMA LoginCookie ==
    ASSUME TableOK, NEW k, JarOK(k), NEW n \in Names, holder[n] \in active
    PROVE  JarOK(LoggedIn(k, n, holder[n] \in admins, holder[n], k.impers # None,
                          k.astray \ ({holder[n]} \ {k.back})))
<1>1. holder[n] \in Ids
  BY DEF TableOK
<1> PICK adm \in BOOLEAN : adm <=> holder[n] \in admins
  OBVIOUS
<1> PICK mix \in BOOLEAN : mix <=> k.impers # None
  OBVIOUS
<1>2. JarOK(LoggedIn(k, n, adm, holder[n], mix, k.astray \ ({holder[n]} \ {k.back})))
  BY <1>1, LoggedInOK
<1>3. adm = (holder[n] \in admins)
  OBVIOUS
<1>4. mix = (k.impers # None)
  OBVIOUS
<1> QED
  BY <1>2, <1>3, <1>4

LEMMA LogoutCookie ==
    ASSUME NEW k \in Cookie, Honest(k), StandsFor(k.impers, k.back, k)
    PROVE  JarOK(LoggedOut(k))
<1>1. CASE k.impers = None
  BY <1>1, NoCookieOK DEF LoggedOut
<1>2. CASE k.impers # None
  <2> PICK a : a = k.astray \cap {k.back}
    OBVIOUS
  <2> PICK u, b : u = k.impers /\ b = k.back
    OBVIOUS
  <2> PICK l : l = [k EXCEPT !.user = u, !.impers = None, !.acts = b, !.back = None,
                    !.astray = a]
    OBVIOUS
  <2>1. a \subseteq Ids /\ u \in Names \cup {None} /\ b \in Ids \cup {None}
    BY DEF Cookie
  <2>2. /\ l \in Cookie
        /\ l.user = u /\ l.impers = None /\ l.admin = k.admin
        /\ l.acts = b /\ l.back = None /\ l.by = k.by /\ l.mixed = k.mixed /\ l.astray = a
    BY <2>1 DEF Cookie
  <2>3. Honest(l)
    BY <1>2, <2>2 DEF Honest
  <2>4. StandsFor(l.user, l.acts, l)
    BY <2>1, <2>2 DEF StandsFor
  <2>5. StandsFor(l.impers, l.back, l)
    BY <2>2 DEF StandsFor
  <2>6. JarOK(l)
    BY <2>2, <2>3, <2>4, <2>5 DEF JarOK
  <2>7. LoggedOut(k) = l
    BY <1>2 DEF LoggedOut
  <2> QED
    BY <2>6, <2>7
<1> QED
  BY <1>1, <1>2

LEMMA ImpersonateCookie ==
    ASSUME TableOK, NEW k, JarOK(k), NEW n \in Names, k.admin, k.impers = None
    PROVE  JarOK([k EXCEPT !.user = n, !.impers = k.user, !.acts = holder[n],
                  !.back = k.acts, !.astray = @ \cap {k.acts}])
<1> PICK i, u, b : i = holder[n] /\ u = k.user /\ b = k.acts
  OBVIOUS
<1> PICK a : a = k.astray \cap {b}
  OBVIOUS
<1> PICK l : l = [k EXCEPT !.user = n, !.impers = u, !.acts = i, !.back = b, !.astray = a]
  OBVIOUS
<1>1. /\ k \in Cookie /\ i \in Ids \cup {None} /\ a \subseteq Ids
      /\ u \in Names \cup {None} /\ b \in Ids \cup {None}
  BY DEF JarOK, TableOK, Cookie
<1>2. /\ l \in Cookie
      /\ l.user = n /\ l.impers = u /\ l.admin = k.admin
      /\ l.acts = i /\ l.back = b /\ l.by = k.by /\ l.mixed = k.mixed /\ l.astray = a
  BY <1>1 DEF Cookie
<1>3. Honest(l)
  BY <1>1, <1>2 DEF JarOK, Honest
<1>4. StandsFor(l.user, l.acts, l)
  BY <1>1, <1>2 DEF StandsFor
<1>5. StandsFor(l.impers, l.back, l)
  BY <1>1, <1>2 DEF StandsFor, JarOK
<1>6. JarOK(l)
  BY <1>2, <1>3, <1>4, <1>5 DEF JarOK
<1> QED
  BY <1>6

\* The cookie of a rename that went through.
LEMMA RenamedCookie ==
    ASSUME NEW k \in Cookie, Honest(k), NEW n \in Names,
           StandsFor(n, k.acts, k), StandsFor(k.impers, k.back, k)
    PROVE  JarOK([k EXCEPT !.user = n])
<1> PICK l : l = [k EXCEPT !.user = n]
  OBVIOUS
<1>1. /\ l \in Cookie
      /\ l.user = n /\ l.impers = k.impers /\ l.admin = k.admin
      /\ l.acts = k.acts /\ l.back = k.back /\ l.by = k.by /\ l.mixed = k.mixed
      /\ l.astray = k.astray
  BY DEF Cookie
<1>2. Honest(l)
  BY <1>1 DEF Honest
<1>3. StandsFor(l.user, l.acts, l) /\ StandsFor(l.impers, l.back, l)
  BY <1>1 DEF StandsFor
<1>4. JarOK(l)
  BY <1>1, <1>2, <1>3 DEF JarOK
<1> QED
  BY <1>4

-------------------------------------------------------------------------------
\* Each request that answers with a cookie.
LEMMA AtKnown ==
    ASSUME Inv, NEW r \in Requests, NEW step, At(r, step), step # "idle"
    PROVE  /\ ~At(r, "idle") /\ req[r].at = step /\ RequestOK(req[r])
           /\ req[r] \in Request /\ req[r] # Idle
           /\ req[r].cookie \in Cookie /\ req[r].from \in Browsers
<1>1. req[r].at = step /\ RequestOK(req[r]) /\ req[r] \in Request
  BY DEF Inv, RequestsOK, At
<1>2. req[r] # Idle
  BY <1>1, IdleType
<1> QED
  BY <1>1, <1>2, RequestFields DEF At

LEMMA SentCookie ==
    ASSUME Inv, NEW r \in Requests, At(r, "sent")
    PROVE  JarOK(req[r].cookie) /\ ~At(r, "idle")
BY AtKnown DEF RequestOK, JarOK, NameNow

LEMMA LoginKeeps ==
    ASSUME Inv, NEW r \in Requests, NEW n \in Names, NEW p \in Ids, Login(r, n, p)
    PROVE  Inv'
<1>1. At(r, "sent") /\ holder[n] \in active /\ UNCHANGED <<table, jar>>
  BY DEF Login, LoginOk
<1> PICK k : k = req[r].cookie
  OBVIOUS
<1> PICK l : l = LoggedIn(k, n, holder[n] \in admins, holder[n], k.impers # None,
                          k.astray \ ({holder[n]} \ {k.back}))
  OBVIOUS
<1>2. req' = AnswerWith(r, l)
  BY DEF Login, LoggedIn
<1>3. JarOK(k) /\ ~At(r, "idle")
  BY <1>1, SentCookie
<1>4. JarOK(l)
  BY <1>1, <1>3, LoginCookie DEF Inv
<1> QED
  BY <1>1, <1>2, <1>3, <1>4, Answered

LEMMA LogoutKeeps ==
    ASSUME Inv, NEW r \in Requests, Logout(r)
    PROVE  Inv'
<1> PICK k : k = req[r].cookie
  OBVIOUS
<1>1. JarOK(k) /\ ~At(r, "idle")
  BY SentCookie DEF Logout
<1>2. JarOK(LoggedOut(k))
  BY <1>1, LogoutCookie DEF JarOK
<1>3. req' = AnswerWith(r, LoggedOut(k)) /\ UNCHANGED <<table, jar>>
  BY DEF Logout
<1> QED
  BY <1>1, <1>2, <1>3, Answered

LEMMA ImpersonateKeeps ==
    ASSUME Inv, NEW r \in Requests, NEW n \in Names, Impersonate(r, n)
    PROVE  Inv'
<1> PICK k : k = req[r].cookie
  OBVIOUS
<1> PICK l : l = [k EXCEPT !.user = n, !.impers = k.user, !.acts = holder[n],
                  !.back = k.acts, !.astray = @ \cap {k.acts}]
  OBVIOUS
<1>1. /\ At(r, "sent") /\ k.admin /\ k.impers = None
      /\ req' = AnswerWith(r, l) /\ UNCHANGED <<table, jar>>
  BY DEF Impersonate
<1>2. JarOK(k) /\ ~At(r, "idle")
  BY <1>1, SentCookie
<1>3. JarOK(l)
  BY <1>1, <1>2, ImpersonateCookie DEF Inv
<1> QED
  BY <1>1, <1>2, <1>3, Answered

LEMMA RenameDoneKeeps ==
    ASSUME Inv, NEW r \in Requests, RenameDone(r)
    PROVE  Inv'
<1> PICK k, n : k = req[r].cookie /\ n = req[r].arg
  OBVIOUS
<1>1. /\ At(r, "moveDir") /\ req' = AnswerWith(r, [k EXCEPT !.user = n])
      /\ UNCHANGED <<table, jar>>
  BY DEF RenameDone
<1>2. ~At(r, "idle") /\ RequestOK(req[r]) /\ req[r].at = "moveDir" /\ k \in Cookie
  BY <1>1, AtKnown
<1>3. /\ Honest(k) /\ n \in Names
      /\ StandsFor(n, k.acts, k) /\ StandsFor(k.impers, k.back, k)
  BY <1>2 DEF RequestOK, NameNow
<1>4. JarOK([k EXCEPT !.user = n])
  BY <1>2, <1>3, RenamedCookie
<1> QED
  BY <1>1, <1>2, <1>4, Answered

LEMMA DeleteDoneKeeps ==
    ASSUME Inv, NEW r \in Requests, DeleteDone(r)
    PROVE  Inv'
<1> PICK k : k = req[r].cookie
  OBVIOUS
<1>1. At(r, "removeAll") /\ req' = AnswerWith(r, LoggedOut(k)) /\ UNCHANGED <<table, jar>>
  BY DEF DeleteDone
<1>2. ~At(r, "idle") /\ RequestOK(req[r]) /\ k \in Cookie
  BY <1>1, AtKnown
<1>3. JarOK(LoggedOut(k))
  BY <1>2, LogoutCookie DEF RequestOK
<1> QED
  BY <1>1, <1>2, <1>3, Answered

-------------------------------------------------------------------------------
\* Each request that does not, or not yet.
LEMMA SendKeeps ==
    ASSUME Inv, NEW r \in Requests, NEW b \in Browsers, Send(r, b)
    PROVE  Inv'
<1> PICK k : k = jar[b]
  OBVIOUS
<1> PICK e : e = [at |-> "sent", from |-> b, cookie |-> k, arg |-> None]
  OBVIOUS
<1>1. req' = [req EXCEPT ![r] = e] /\ UNCHANGED <<table, jar>>
  BY DEF Send
<1>2. JarOK(k)
  BY DEF Inv, ClientsOK, Clients
<1>3. e \in Request
  BY <1>2, RequestMade DEF JarOK
<1>4. RequestOK(e)
  BY <1>2, <1>3 DEF JarOK, RequestOK, NameNow
<1>5. UNCHANGED <<holder, admins, former>>
  BY <1>1 DEF table
<1>6. RequestOK(e)'
  BY <1>4, <1>5, SameTable
<1> QED
  BY <1>1, <1>5, <1>6, OneRequest, SameClients, TableUntouched DEF Inv

\* A request that ends: no cookie, and whom a name stands for is as it was.
LEMMA Ended ==
    ASSUME Inv, NEW r \in Requests, req' = End(r), UNCHANGED <<holder, admins, former>>
    PROVE  RequestsOK'
<1>1. RequestOK(Idle)'
  BY IdleOK, SameTable
<1> PICK e : e = Idle
  OBVIOUS
<1>2. req' = [req EXCEPT ![r] = e] /\ RequestOK(e)
  BY IdleOK DEF End
<1>3. RequestOK(e)'
  BY <1>2, SameTable
<1> QED
  BY <1>2, <1>3, OneRequest

LEMMA DropKeeps ==
    ASSUME Inv, NEW r \in Requests, Drop(r)
    PROVE  Inv'
<1>1. req' = End(r) /\ UNCHANGED <<table, jar>> /\ UNCHANGED <<holder, admins, former>>
  BY DEF Drop, table
<1> QED
  BY <1>1, Ended, SameClients, TableUntouched DEF Inv

LEMMA ArriveKeeps ==
    ASSUME Inv, NEW r \in Requests, Arrive(r)
    PROVE  Inv'
<1> PICK k, b : k = req[r].cookie /\ b = req[r].from
  OBVIOUS
<1>1. /\ At(r, "answer") /\ jar' = [jar EXCEPT ![b] = k] /\ req' = End(r)
      /\ UNCHANGED table /\ UNCHANGED <<holder, admins, former>>
  BY DEF Arrive, table
<1>2. b \in Clients /\ k \in Cookie /\ RequestOK(req[r]) /\ req[r].at = "answer"
  BY <1>1, AtKnown DEF Clients
<1>3. JarOK(k)
  BY <1>2 DEF RequestOK, JarOK, NameNow
<1>4. JarOK(k)'
  BY <1>1, <1>3, SameTable
<1>5. ClientsOK'
  BY <1>1, <1>2, <1>4, OneClient
<1> QED
  BY <1>1, <1>5, Ended, TableUntouched DEF Inv

LEMMA ActivateByAdminKeeps ==
    ASSUME Inv, NEW r \in Requests, NEW n \in Names, ActivateByAdmin(r, n)
    PROVE  Inv'
<1>1. /\ req' = End(r) /\ active' = active \cup {holder[n]} /\ holder[n] \in Ids
      /\ UNCHANGED <<holder, admins, email, issued, password, former, jar>>
      /\ UNCHANGED <<holder, admins, former>>
  BY DEF ActivateByAdmin
<1>2. PasswordIsTheOwners'
  BY <1>1, SameTable DEF Inv, TableOK, PasswordIsTheOwners
<1>3. TableOK'
  BY <1>1, <1>2 DEF Inv, TableOK
<1> QED
  BY <1>1, <1>3, Ended, SameClients DEF Inv

LEMMA ChangeEmailKeeps ==
    ASSUME Inv, NEW r \in Requests, NEW e \in Names \cup {None}, ChangeEmail(r, e)
    PROVE  Inv'
<1> PICK i : i = Bearer(req[r].cookie.user)
  OBVIOUS
<1>1. /\ req' = End(r) /\ email' = [email EXCEPT ![i] = e]
      /\ UNCHANGED <<holder, active, admins, issued, password, former, jar>>
      /\ UNCHANGED <<holder, admins, former>>
  BY DEF ChangeEmail
<1>2. PasswordIsTheOwners'
  BY <1>1, SameTable DEF Inv, TableOK, PasswordIsTheOwners
<1>3. TableOK'
  BY <1>1, <1>2 DEF Inv, TableOK
<1> QED
  BY <1>1, <1>3, Ended, SameClients DEF Inv

\* The step to the new hash: whoever asked knew the password of the name's account.
LEMMA ResetCheckKeeps ==
    ASSUME Inv, NEW r \in Requests, NEW p \in Ids, ResetCheck(r, p)
    PROVE  Inv'
<1> PICK f, k : f = req[r] /\ k = f.cookie
  OBVIOUS
<1>1. /\ At(r, "sent") /\ k.user # None /\ holder[k.user] # None
      /\ password[holder[k.user]] = p
      /\ UNCHANGED <<table, jar>> /\ UNCHANGED <<holder, admins, former>>
  BY DEF ResetCheck, table
<1>2. RequestOK(f) /\ f \in Request /\ f # Idle /\ k \in Cookie /\ f.from \in Browsers
      /\ f.at = "sent"
  BY <1>1, AtKnown
<1> PICK e : e = [at |-> "hash", from |-> f.from, cookie |-> k, arg |-> p]
  OBVIOUS
<1>3. req' = [req EXCEPT ![r] = e]
  <2> PICK g : g = [f EXCEPT !.at = "hash", !.arg = p]
    OBVIOUS
  <2>1. req' = [req EXCEPT ![r] = g]
    BY DEF ResetCheck, Inv, RequestsOK
  <2>2. f \in [at : {"sent", "moveDir", "removeAll", "hash", "answer"}, from : Browsers,
               cookie : Cookie, arg : Names \cup Ids \cup {None}]
    BY <1>2 DEF Request
  <2>3. /\ g \in [at : {"sent", "moveDir", "removeAll", "hash", "answer"}, from : Browsers,
                  cookie : Cookie, arg : Names \cup Ids \cup {None}]
        /\ g.at = "hash" /\ g.from = f.from /\ g.cookie = k /\ g.arg = p
    BY <2>2
  <2>4. g = [at |-> g.at, from |-> g.from, cookie |-> g.cookie, arg |-> g.arg]
    BY <2>3
  <2> QED
    BY <2>1, <2>3, <2>4
<1>4. k.user \in Names
  BY <1>1, <1>2 DEF Cookie
<1>5. KnewOne(e)
  <2> PICK i : i = holder[k.user]
    OBVIOUS
  <2>1. i \in Ids /\ i \in former[k.user] /\ (password[i] = i \/ Heir(i))
    BY <1>1, <1>4 DEF Inv, TableOK, PasswordIsTheOwners
  <2> QED
    BY <1>1, <2>1 DEF KnewOne
<1>6. e \in Request
  BY <1>2, RequestMade
<1>7. RequestOK(e)
  BY <1>2, <1>4, <1>5, <1>6 DEF RequestOK, NameNow
<1>8. RequestOK(e)'
  BY <1>1, <1>7, SameTable
<1> QED
  BY <1>1, <1>3, <1>8, OneRequest, SameClients, TableUntouched DEF Inv

\* The new hash: of the account that was asked about, or of an heir to the name.
LEMMA ResetUpdateKeeps ==
    ASSUME Inv, NEW r \in Requests, ResetUpdate(r)
    PROVE  Inv'
<1> PICK f, i : f = req[r] /\ i = holder[f.cookie.user]
  OBVIOUS
<1>1. /\ At(r, "hash") /\ password' = [j \in Ids |-> IF j = i THEN f.arg ELSE password[j]]
      /\ req' = End(r) /\ UNCHANGED <<holder, active, admins, email, issued, former, jar>>
      /\ UNCHANGED <<holder, admins, former>>
  BY DEF ResetUpdate
<1>2. RequestOK(f) /\ f.at = "hash"
  BY <1>1, AtKnown
<1>3. f.arg \in Ids /\ f.cookie.user \in Names /\ KnewOne(f)
  BY <1>2 DEF RequestOK
<1>4. password' \in [Ids -> Ids]
  BY <1>1, <1>3 DEF Inv, TableOK
<1>5. i \in Ids => f.arg = i \/ Heir(i)
  <2> SUFFICES ASSUME i \in Ids PROVE f.arg = i \/ Heir(i)
    OBVIOUS
  <2>1. i \in former[f.cookie.user]
    BY <1>3 DEF Inv, TableOK
  <2>2. PICK j \in Ids : j \in former[f.cookie.user] /\ (f.arg = j \/ Heir(j))
    BY <1>3 DEF KnewOne
  <2>3. CASE i = j
    BY <2>2, <2>3
  <2>4. CASE i # j
    <3>1. former[f.cookie.user] # {i}
      BY <2>2, <2>4
    <3> QED
      BY <1>3, <2>1, <3>1 DEF Heir
  <2> QED
    BY <2>3, <2>4
<1>6. PasswordIsTheOwners'
  <2> SUFFICES ASSUME NEW j \in Ids PROVE password'[j] = j \/ Heir(j)'
    BY DEF PasswordIsTheOwners
  <2>1. Heir(j)' = Heir(j)
    BY <1>1, SameTable
  <2>2. password[j] = j \/ Heir(j)
    BY DEF Inv, TableOK, PasswordIsTheOwners
  <2> QED
    BY <1>1, <1>5, <2>1, <2>2
<1>7. TableOK'
  BY <1>1, <1>4, <1>6 DEF Inv, TableOK
<1> QED
  BY <1>1, <1>7, Ended, SameClients DEF Inv

\* An SFTP connection opens, or closes.
LEMMA ConnectKeeps ==
    ASSUME Inv, NEW s \in Connections, NEW n \in Names, NEW i \in Ids, NEW p \in Ids,
           Connect(s, n, i, p)
    PROVE  Inv'
<1> PICK d, a : d = NoCookie /\ a = {i} \ {holder[n]}
  OBVIOUS
<1> PICK l : l = [d EXCEPT !.user = n, !.acts = i, !.by = i, !.astray = a]
  OBVIOUS
<1>1. /\ jar' = [jar EXCEPT ![s] = l] /\ UNCHANGED <<table, req>>
      /\ UNCHANGED <<holder, admins, former>>
  BY DEF Connect, table
<1>2. a \subseteq Ids /\ d \in Cookie
  BY NoCookieType
<1>3. /\ l \in Cookie /\ l.user = n /\ l.acts = i /\ l.by = i /\ l.impers = None
      /\ ~l.admin /\ l.back = None /\ l.astray = a
  <2>1. d.impers = None /\ ~d.admin /\ d.back = None
    BY NoCookieType
  <2>2. /\ l \in Cookie /\ l.user = n /\ l.acts = i /\ l.by = i /\ l.impers = d.impers
        /\ l.admin = d.admin /\ l.back = d.back /\ l.astray = a
    BY <1>2 DEF Cookie
  <2> QED
    BY <2>1, <2>2
<1>4. JarOK(l)
  <2>1. StandsFor(n, i, l)
    BY <1>3 DEF StandsFor
  <2> QED
    BY <1>3, <2>1 DEF JarOK, Honest, StandsFor
<1>5. JarOK(l)'
  BY <1>1, <1>4, SameTable
<1> QED
  BY <1>1, <1>5, OneClient, SameRequests, TableUntouched DEF Inv, Clients

LEMMA DisconnectKeeps ==
    ASSUME Inv, NEW s \in Connections, Disconnect(s)
    PROVE  Inv'
<1> PICK d : d = NoCookie
  OBVIOUS
<1>1. /\ jar' = [jar EXCEPT ![s] = d] /\ UNCHANGED <<table, req>>
      /\ UNCHANGED <<holder, admins, former>>
  BY DEF Disconnect, table
<1>2. JarOK(d)'
  BY <1>1, NoCookieOK, SameTable
<1> QED
  BY <1>1, <1>2, OneClient, SameRequests, TableUntouched DEF Inv, Clients

-------------------------------------------------------------------------------
\* What changes the table, and marks the cookies it leaves behind.
LEMMA ClientsMarked ==
    ASSUME Inv, NEW i, TableStep(i), MarkJars(i)
    PROVE  ClientsOK'
<1>1. ASSUME NEW x \in Clients
      PROVE  jar'[x] \in Cookie /\ JarOK(jar[x])'
  <2> PICK k, l : k = jar[x] /\ l = jar'[x]
    OBVIOUS
  <2>1. l = Mark(k, i)
    BY DEF MarkJars
  <2>2. k \in Cookie /\ JarOK(k)
    BY DEF Inv, ClientsOK
  <2>3. Marked(k, l, i)
    BY <2>1, <2>2, MarkIsMarked
  <2>4. JarOK(l)'
    BY <2>2, <2>3, MarkedJar DEF Inv
  <2> QED
    BY <2>3, <2>4, ClientIs DEF Marked
<1>2. jar' \in [Clients -> Cookie]
  BY <1>1 DEF MarkJars
<1> QED
  BY <1>1, <1>2 DEF ClientsOK

LEMMA ClientsUnmarked ==
    ASSUME Inv, TableStep(None), UNCHANGED jar
    PROVE  ClientsOK'
<1>1. ASSUME NEW x \in Clients PROVE JarOK(jar[x])'
  <2> PICK k : k = jar[x]
    OBVIOUS
  <2>1. k \in Cookie /\ JarOK(k)
    BY DEF Inv, ClientsOK
  <2>2. Marked(k, k, None)
    BY <2>1, SameIsMarked
  <2>3. JarOK(k)'
    BY <2>1, <2>2, MarkedJar DEF Inv
  <2> QED
    BY <2>3, ClientIs
<1> QED
  BY <1>1 DEF Inv, ClientsOK

LEMMA RequestMarked ==
    ASSUME Inv, NEW i, TableStep(i), NEW q \in Requests,
           req'[q] = [req[q] EXCEPT !.cookie = Mark(@, i)]
    PROVE  req'[q] \in Request /\ RequestOK(req[q])'
<1> PICK e, k : e = req[q] /\ k = e.cookie
  OBVIOUS
<1> PICK l : l = Mark(k, i)
  OBVIOUS
<1> PICK f : f = [e EXCEPT !.cookie = l]
  OBVIOUS
<1>1. e \in Request /\ RequestOK(e) /\ k \in Cookie
  BY RequestFields DEF Inv, RequestsOK
<1>2. Marked(k, l, i)
  BY <1>1, MarkIsMarked
<1>3. l \in Cookie
  BY <1>2 DEF Marked
<1>4. f \in Request /\ f.at = e.at /\ f.arg = e.arg /\ f.from = e.from /\ f.cookie = l
  <2>1. CASE e = Idle
    <3>1. k = NoCookie
      BY <2>1, IdleType
    <3>2. l = k
      <4> PICK a : a = k.astray \cup ({i} \cap {k.acts, k.back} \cap Ids)
        OBVIOUS
      <4>1. a = k.astray
        BY <3>1, NoCookieType
      <4>2. l = [k EXCEPT !.astray = a]
        BY DEF Mark
      <4>3. [k EXCEPT !.astray = k.astray] = k
        BY <1>1 DEF Cookie
      <4> QED
        BY <4>1, <4>2, <4>3
    <3>3. e = [at |-> e.at, from |-> e.from, cookie |-> e.cookie, arg |-> e.arg]
      BY <1>1, RequestFields
    <3>4. [e EXCEPT !.cookie = e.cookie] = e
      BY <3>3
    <3> QED
      BY <1>1, <3>2, <3>4
  <2>2. CASE e # Idle
    <3>1. e \in [at : {"sent", "moveDir", "removeAll", "hash", "answer"}, from : Browsers,
                 cookie : Cookie, arg : Names \cup Ids \cup {None}]
      BY <1>1, <2>2 DEF Request
    <3>2. f \in [at : {"sent", "moveDir", "removeAll", "hash", "answer"}, from : Browsers,
                 cookie : Cookie, arg : Names \cup Ids \cup {None}]
          /\ f.at = e.at /\ f.arg = e.arg /\ f.from = e.from /\ f.cookie = l
      BY <1>3, <3>1
    <3> QED
      BY <3>2 DEF Request
  <2> QED
    BY <2>1, <2>2
<1>5. RequestOK(f)'
  <2>1. f.cookie = l /\ e.cookie = k
    BY <1>4
  <2>2. Marked(e.cookie, f.cookie, i)
    BY <1>2, <2>1
  <2>3. TableOK /\ f \in Request /\ RequestOK(e)
    BY <1>1, <1>4 DEF Inv
  <2>4. f.at = e.at /\ f.arg = e.arg /\ f.from = e.from
    BY <1>4
  <2> QED
    BY <2>2, <2>3, <2>4, MarkedRequest
<1>6. req'[q] = f
  OBVIOUS
<1> QED
  BY <1>4, <1>5, <1>6, RequestIs

LEMMA RequestsMarked ==
    ASSUME Inv, NEW i, TableStep(i), req' = MarkRequests(Requests, i)
    PROVE  RequestsOK'
<1>1. ASSUME NEW q \in Requests PROVE req'[q] = [req[q] EXCEPT !.cookie = Mark(@, i)]
  BY DEF MarkRequests
<1>2. ASSUME NEW q \in Requests PROVE req'[q] \in Request /\ RequestOK(req[q])'
  BY <1>1, RequestMarked
<1>3. req' \in [Requests -> Request]
  BY <1>2 DEF MarkRequests
<1> QED
  BY <1>2, <1>3 DEF RequestsOK

LEMMA RequestsUnmarked ==
    ASSUME Inv, TableStep(None), UNCHANGED req
    PROVE  RequestsOK'
<1>1. ASSUME NEW q \in Requests PROVE RequestOK(req[q])'
  <2> PICK e : e = req[q]
    OBVIOUS
  <2>1. e \in Request /\ RequestOK(e) /\ e.cookie \in Cookie
    BY RequestFields DEF Inv, RequestsOK
  <2>2. Marked(e.cookie, e.cookie, None)
    BY <2>1, SameIsMarked
  <2>3. RequestOK(e)'
    BY <2>1, <2>2, MarkedRequest DEF Inv
  <2> QED
    BY <2>3, RequestIs
<1> QED
  BY <1>1 DEF Inv, RequestsOK

\* The statements of register, rename and delete.
LEMMA CreateTable ==
    ASSUME Inv, NEW n \in Names, NEW i \in Ids, NEW e \in Names \cup {None},
           Create(n, i, e), UNCHANGED <<active, admins, password>>
    PROVE  TableStep(None) /\ TableOK'
<1>1. /\ holder[n] = None /\ holder' = [holder EXCEPT ![n] = i]
      /\ former' = [former EXCEPT ![n] = @ \cup {i}] /\ issued' = issued \cup {i}
      /\ email' = [email EXCEPT ![i] = e]
  BY DEF Create
<1>2. TableStep(None)
  BY <1>1 DEF TableStep, Inv, TableOK
<1>3. PasswordIsTheOwners'
  BY <1>2, HeirStays DEF Inv, TableOK, PasswordIsTheOwners
<1>4. \A m \in Names : holder'[m] \in Ids => holder'[m] \in former'[m]
  BY <1>1 DEF Inv, TableOK
<1> QED
  BY <1>1, <1>2, <1>3, <1>4 DEF Inv, TableOK

LEMMA RenameTable ==
    ASSUME Inv, NEW o \in Names, NEW n \in Names, Rename(o, n)
    PROVE  /\ TableStep(holder[o]) /\ TableOK'
           /\ holder[o] \in Ids /\ holder'[n] = holder[o]
<1> PICK i : i = holder[o]
  OBVIOUS
<1>1. /\ o # n /\ i \in Ids /\ holder[n] = None
      /\ holder' = [holder EXCEPT ![n] = i, ![o] = None]
      /\ former' = [former EXCEPT ![n] = @ \cup {i}]
      /\ UNCHANGED <<active, admins, email, issued, password>>
  BY DEF Rename, Inv, TableOK
<1>2. TableStep(i)
  BY <1>1 DEF TableStep, Inv, TableOK
<1>3. PasswordIsTheOwners'
  BY <1>1, <1>2, HeirStays DEF Inv, TableOK, PasswordIsTheOwners
<1>4. /\ \A m \in Names : holder'[m] \in Ids => holder'[m] \in former'[m]
      /\ holder' \in [Names -> Ids \cup {None}] /\ former' \in [Names -> SUBSET Ids]
      /\ holder'[n] = i
  BY <1>1 DEF Inv, TableOK
<1> QED
  BY <1>1, <1>2, <1>3, <1>4 DEF Inv, TableOK

LEMMA RemoveTable ==
    ASSUME Inv, NEW n \in Names \cup {None}, Remove(n)
    PROVE  TableStep(Bearer(n)) /\ TableOK'
<1> PICK i : i = Bearer(n)
  OBVIOUS
<1>1. /\ holder' = [m \in Names |-> IF m = n THEN None ELSE holder[m]]
      /\ email' = [j \in Ids |-> IF j = i THEN None ELSE email[j]]
      /\ UNCHANGED <<active, admins, issued, password, former>>
  BY DEF Remove
<1>2. TableStep(i)
  BY <1>1 DEF TableStep, Bearer, Inv, TableOK
<1>3. PasswordIsTheOwners'
  BY <1>1, <1>2, HeirStays DEF Inv, TableOK, PasswordIsTheOwners
<1>4. /\ holder' \in [Names -> Ids \cup {None}] /\ email' \in [Ids -> Names \cup {None}]
      /\ \A m \in Names : holder'[m] \in Ids => holder'[m] \in former'[m]
  BY <1>1 DEF Inv, TableOK
<1> QED
  BY <1>1, <1>2, <1>3, <1>4 DEF Inv, TableOK

\* A step without a session, one by one.
LEMMA CommandKeeps == ASSUME Inv, Command PROVE Inv'
<1> PICK n \in Names :
        \/ \E i \in Ids, e \in Names \cup {None} : Register(n, i, e)
        \/ \E o \in Names : CommandRename(o, n)
        \/ Activate(n) \/ MakeAdmin(n) \/ SetPassword(n) \/ CommandDelete(n)
  BY DEF Command
<1>1. CASE \E i \in Ids, e \in Names \cup {None} : Register(n, i, e)
  <2> PICK i \in Ids, e \in Names \cup {None} : Register(n, i, e)
    BY <1>1
  <2>1. TableStep(None) /\ TableOK'
    BY CreateTable DEF Register
  <2> QED
    BY <2>1, ClientsUnmarked, RequestsUnmarked DEF Inv, Register
<1>2. CASE \E o \in Names : CommandRename(o, n)
  <2> PICK o \in Names : CommandRename(o, n)
    BY <1>2
  <2> PICK i : i = holder[o]
    OBVIOUS
  <2>1. Rename(o, n) /\ MarkJars(i) /\ req' = MarkRequests(Requests, i)
    BY DEF CommandRename
  <2>2. TableStep(i) /\ TableOK'
    BY <2>1, RenameTable
  <2> QED
    BY <2>1, <2>2, ClientsMarked, RequestsMarked DEF Inv
<1>3. CASE CommandDelete(n)
  <2> PICK i : i = holder[n]
    OBVIOUS
  <2>1. Remove(n) /\ MarkJars(i) /\ req' = MarkRequests(Requests, i)
    BY <1>3 DEF CommandDelete
  <2>2. TableStep(i) /\ TableOK'
    BY <2>1, RemoveTable DEF Bearer
  <2> QED
    BY <2>1, <2>2, ClientsMarked, RequestsMarked DEF Inv
<1>4. CASE Activate(n)
  <2>1. TableStep(None)
    BY <1>4 DEF Activate, TableStep
  <2>2. PasswordIsTheOwners'
    BY <1>4, <2>1, HeirStays DEF Activate, Inv, TableOK, PasswordIsTheOwners
  <2>3. TableOK'
    BY <1>4, <2>2 DEF Activate, Inv, TableOK
  <2> QED
    BY <1>4, <2>1, <2>3, ClientsUnmarked, RequestsUnmarked DEF Inv, Activate
<1>5. CASE MakeAdmin(n)
  <2>1. TableStep(None)
    BY <1>5 DEF MakeAdmin, TableStep
  <2>2. PasswordIsTheOwners'
    BY <1>5, <2>1, HeirStays DEF MakeAdmin, Inv, TableOK, PasswordIsTheOwners
  <2>3. TableOK'
    BY <1>5, <2>2 DEF MakeAdmin, Inv, TableOK
  <2> QED
    BY <1>5, <2>1, <2>3, ClientsUnmarked, RequestsUnmarked DEF Inv, MakeAdmin
<1>6. CASE SetPassword(n)
  <2>1. TableStep(None)
    BY <1>6 DEF SetPassword, TableStep
  <2>2. PasswordIsTheOwners'
    BY <1>6, <2>1, HeirStays DEF SetPassword, Inv, TableOK, PasswordIsTheOwners
  <2>3. TableOK'
    BY <1>6, <2>2 DEF SetPassword, Inv, TableOK
  <2> QED
    BY <1>6, <2>1, <2>3, ClientsUnmarked, RequestsUnmarked DEF Inv, SetPassword
<1> QED
  BY <1>1, <1>2, <1>3, <1>4, <1>5, <1>6

-------------------------------------------------------------------------------
\* A rename or a deletion by a session: all cookies are marked but its own.
LEMMA AllButOne ==
    ASSUME Inv, NEW i, TableStep(i), TableOK', MarkJars(i), NEW r \in Requests,
           NEW e, RequestOK(e)', NEW m, m = MarkRequests(Requests \ {r}, i),
           req' = [m EXCEPT ![r] = e]
    PROVE  Inv'
<1>1. e \in Request
  BY DEF RequestOK
<1>2. ASSUME NEW q \in Requests PROVE req'[q] \in Request /\ RequestOK(req[q])'
  <2>1. CASE q = r
    <3>1. req'[q] = e
      BY <2>1 DEF MarkRequests
    <3> QED
      BY <1>1, <3>1, RequestIs
  <2>2. CASE q # r
    <3>1. req'[q] = [req[q] EXCEPT !.cookie = Mark(@, i)]
      BY <2>2 DEF MarkRequests
    <3> QED
      BY <3>1, RequestMarked
  <2> QED
    BY <2>1, <2>2
<1>3. req' \in [Requests -> Request]
  BY <1>2 DEF MarkRequests
<1>4. RequestsOK'
  BY <1>2, <1>3 DEF RequestsOK
<1> QED
  BY <1>4, ClientsMarked DEF Inv

LEMMA RenameRowKeeps ==
    ASSUME Inv, NEW r \in Requests, NEW n \in Names, RenameRow(r, n)
    PROVE  Inv'
<1> PICK f, k : f = req[r] /\ k = f.cookie
  OBVIOUS
<1> PICK i, m : i = holder[k.user] /\ m = MarkRequests(Requests \ {r}, i)
  OBVIOUS
<1> PICK a : a = k.astray \cup ({k.back} \cap {i})
  OBVIOUS
<1> PICK l : l = [k EXCEPT !.astray = a]
  OBVIOUS
<1> PICK e : e = [at |-> "moveDir", from |-> f.from, cookie |-> l, arg |-> n]
  OBVIOUS
<1>1. /\ At(r, "sent") /\ k.user # None /\ Rename(k.user, n) /\ MarkJars(i)
      /\ req' = [m EXCEPT ![r] = [f EXCEPT !.at = "moveDir", !.arg = n,
                                           !.cookie.astray = @ \cup ({k.back} \cap {i})]]
  BY DEF RenameRow
<1>2. /\ RequestOK(f) /\ f.at = "sent" /\ f \in Request /\ f # Idle /\ k \in Cookie
      /\ f.from \in Browsers
  BY <1>1, AtKnown
<1>3. k.user \in Names
  BY <1>1, <1>2 DEF Cookie
<1>4. /\ TableStep(i) /\ TableOK' /\ i \in Ids /\ holder'[n] = i
  BY <1>1, <1>3, RenameTable
<1>5. a \subseteq Ids
  BY <1>2, <1>4 DEF Cookie
<1>6. /\ l \in Cookie
      /\ l.user = k.user /\ l.impers = k.impers /\ l.admin = k.admin
      /\ l.acts = k.acts /\ l.back = k.back /\ l.by = k.by /\ l.mixed = k.mixed
      /\ l.astray = a
  BY <1>2, <1>5 DEF Cookie
<1>7. req' = [m EXCEPT ![r] = e]
  <2> PICK g : g = [f EXCEPT !.at = "moveDir", !.arg = n, !.cookie = l]
    OBVIOUS
  <2>2. req' = [m EXCEPT ![r] = g]
    <3>1. g = [f EXCEPT !.at = "moveDir", !.arg = n,
                        !.cookie.astray = @ \cup ({k.back} \cap {i})]
      OBVIOUS
    <3> QED
      BY <1>1, <3>1
  <2>3. f \in [at : {"sent", "moveDir", "removeAll", "hash", "answer"}, from : Browsers,
               cookie : Cookie, arg : Names \cup Ids \cup {None}]
    BY <1>2 DEF Request
  <2>4. /\ g \in [at : {"sent", "moveDir", "removeAll", "hash", "answer"}, from : Browsers,
                  cookie : Cookie, arg : Names \cup Ids \cup {None}]
        /\ g.at = "moveDir" /\ g.from = f.from /\ g.cookie = l /\ g.arg = n
    BY <1>6, <2>3
  <2>5. g = [at |-> g.at, from |-> g.from, cookie |-> g.cookie, arg |-> g.arg]
    BY <2>4
  <2>6. g = e
    BY <2>4, <2>5
  <2> QED
    BY <2>2, <2>6
<1>8. RequestOK(e)'
  <2>1. e \in Request
    BY <1>2, <1>6, RequestMade
  <2>2. Honest(l)'
    BY <1>2, <1>4, <1>6 DEF RequestOK, Honest, TableStep
  <2>3. StandsFor(n, l.acts, l)'
    BY <1>2, <1>3, <1>4, <1>6 DEF RequestOK, NameNow, StandsFor
  <2>4. StandsFor(l.impers, l.back, l)'
    <3>1. k.back \in Ids => k.impers \in Names
      BY <1>2 DEF RequestOK, Honest
    <3>2. StandsFor(k.impers, k.back, k)
      BY <1>2 DEF RequestOK
    <3> SUFFICES ASSUME l.back \in Ids, l.back \notin l.astray PROVE holder'[l.impers] = l.back
      BY DEF StandsFor
    <3>3. k.back \in Ids /\ k.back \notin k.astray /\ k.back # i
      BY <1>6
    <3>4. k.impers \in Names /\ holder[k.impers] = k.back
      BY <3>1, <3>2, <3>3 DEF StandsFor
    <3>5. holder'[k.impers] = k.back
      BY <1>4, <3>3, <3>4 DEF TableStep
    <3> QED
      BY <1>6, <3>5
  <2> QED
    BY <1>2, <2>1, <2>2, <2>3, <2>4 DEF RequestOK, NameNow
<1>9. MarkJars(i)
  BY <1>1
<1> QED
  BY <1>4, <1>7, <1>8, <1>9, AllButOne

LEMMA DeleteRowKeeps ==
    ASSUME Inv, NEW r \in Requests, DeleteRow(r)
    PROVE  Inv'
<1> PICK f, k : f = req[r] /\ k = f.cookie
  OBVIOUS
<1> PICK i, m : i = Bearer(k.user) /\ m = MarkRequests(Requests \ {r}, i)
  OBVIOUS
<1> PICK a : a = k.astray \cup ({k.back} \cap {i} \cap Ids)
  OBVIOUS
<1> PICK l : l = [k EXCEPT !.astray = a]
  OBVIOUS
<1>1. /\ At(r, "sent") /\ Remove(k.user) /\ MarkJars(i)
      /\ req' = [m EXCEPT ![r] = [f EXCEPT !.at = "removeAll",
                                    !.cookie.astray = @ \cup ({k.back} \cap {i} \cap Ids)]]
  BY DEF DeleteRow
<1>2. /\ RequestOK(f) /\ f.at = "sent" /\ f \in Request /\ f # Idle /\ k \in Cookie
      /\ f.from \in Browsers
  BY <1>1, AtKnown
<1> PICK b : b = f.arg
  OBVIOUS
<1> PICK e : e = [at |-> "removeAll", from |-> f.from, cookie |-> l, arg |-> b]
  OBVIOUS
<1>3. k.user \in Names \cup {None}
  BY <1>1, <1>2 DEF Cookie
<1>4. TableStep(i) /\ TableOK'
  BY <1>1, <1>3, RemoveTable
<1>5. a \subseteq Ids
  BY <1>2 DEF Cookie
<1>6. /\ l \in Cookie
      /\ l.user = k.user /\ l.impers = k.impers /\ l.admin = k.admin
      /\ l.acts = k.acts /\ l.back = k.back /\ l.by = k.by /\ l.mixed = k.mixed
      /\ l.astray = a
  BY <1>2, <1>5 DEF Cookie
<1>7. req' = [m EXCEPT ![r] = e]
  <2> PICK g : g = [f EXCEPT !.at = "removeAll", !.cookie = l]
    OBVIOUS
  <2>2. req' = [m EXCEPT ![r] = g]
    <3>1. g = [f EXCEPT !.at = "removeAll",
                        !.cookie.astray = @ \cup ({k.back} \cap {i} \cap Ids)]
      OBVIOUS
    <3> QED
      BY <1>1, <3>1
  <2>3. f \in [at : {"sent", "moveDir", "removeAll", "hash", "answer"}, from : Browsers,
               cookie : Cookie, arg : Names \cup Ids \cup {None}]
    BY <1>2 DEF Request
  <2>4. /\ g \in [at : {"sent", "moveDir", "removeAll", "hash", "answer"}, from : Browsers,
                  cookie : Cookie, arg : Names \cup Ids \cup {None}]
        /\ g.at = "removeAll" /\ g.from = f.from /\ g.cookie = l /\ g.arg = b
    BY <1>6, <2>3
  <2>5. g = [at |-> g.at, from |-> g.from, cookie |-> g.cookie, arg |-> g.arg]
    BY <2>4
  <2>6. g = e
    BY <2>4, <2>5
  <2> QED
    BY <2>2, <2>6
<1>8. RequestOK(e)'
  <2>1. b \in Names \cup Ids \cup {None}
    BY <1>2, RequestFields
  <2>2. e \in Request
    BY <1>2, <1>6, <2>1, RequestMade
  <2>3. Honest(l)'
    BY <1>2, <1>4, <1>6 DEF RequestOK, Honest, TableStep
  <2>4. StandsFor(l.impers, l.back, l)'
    <3>1. k.back \in Ids => k.impers \in Names
      BY <1>2 DEF RequestOK, Honest
    <3>2. StandsFor(k.impers, k.back, k)
      BY <1>2 DEF RequestOK
    <3> SUFFICES ASSUME l.back \in Ids, l.back \notin l.astray PROVE holder'[l.impers] = l.back
      BY DEF StandsFor
    <3>3. k.back \in Ids /\ k.back \notin k.astray /\ k.back # i
      BY <1>6
    <3>4. k.impers \in Names /\ holder[k.impers] = k.back
      BY <3>1, <3>2, <3>3 DEF StandsFor
    <3>5. holder'[k.impers] = k.back
      BY <1>4, <3>3, <3>4 DEF TableStep
    <3> QED
      BY <1>6, <3>5
  <2> QED
    BY <1>2, <2>2, <2>3, <2>4 DEF RequestOK
<1>9. MarkJars(i)
  BY <1>1
<1> QED
  BY <1>4, <1>7, <1>8, <1>9, AllButOne

-------------------------------------------------------------------------------
LEMMA SamePlace == ASSUME Inv, UNCHANGED vars PROVE Inv'
<1>1. UNCHANGED table /\ UNCHANGED jar /\ UNCHANGED req /\ UNCHANGED <<holder, admins, former>>
  BY DEF vars, table
<1> QED
  BY <1>1, TableUntouched, SameClients, SameRequests DEF Inv

LEMMA NextInv == ASSUME Inv, [Next]_vars PROVE Inv'
<1>1. CASE Command
  BY <1>1, CommandKeeps
<1>2. CASE \E r \in Requests, b \in Browsers : Send(r, b)
  BY <1>2, SendKeeps
<1>3. CASE \E s \in Connections, n \in Names, i, p \in Ids : Connect(s, n, i, p)
  BY <1>3, ConnectKeeps
<1>4. CASE \E r \in Requests : Handle(r)
  <2> PICK r \in Requests : Handle(r)
    BY <1>4
  <2>1. CASE \E n \in Names : \/ \E p \in Ids : Login(r, n, p)
                              \/ Impersonate(r, n) \/ ActivateByAdmin(r, n) \/ RenameRow(r, n)
    BY <2>1, LoginKeeps, ImpersonateKeeps, ActivateByAdminKeeps, RenameRowKeeps
  <2>2. CASE \/ \E p \in Ids : ResetCheck(r, p)
             \/ \E e \in Names \cup {None} : ChangeEmail(r, e)
    BY <2>2, ResetCheckKeeps, ChangeEmailKeeps
  <2>3. CASE Logout(r) \/ RenameDone(r) \/ DeleteRow(r) \/ DeleteDone(r) \/ ResetUpdate(r)
    BY <2>3, LogoutKeeps, RenameDoneKeeps, DeleteRowKeeps, DeleteDoneKeeps, ResetUpdateKeeps
  <2> QED
    BY <2>1, <2>2, <2>3 DEF Handle
<1>5. CASE \E r \in Requests : Arrive(r) \/ Drop(r)
  BY <1>5, ArriveKeeps, DropKeeps
<1>6. CASE \E s \in Connections : Disconnect(s)
  BY <1>6, DisconnectKeeps
<1>7. CASE UNCHANGED vars
  BY <1>7, SamePlace
<1> QED
  BY <1>1, <1>2, <1>3, <1>4, <1>5, <1>6, <1>7 DEF Next

\* The invariant: table, cookies and requests under way fit together at every moment
\* (loginHandler, logoutHandler, adminUserHandler, myAccountHandler, deleteAccountHandler).
THEOREM Invariance == Spec => []Inv
BY InitInv, NextInv, PTL DEF Spec

\* Every variable keeps its type.
THEOREM TypeCorrect == Spec => []TypeOK
<1>1. Init => spent \in 0 .. MaxSpent
  BY DEF Init
<1>2. spent \in 0 .. MaxSpent /\ [Next]_vars => (spent \in 0 .. MaxSpent)'
  BY DEF Next, Spend, vars
<1>3. Inv /\ spent \in 0 .. MaxSpent => TypeOK
  BY DEF Inv, TableOK, ClientsOK, RequestsOK, TypeOK
<1> QED
  BY <1>1, <1>2, <1>3, Invariance, PTL DEF Spec

\* What a client holds are the names of the accounts it logged in to, or impersonated,
\* unless they were renamed or deleted by somebody else (http.go, sftp.go).
THEOREM NamesStayCurrent == Spec => []NamesAreCurrent
<1>1. Inv => NamesAreCurrent
  BY DEF Inv, ClientsOK, JarOK, NamesAreCurrent
<1> QED
  BY <1>1, Invariance, PTL

\* No cookie has the admin flag whose last login was not an admin's (loginHandler).
THEOREM AdminIsEarned == Spec => []AdminFlagIsEarned
<1>1. Inv => AdminFlagIsEarned
  BY DEF Inv, ClientsOK, RequestsOK, JarOK, RequestOK, Honest, Cookies, AdminFlagIsEarned
<1> QED
  BY <1>1, Invariance, PTL

\* Impersonation ends where it began (adminUserHandler, logoutHandler).
THEOREM ImpersonationUndone == Spec => []ImpersonationIsUndone
<1>1. Inv => ImpersonationIsUndone
  BY DEF Inv, ClientsOK, RequestsOK, JarOK, RequestOK, Honest, Cookies, ImpersonationIsUndone
<1> QED
  BY <1>1, Invariance, PTL

\* A password is its owner's, or was set for one who had the name before
\* (resetPasswordHandler).
THEOREM PasswordsAreOwned == Spec => []PasswordIsTheOwners
<1>1. Inv => PasswordIsTheOwners
  BY DEF Inv, TableOK
<1> QED
  BY <1>1, Invariance, PTL
===============================================================================
