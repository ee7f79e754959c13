---------------------------- MODULE UserFilesProofs ----------------------------
(***************************************************************************)
(* UserFiles for any directory, limits and number of requests.  The quota  *)
(* rests on an invariant about the requests between their last check and   *)
(* their write: one of them at least still fits, the others each cost at   *)
(* most MaxFileBytes.  The number of entries rests on another, which       *)
(* counts what the requests may still add as if it were there.             *)
(***************************************************************************)
EXTENDS UserFiles, FiniteSetTheorems, TLAPS

LEMMA LongerFacts ==
    ASSUME NEW m \in Nat, NEW n \in Nat
    PROVE  /\ Longer(m, n) \in Nat
           /\ Longer(m, n) >= m
           /\ Longer(m, n) <= m + n
           /\ \A k \in Nat : m <= k /\ n <= k => Longer(m, n) <= k
BY DEF Longer

\* What a request in flight carries, apart from what it has been checked for.
Carries(r) ==
    InFlight(r) => req[r].path \in Paths /\ req[r].new \in Paths /\ req[r].then \in Thens

CarriesPaths == \A r \in Requests : Carries(r)

\* The helpers keep the type of the requests.
LEMMA RequestTypes ==
    ASSUME TypeOK, NEW r \in Requests
    PROVE  /\ \A then \in Thens, p, q \in Paths, b \in Nat, text \in BOOLEAN :
                 Begin(r, then, p, q, b, text) => req' \in [Requests -> Request]
           /\ \A step \in Steps \cup Resting : Goto(r, step) => req' \in [Requests -> Request]
           /\ \A outcome \in Resting : Reply(r, outcome) => req' \in [Requests -> Request]
           /\ \A then \in Thens : CheckThen(r, then) => req' \in [Requests -> Request]
<1>1. \A rec \in Request : req' = [req EXCEPT ![r] = rec] => req' \in [Requests -> Request]
  BY DEF TypeOK
<1>2. req[r] \in Request /\ req \in [Requests -> Request]
  BY DEF TypeOK
<1>3. ASSUME NEW then \in Thens, NEW p \in Paths, NEW q \in Paths, NEW b \in Nat,
             NEW text \in BOOLEAN, Begin(r, then, p, q, b, text)
      PROVE  req' \in [Requests -> Request]
  <2>1. [Idle EXCEPT !.at = "list", !.then = then, !.path = p, !.new = q, !.bytes = b,
                     !.text = text] \in Request
    BY DEF Request, Idle, Steps, Thens
  <2> QED BY <1>1, <1>3, <2>1 DEF Begin
<1>4. ASSUME NEW step \in Steps \cup Resting, Goto(r, step)
      PROVE  req' \in [Requests -> Request]
  <2>1. [req[r] EXCEPT !.at = step] \in Request
    BY <1>2 DEF Request
  <2> QED BY <1>1, <1>2, <1>4, <2>1 DEF Goto
<1>5. ASSUME NEW outcome \in Resting, Reply(r, outcome)
      PROVE  req' \in [Requests -> Request]
  <2>1. [Idle EXCEPT !.at = outcome] \in Request
    BY DEF Request, Idle
  <2> QED BY <1>1, <1>5, <2>1 DEF Reply
<1>6. ASSUME NEW then \in Thens, CheckThen(r, then)
      PROVE  req' \in [Requests -> Request]
  <2>1. [req[r] EXCEPT !.at = "list", !.then = then] \in Request
    BY <1>2 DEF Request, Thens, Steps
  <2> QED BY <1>1, <1>2, <1>6, <2>1 DEF CheckThen
<1> QED BY <1>3, <1>4, <1>5, <1>6

\* What the calls do to the disk, and that they keep its type.
DiskOK ==
    /\ files \subseteq Paths
    /\ len \in [Paths -> Nat]
    /\ \A p \in Paths \ files : len[p] = 0
    /\ folders \subseteq Folders
    /\ fd \in [Requests -> files \cup {NoPath}]

LEMMA OpenKeepsType ==
    ASSUME TypeOK, NEW r \in Requests, NEW p \in Paths, OpenEmpty(r, p)
    PROVE  DiskOK'
BY DEF TypeOK, DiskOK, OpenEmpty

LEMMA PutKeepsType ==
    ASSUME TypeOK, NEW r \in Requests, NEW n \in Nat, Put(r, n),
           fd' = fd \/ fd' = [fd EXCEPT ![r] = NoPath]
    PROVE  DiskOK'
<1> DEFINE p == fd[r]
<1> USE DEF TypeOK, DiskOK, Put
<1>1. CASE p = NoPath
  BY <1>1
<1>2. CASE p # NoPath
  <2>1. p \in files /\ p \in Paths
    BY <1>2
  <2>2. Longer(len[p], n) \in Nat
    BY <2>1, LongerFacts
  <2> QED BY <1>2, <2>1, <2>2
<1> QED BY <1>1, <1>2

LEMMA MoveKeepsType ==
    ASSUME TypeOK, NEW p \in files, NEW q \in Paths, Move(p, q)
    PROVE  DiskOK'
<1> USE DEF TypeOK, DiskOK, Move
<1>1. \A s \in Requests : fd'[s] \in files' \cup {NoPath}
  BY UserFilesAssumption
<1>2. fd' \in [Requests -> files' \cup {NoPath}]
  BY <1>1
<1> QED BY <1>2

\* The folder a file is in can be called otherwise, and its name stays.
LEMMA CarriedPath ==
    ASSUME NEW d \in Folders, NEW e \in Folders, NEW p \in Paths
    PROVE  /\ Folder[p] = p[1] /\ p = <<p[1], p[2]>>
           /\ Folder[p] = d => <<e, p[2]>> \in Paths /\ Folder[<<e, p[2]>>] = e
<1>1. Folder[p] = p[1] /\ p = <<p[1], p[2]>>
  BY DEF Folder, Paths
<1>2. ASSUME p[1] = d PROVE <<e, p[2]>> \in Paths
  BY <1>2, UserFilesAssumption DEF Paths
<1> QED BY <1>1, <1>2 DEF Folder

LEMMA CarriedFacts ==
    ASSUME NEW d \in Folders, NEW e \in Folders, NEW p \in Paths
    PROVE  /\ Carried(p, d, e) \in Paths /\ Carried(p, d, e)[2] = p[2]
           /\ Folder[p] # d => Carried(p, d, e) = p
           /\ Folder[p] = d => Folder[Carried(p, d, e)] = e
<1>1. CASE Folder[p] = d
  BY <1>1, CarriedPath DEF Carried
<1>2. CASE Folder[p] # d
  BY <1>2 DEF Carried
<1> QED BY <1>1, <1>2

LEMMA CarriedFrom ==
    ASSUME NEW d \in Folders, NEW e \in Folders, NEW p \in Paths, Folder[p] = e
    PROVE  /\ <<d, p[2]>> \in Paths /\ Folder[<<d, p[2]>>] = d
           /\ Carried(<<d, p[2]>>, d, e) = p
<1>1. <<d, p[2]>> \in Paths /\ Folder[<<d, p[2]>>] = d
  BY CarriedPath
<1>2. Carried(<<d, p[2]>>, d, e) = <<e, p[2]>>
  BY <1>1 DEF Carried
<1>3. p = <<e, p[2]>>
  BY CarriedPath
<1> QED BY <1>1, <1>2, <1>3

LEMMA CarriedNone ==
    ASSUME NEW d, NEW e
    PROVE  Carried(NoPath, d, e) = NoPath
BY UserFilesAssumption DEF Carried

\* A folder that goes has another name there.
LEMMA MovedFolder ==
    ASSUME TypeOK, NEW p \in Paths, NEW q \in Paths, CanMoveFolder(p, q)
    PROVE  p[2] \in Folders /\ q[2] \in Folders /\ p[2] # q[2]
<1>1. p[2] \in folders /\ q[2] \in Folders /\ p[2] \in Folders
  BY DEF CanMoveFolder, IsFolder, TypeOK
<1>2. Folder[q] = Root
  <2>1. q[1] = Root
    BY DEF CanMoveFolder
  <2> QED BY <2>1 DEF Folder
<1> QED BY <1>1, <1>2 DEF CanMoveFolder, IsFolder

LEMMA MovedFiles ==
    ASSUME NEW d, NEW e, MoveFolder(d, e)
    PROVE  /\ \A f \in files : Carried(f, d, e) \in files'
           /\ \A x \in files' : \E f \in files : x = Carried(f, d, e)
BY DEF MoveFolder

LEMMA RenameKeepsType ==
    ASSUME TypeOK, NEW p \in Paths, NEW q \in Paths, Rename(p, q)
    PROVE  DiskOK'
<1>1. CASE p \in files /\ CanOpen(q) /\ Move(p, q)
  BY <1>1, MoveKeepsType
<1>2. CASE CanMoveFolder(p, q) /\ MoveFolder(p[2], q[2])
  <2>1. PICK d \in Folders, e \in Folders : d # e /\ MoveFolder(d, e)
    BY <1>2, MovedFolder
  <2>c. \A f \in Paths : Carried(f, d, e) \in Paths
    BY <2>1, CarriedFacts
  <2>2. files' \subseteq Paths
    BY <2>1, <2>c DEF MoveFolder, TypeOK
  <2>3. len' \in [Paths -> Nat] /\ \A f \in Paths \ files' : len'[f] = 0
    <3> SUFFICES ASSUME NEW f \in Paths PROVE len'[f] \in Nat /\ (f \notin files' => len'[f] = 0)
      BY <2>1 DEF MoveFolder
    <3>1. CASE Folder[f] = e
      <4>1. len'[f] = len[<<d, f[2]>>]
        BY <2>1, <3>1 DEF MoveFolder
      <4>2. <<d, f[2]>> \in Paths /\ Carried(<<d, f[2]>>, d, e) = f
        BY <3>1, CarriedFrom
      <4>3. f \notin files' => <<d, f[2]>> \notin files
        BY <2>1, <4>2, MovedFiles
      <4> QED BY <4>1, <4>2, <4>3 DEF TypeOK
    <3>2. CASE Folder[f] = d
      BY <2>1, <3>2 DEF MoveFolder
    <3>3. CASE Folder[f] # d /\ Folder[f] # e
      <4>1. len'[f] = len[f]
        BY <2>1, <3>3 DEF MoveFolder
      <4>2. Carried(f, d, e) = f
        BY <2>1, <3>3, CarriedFacts
      <4>3. f \notin files' => f \notin files
        BY <2>1, <4>2, MovedFiles
      <4> QED BY <4>1, <4>3 DEF TypeOK
    <3> QED BY <3>1, <3>2, <3>3
  <2>4. fd' \in [Requests -> files' \cup {NoPath}]
    <3> SUFFICES ASSUME NEW s \in Requests PROVE Carried(fd[s], d, e) \in files' \cup {NoPath}
      BY <2>1 DEF MoveFolder
    <3>1. fd[s] \in files \/ fd[s] = NoPath
      BY DEF TypeOK
    <3>2. CASE fd[s] \in files
      BY <2>1, <3>2, MovedFiles
    <3>3. CASE fd[s] = NoPath
      BY <3>3, CarriedNone
    <3> QED BY <3>1, <3>2, <3>3
  <2>5. folders' \subseteq Folders
    BY <2>1 DEF MoveFolder, TypeOK
  <2> QED BY <2>2, <2>3, <2>4, <2>5 DEF DiskOK
<1>3. CASE UNCHANGED <<disk, fd>>
  BY <1>3 DEF TypeOK, DiskOK, disk
<1> QED BY <1>1, <1>2, <1>3 DEF Rename

LEMMA FolderOfIsFolder ==
    \A p \in Paths : MadeFor(p) \subseteq FolderOf(p) /\ FolderOf(p) \subseteq Folders
BY DEF FolderOf, MadeFor, Folder, Paths

LEMMA InitTypeOK == Init => TypeOK /\ CarriesPaths
<1> SUFFICES ASSUME Init PROVE TypeOK /\ CarriesPaths
  OBVIOUS
<1> USE UserFilesAssumption DEF Init
<1>1. Index \in Paths
  BY DEF Index, Paths
<1>2. req \in [Requests -> Request]
  BY DEF Request, Idle, Resting
<1>3. TypeOK
  BY <1>1, <1>2, FolderOfIsFolder DEF TypeOK
<1>4. CarriesPaths
  BY DEF CarriesPaths, Carries, InFlight, Idle, Resting
<1> QED BY <1>3, <1>4

LEMMA StepTypeOK == TypeOK /\ CarriesPaths /\ [Next]_vars => TypeOK' /\ CarriesPaths'
<1> SUFFICES ASSUME TypeOK, CarriesPaths, [Next]_vars PROVE TypeOK' /\ CarriesPaths'
  OBVIOUS
<1> USE UserFilesAssumption
<1>a. ASSUME NEW r \in Requests, InFlight(r)
      PROVE  /\ req[r].path \in Paths /\ req[r].new \in Paths /\ req[r].bytes \in Nat
             /\ req[r].then \in Thens /\ req[r] \in Request
  BY <1>a DEF TypeOK, CarriesPaths, Carries, Request, Thens
<1>b. ASSUME DiskOK', req' \in [Requests -> Request] PROVE TypeOK'
  BY <1>b DEF DiskOK, TypeOK
<1>c. ASSUME UNCHANGED <<disk, fd>> PROVE DiskOK'
  BY <1>c DEF DiskOK, TypeOK, disk
\* Only what arrives brings new paths.
<1>d. ASSUME NEW r \in Requests,
             \A s \in Requests \ {r} : req'[s] = req[s],
             InFlight(r)' => /\ InFlight(r)
                             /\ req'[r].path = req[r].path /\ req'[r].new = req[r].new
                             /\ req'[r].then \in Thens
      PROVE  CarriesPaths'
  BY <1>d DEF CarriesPaths, Carries, InFlight
<1>e. ASSUME NEW r \in Requests, InFlight(r),
             \/ \E step \in Steps \cup Resting : Goto(r, step)
             \/ \E outcome \in Resting : Reply(r, outcome)
             \/ \E then \in Thens : CheckThen(r, then)
      PROVE  CarriesPaths' /\ req' \in [Requests -> Request]
  <2>1. req' \in [Requests -> Request]
    BY <1>e, RequestTypes
  <2>2. \A s \in Requests \ {r} : req'[s] = req[s]
    BY <1>e DEF TypeOK, Goto, Reply, CheckThen
  <2>3. InFlight(r)' => /\ req'[r].path = req[r].path /\ req'[r].new = req[r].new
                        /\ req'[r].then \in Thens
    <3>1. ASSUME NEW step, Goto(r, step)
          PROVE  /\ req'[r].path = req[r].path /\ req'[r].new = req[r].new
                 /\ req'[r].then = req[r].then
      BY <3>1 DEF TypeOK, Request, Goto
    <3>2. ASSUME NEW outcome \in Resting, Reply(r, outcome)
          PROVE  ~InFlight(r)'
      BY <3>2 DEF TypeOK, Reply, Idle, InFlight
    <3>3. ASSUME NEW then \in Thens, CheckThen(r, then)
          PROVE  /\ req'[r].path = req[r].path /\ req'[r].new = req[r].new
                 /\ req'[r].then = then
      BY <3>3 DEF TypeOK, Request, CheckThen
    <3> QED BY <1>a, <1>e, <3>1, <3>2, <3>3
  <2> QED BY <1>d, <1>e, <2>1, <2>2, <2>3
<1>f. ASSUME NEW r \in Requests, NEW p \in Paths, NEW q \in Paths, NEW then \in Thens,
             NEW b \in Nat, NEW text \in BOOLEAN, Begin(r, then, p, q, b, text)
      PROVE  TypeOK' /\ CarriesPaths'
  <2>1. UNCHANGED <<disk, fd>> /\ req' \in [Requests -> Request]
    BY <1>f, RequestTypes DEF Begin
  <2>2. \A s \in Requests \ {r} : req'[s] = req[s]
    BY <1>f DEF Begin, TypeOK
  <2>3. req'[r].path = p /\ req'[r].new = q /\ req'[r].then = then
    BY <1>f DEF Begin, TypeOK, Idle
  <2>4. CarriesPaths'
    BY <2>2, <2>3 DEF CarriesPaths, Carries, InFlight
  <2> QED BY <1>b, <1>c, <2>1, <2>4
<1>1. ASSUME NEW r \in Requests, Arrive(r) PROVE TypeOK' /\ CarriesPaths'
  <2>1. {"mkdir", "store", "open", "move"} \subseteq Thens /\ Sizes \subseteq Nat
    BY DEF Thens
  <2>2. ASSUME NEW p \in Paths, NEW q \in Paths, NEW b \in Sizes, EditStart(r, p, q, b)
        PROVE  TypeOK' /\ CarriesPaths'
    <3>1. PICK text \in BOOLEAN : Begin(r, "mkdir", p, q, b, text)
      BY <2>2 DEF EditStart, IsText
    <3> QED BY <1>f, <2>1, <3>1
  <2>3. ASSUME NEW p \in Paths, NEW b \in Sizes, UploadStart(r, p, b)
        PROVE  TypeOK' /\ CarriesPaths'
    BY <1>f, <2>1, <2>3 DEF UploadStart
  <2>4. ASSUME NEW p \in Paths, SftpWriteStart(r, p) PROVE TypeOK' /\ CarriesPaths'
    BY <1>f, <2>1, <2>4 DEF SftpWriteStart
  <2>5. ASSUME NEW p \in Paths, NEW q \in Paths, SftpRenameStart(r, p, q)
        PROVE  TypeOK' /\ CarriesPaths'
    BY <1>f, <2>1, <2>5 DEF SftpRenameStart
  <2> QED BY <1>1, <2>2, <2>3, <2>4, <2>5 DEF Arrive, NewPaths
<1>2. ASSUME NEW r \in Requests, CheckList(r) PROVE TypeOK' /\ CarriesPaths'
  <2>1. InFlight(r)
    BY <1>2 DEF CheckList, At, InFlight, Resting
  <2>2. [req[r] EXCEPT !.at = "measure", !.seen = files \cup folders] \in Request
    <3>1. req[r] \in Request
      BY <1>a, <2>1
    <3>2. files \cup folders \in SUBSET (Paths \cup Folders) /\ "measure" \in Steps
      BY DEF TypeOK, Steps
    <3> QED BY <3>1, <3>2 DEF Request
  <2>3. req' \in [Requests -> Request] /\ UNCHANGED <<disk, fd>>
    BY <1>2, <2>2 DEF CheckList, TypeOK
  <2>4. /\ \A s \in Requests \ {r} : req'[s] = req[s]
        /\ req'[r].path = req[r].path /\ req'[r].new = req[r].new /\ req'[r].then = req[r].then
    BY <1>2 DEF CheckList, TypeOK, Request
  <2> QED BY <1>a, <1>b, <1>c, <1>d, <2>1, <2>3, <2>4
<1>3. ASSUME NEW r \in Requests, CheckPass(r) PROVE TypeOK' /\ CarriesPaths'
  <2>1. InFlight(r) /\ UNCHANGED <<disk, fd>>
    BY <1>3 DEF CheckPass, At, InFlight, Resting
  <2>2. CASE req[r].then = "reply"
    <3>1. PICK outcome \in Resting : Reply(r, outcome)
      BY <1>3, <2>2 DEF CheckPass, Resting
    <3> QED BY <1>b, <1>c, <1>e, <2>1, <3>1
  <2>3. CASE req[r].then # "reply"
    <3>1. req' = [req EXCEPT ![r].at = req[r].then, ![r].seen = {}]
      BY <1>3, <2>3 DEF CheckPass
    <3>2. [req[r] EXCEPT !.at = req[r].then, !.seen = {}] \in Request
      BY <1>a, <2>1, <2>3 DEF Request, Steps, Thens
    <3>3. req' \in [Requests -> Request]
      BY <3>1, <3>2 DEF TypeOK
    <3>4. /\ \A s \in Requests \ {r} : req'[s] = req[s]
          /\ req'[r].path = req[r].path /\ req'[r].new = req[r].new /\ req'[r].then = req[r].then
      BY <3>1 DEF TypeOK, Request
    <3> QED BY <1>a, <1>b, <1>c, <1>d, <2>1, <3>3, <3>4
  <2> QED BY <2>2, <2>3
<1>4. ASSUME NEW r \in Requests, CheckRefuse(r) PROVE TypeOK' /\ CarriesPaths'
  <2>1. InFlight(r) /\ UNCHANGED <<disk, fd>> /\ Reply(r, "refused")
    BY <1>4 DEF CheckRefuse, At, InFlight, Resting
  <2>2. "refused" \in Resting
    BY DEF Resting
  <2> QED BY <1>b, <1>c, <1>e, <2>1, <2>2
<1>5. ASSUME NEW r \in Requests, CheckPanic(r) \/ Abandon(r) PROVE TypeOK' /\ CarriesPaths'
  <2>1. /\ req' \in [Requests -> Request]
        /\ \A s \in Requests : req'[s] = req[s] \/ req'[s] = Idle
    <3>1. Idle \in Request
      BY DEF Idle, Request, Resting
    <3>2. req' = [s \in Requests |-> Idle] \/ req' = [req EXCEPT ![r] = Idle]
      BY <1>5 DEF CheckPanic, Abandon
    <3> QED BY <3>1, <3>2 DEF TypeOK
  <2>2. DiskOK'
    BY <1>5 DEF CheckPanic, Abandon, TypeOK, DiskOK, disk
  <2>3. CarriesPaths'
    BY <2>1 DEF CarriesPaths, Carries, InFlight, Idle, Resting
  <2> QED BY <1>b, <2>1, <2>2, <2>3
<1>6. ASSUME NEW r \in Requests, EditMkdir(r) PROVE TypeOK' /\ CarriesPaths'
  <2>1. InFlight(r)
    BY <1>6 DEF EditMkdir, At, InFlight, Resting
  <2>2. CheckThen(r, "save")
    BY <1>6 DEF EditMkdir
  <2>3. CarriesPaths' /\ req' \in [Requests -> Request]
    BY <1>e, <2>1, <2>2 DEF Thens
  <2>4. DiskOK'
    BY <1>6, <1>a, <2>1, FolderOfIsFolder DEF EditMkdir, TypeOK, DiskOK
  <2> QED BY <1>b, <2>3, <2>4
<1>7. ASSUME NEW r \in Requests, EditOpen(r) PROVE TypeOK' /\ CarriesPaths'
  <2>1. InFlight(r)
    BY <1>7 DEF EditOpen, At, InFlight, Resting
  <2>2. CASE CanOpen(req[r].path)
    <3>1. OpenEmpty(r, req[r].path) /\ Goto(r, "fill") /\ "fill" \in Steps
      BY <1>7, <2>2 DEF EditOpen, Steps
    <3> QED BY <1>a, <1>b, <1>e, <2>1, <3>1, OpenKeepsType
  <2>3. CASE ~CanOpen(req[r].path)
    <3>1. /\ req' = [req EXCEPT ![r].at = "rename", ![r].error = TRUE]
          /\ UNCHANGED <<disk, fd>>
      BY <1>7, <2>3 DEF EditOpen
    <3>2. [req[r] EXCEPT !.at = "rename", !.error = TRUE] \in Request
      BY <1>a, <2>1 DEF Request, Steps
    <3>3. req' \in [Requests -> Request]
      BY <3>1, <3>2 DEF TypeOK
    <3>4. /\ \A s \in Requests \ {r} : req'[s] = req[s]
          /\ req'[r].path = req[r].path /\ req'[r].new = req[r].new /\ req'[r].then = req[r].then
      BY <3>1 DEF TypeOK, Request
    <3> QED BY <1>a, <1>b, <1>c, <1>d, <2>1, <3>1, <3>3, <3>4
  <2> QED BY <2>2, <2>3
<1>8. ASSUME NEW r \in Requests, EditSkip(r) PROVE TypeOK' /\ CarriesPaths'
  <2>1. InFlight(r) /\ Goto(r, "rename") /\ "rename" \in Steps /\ UNCHANGED <<disk, fd>>
    BY <1>8 DEF EditSkip, At, InFlight, Resting, Steps
  <2> QED BY <1>b, <1>c, <1>e, <2>1
<1>9. ASSUME NEW r \in Requests, EditFill(r) PROVE TypeOK' /\ CarriesPaths'
  <2>1. InFlight(r) /\ Goto(r, "rename") /\ "rename" \in Steps
    BY <1>9 DEF EditFill, At, InFlight, Resting, Steps
  <2>2. DiskOK'
    BY <1>9, <1>a, <2>1, PutKeepsType DEF EditFill
  <2> QED BY <1>b, <1>e, <2>1, <2>2
<1>10. ASSUME NEW r \in Requests, EditRenameMkdir(r) PROVE TypeOK' /\ CarriesPaths'
  <2>1. InFlight(r) /\ "renameTo" \in Steps
    BY <1>10 DEF EditRenameMkdir, At, InFlight, Resting, Steps
  <2>2. Goto(r, "renameTo")
    BY <1>10 DEF EditRenameMkdir
  <2>3. DiskOK'
    BY <1>10, <1>a, <2>1, FolderOfIsFolder DEF EditRenameMkdir, TypeOK, DiskOK
  <2> QED BY <1>b, <1>e, <2>1, <2>2, <2>3
<1>11. ASSUME NEW r \in Requests, EditRenameTo(r) PROVE TypeOK' /\ CarriesPaths'
  <2>1. InFlight(r)
    BY <1>11 DEF EditRenameTo, At, InFlight, Resting
  <2>2. CheckThen(r, "reply")
    BY <1>11 DEF EditRenameTo
  <2>3. CarriesPaths' /\ req' \in [Requests -> Request]
    BY <1>e, <2>1, <2>2 DEF Thens
  <2>4. DiskOK'
    <3>1. CASE Rename(req[r].path, req[r].new)
      BY <1>a, <2>1, <3>1, RenameKeepsType
    <3>2. CASE UNCHANGED <<disk, fd>>
      BY <1>c, <3>2
    <3> QED BY <1>11, <3>1, <3>2 DEF EditRenameTo
  <2> QED BY <1>b, <2>3, <2>4
<1>12. ASSUME NEW r \in Requests, UploadOpen(r) PROVE TypeOK' /\ CarriesPaths'
  <2>1. InFlight(r) /\ "copy" \in Steps /\ "refused" \in Resting
    BY <1>12 DEF UploadOpen, At, InFlight, Resting, Steps
  <2>2. Goto(r, "copy") \/ Reply(r, "refused")
    BY <1>12 DEF UploadOpen
  <2>3. DiskOK'
    <3>1. CASE CanOpen(req[r].path)
      BY <1>12, <1>a, <2>1, <3>1 DEF UploadOpen, TypeOK, DiskOK
    <3>2. CASE ~CanOpen(req[r].path)
      BY <1>12, <3>2 DEF UploadOpen, TypeOK, DiskOK, disk
    <3> QED BY <3>1, <3>2
  <2> QED BY <1>b, <1>e, <2>1, <2>2, <2>3
<1>13. ASSUME NEW r \in Requests, UploadCopy(r) \/ SftpClose(r) PROVE TypeOK' /\ CarriesPaths'
  <2>1. InFlight(r) /\ "saved" \in Resting /\ Reply(r, "saved")
    BY <1>13 DEF UploadCopy, SftpClose, At, InFlight, Resting
  <2>2. CASE UploadCopy(r)
    BY <1>a, <1>b, <1>e, <2>1, <2>2, PutKeepsType DEF UploadCopy
  <2>3. CASE SftpClose(r)
    <3>1. DiskOK'
      BY <2>3 DEF SftpClose, TypeOK, DiskOK, disk
    <3> QED BY <1>b, <1>e, <2>1, <3>1
  <2> QED BY <1>13, <2>2, <2>3
<1>14. ASSUME NEW r \in Requests, SftpOpen(r) PROVE TypeOK' /\ CarriesPaths'
  <2>1. InFlight(r) /\ "stream" \in Steps /\ "refused" \in Resting
    BY <1>14 DEF SftpOpen, At, InFlight, Resting, Steps
  <2>2. CASE CanOpen(req[r].path)
    <3>1. OpenEmpty(r, req[r].path) /\ Goto(r, "stream")
      BY <1>14, <2>2 DEF SftpOpen
    <3> QED BY <1>a, <1>b, <1>e, <2>1, <3>1, OpenKeepsType
  <2>3. CASE ~CanOpen(req[r].path)
    <3>1. Reply(r, "refused") /\ UNCHANGED <<disk, fd>>
      BY <1>14, <2>3 DEF SftpOpen
    <3> QED BY <1>b, <1>c, <1>e, <2>1, <3>1
  <2> QED BY <2>2, <2>3
<1>15. ASSUME NEW r \in Requests, NEW n \in Sizes, SftpPut(r, n) PROVE TypeOK' /\ CarriesPaths'
  <2>1. DiskOK'
    BY <1>15, PutKeepsType DEF SftpPut
  <2>2. req' = req
    BY <1>15 DEF SftpPut
  <2> QED BY <1>b, <2>1, <2>2 DEF TypeOK, CarriesPaths, Carries, InFlight
<1>16. ASSUME NEW r \in Requests, SftpMove(r) PROVE TypeOK' /\ CarriesPaths'
  <2>1. InFlight(r) /\ "saved" \in Resting
    BY <1>16 DEF SftpMove, At, InFlight, Resting
  <2>2. Reply(r, "saved")
    BY <1>16 DEF SftpMove
  <2>3. DiskOK'
    BY <1>16, <1>a, <2>1, RenameKeepsType DEF SftpMove
  <2> QED BY <1>b, <1>e, <2>1, <2>2, <2>3
<1>17. ASSUME NEW p \in Paths, DeleteFile(p) PROVE TypeOK' /\ CarriesPaths'
  <2>1. DiskOK'
    BY <1>17 DEF DeleteFile, TypeOK, DiskOK
  <2> QED BY <1>17, <1>b, <2>1 DEF DeleteFile, TypeOK, CarriesPaths, Carries, InFlight
<1>18. ASSUME NEW d \in Folders, DeleteFolder(d) \/ SftpMkdir(d) PROVE TypeOK' /\ CarriesPaths'
  <2>1. DiskOK'
    BY <1>18 DEF DeleteFolder, SftpMkdir, TypeOK, DiskOK
  <2> QED BY <1>18, <1>b, <2>1
          DEF DeleteFolder, SftpMkdir, TypeOK, CarriesPaths, Carries, InFlight
<1>19. CASE UNCHANGED vars
  BY <1>19 DEF vars, TypeOK, CarriesPaths, Carries, InFlight
<1> QED
  BY <1>1, <1>2, <1>3, <1>4, <1>5, <1>6, <1>7, <1>8, <1>9, <1>10, <1>11, <1>12, <1>13, <1>14,
     <1>15, <1>16, <1>17, <1>18, <1>19 DEF Next, Work

\* The types hold whatever requests run in whatever order.
THEOREM TypeCorrect == Spec => [](TypeOK /\ CarriesPaths)
BY InitTypeOK, StepTypeOK, PTL DEF Spec

-------------------------------------------------------------------------------
\* What a request has been checked for, by the step it has come to.
Vetted(r) ==
    /\ At(r, "measure") => Acceptable(r)
    /\ \/ At(r, "mkdir")
       \/ req[r].at \in {"list", "measure"} /\ req[r].then = "save"
       => req[r].path[2] \in OkNames
    /\ req[r].at \in {"save", "fill", "rename", "renameTo"} =>
          req[r].path[2] \in OkNames /\ req[r].new[2] \in OkNames /\ req[r].bytes <= MaxFileBytes
    /\ req[r].at \in {"store", "copy"} =>
          req[r].path[2] \in OkNames /\ req[r].bytes <= MaxFileBytes
    /\ At(r, "open") => req[r].path[2] \in OkNames
    /\ At(r, "move") => req[r].new[2] \in OkNames
    /\ InFlight(r) /\ ~EnableSFTP =>
          req[r].at \notin {"open", "stream", "move"} /\ req[r].then \notin {"open", "move"}

AllVetted == \A r \in Requests : Vetted(r)

Typed == TypeOK /\ CarriesPaths

LEMMA StepVetted == Typed /\ AllVetted /\ [Next]_vars => AllVetted'
<1> SUFFICES ASSUME Typed, AllVetted, [Next]_vars PROVE AllVetted'
  OBVIOUS
<1> USE DEF Typed
<1>a. ASSUME NEW r \in Requests, \A s \in Requests \ {r} : req'[s] = req[s], Vetted(r)'
      PROVE  AllVetted'
  BY <1>a DEF AllVetted, Vetted, At, InFlight, Acceptable, CheckedLength, CheckedPath, CheckedBytes
<1>b. ASSUME NEW r \in Requests, req'[r].at \in Resting PROVE Vetted(r)'
  BY <1>b DEF Vetted, At, InFlight, Resting
<1>1. ASSUME NEW r \in Requests, Arrive(r) PROVE AllVetted'
  <2>1. ASSUME NEW p, NEW q, NEW then \in {"mkdir", "store", "open", "move"}, NEW b, NEW text,
               Begin(r, then, p, q, b, text), then \in {"open", "move"} => EnableSFTP
        PROVE  AllVetted'
    <3>1. /\ \A s \in Requests \ {r} : req'[s] = req[s]
          /\ req'[r].at = "list" /\ req'[r].then = then
      BY <2>1 DEF Begin, TypeOK, Idle
    <3> QED BY <1>a, <2>1, <3>1 DEF Vetted, At, InFlight, Resting
  <2> QED BY <1>1, <2>1 DEF Arrive, EditStart, UploadStart, SftpWriteStart, SftpRenameStart
<1>2. ASSUME NEW r \in Requests, CheckList(r) PROVE AllVetted'
  <2>1. /\ \A s \in Requests \ {r} : req'[s] = req[s]
        /\ req[r].at = "list" /\ req'[r].at = "measure"
        /\ req'[r].then = req[r].then /\ req'[r].path = req[r].path
        /\ req'[r].new = req[r].new /\ req'[r].bytes = req[r].bytes
        /\ Acceptable(r)
    BY <1>2 DEF CheckList, At, TypeOK, Request
  <2>2. Vetted(r)'
    BY <2>1 DEF AllVetted, Vetted, At, Acceptable, CheckedLength, CheckedPath, CheckedBytes, InFlight, Resting
  <2> QED BY <1>a, <2>1, <2>2
<1>3. ASSUME NEW r \in Requests, CheckPass(r) PROVE AllVetted'
  <2>1. \A s \in Requests \ {r} : req'[s] = req[s]
    BY <1>3 DEF CheckPass, Reply, TypeOK
  <2>2. req[r].at = "measure" /\ Acceptable(r) /\ Vetted(r) /\ req[r].then \in Thens
    BY <1>3 DEF CheckPass, At, AllVetted, Vetted, CarriesPaths, Carries, InFlight, Resting
  <2>3. CASE req[r].then = "reply"
    <3>1. req'[r].at \in Resting
      <4>1. PICK outcome \in Resting : Reply(r, outcome)
        BY <1>3, <2>3 DEF CheckPass, Resting
      <4> QED BY <4>1 DEF Reply, TypeOK, Idle
    <3>2. Vetted(r)'
      BY <1>b, <3>1
    <3> QED BY <1>a, <2>1, <3>2
  <2>4. CASE req[r].then # "reply"
    <3>1. /\ req'[r].at = req[r].then
          /\ req'[r].then = req[r].then /\ req'[r].path = req[r].path
          /\ req'[r].new = req[r].new /\ req'[r].bytes = req[r].bytes
      BY <1>3, <2>4 DEF CheckPass, TypeOK, Request
    <3>2. Vetted(r)'
      BY <2>2, <2>4, <3>1
      DEF Vetted, At, Acceptable, CheckedLength, CheckedPath, CheckedBytes, InFlight, Resting, Thens
    <3> QED BY <1>a, <2>1, <3>2
  <2> QED BY <2>3, <2>4
<1>4. ASSUME NEW r \in Requests,
             \/ CheckRefuse(r) \/ Abandon(r) \/ CheckPanic(r) \/ UploadCopy(r) \/ SftpClose(r)
             \/ SftpMove(r)
      PROVE  AllVetted'
  <2>1. \A s \in Requests : req'[s] = req[s] \/ req'[s].at \in Resting
    <3>1. ASSUME NEW outcome \in Resting, Reply(r, outcome)
          PROVE  \A s \in Requests : req'[s] = req[s] \/ req'[s].at \in Resting
      BY <3>1 DEF Reply, TypeOK, Idle
    <3>2. CASE Abandon(r) \/ CheckPanic(r)
      BY <3>2 DEF Abandon, CheckPanic, TypeOK, Idle, Resting
    <3>3. CASE \/ CheckRefuse(r) \/ UploadCopy(r) \/ SftpClose(r) \/ SftpMove(r)
      <4>1. \E outcome \in Resting : Reply(r, outcome)
        BY <3>3 DEF CheckRefuse, UploadCopy, SftpClose, SftpMove, Resting
      <4> QED BY <3>1, <4>1
    <3> QED BY <1>4, <3>2, <3>3
  <2> QED BY <1>b, <2>1
          DEF AllVetted, Vetted, At, InFlight, Acceptable, CheckedLength, CheckedPath, CheckedBytes
<1>5. ASSUME NEW r \in Requests, EditMkdir(r) \/ EditRenameTo(r) PROVE AllVetted'
  <2>1. /\ \A s \in Requests \ {r} : req'[s] = req[s]
        /\ req'[r].at = "list" /\ req'[r].path = req[r].path
        /\ EditMkdir(r) => req'[r].then = "save"
        /\ EditRenameTo(r) => req'[r].then = "reply"
    BY <1>5 DEF EditMkdir, EditRenameTo, CheckThen, At, TypeOK, Request
  <2>2. EditMkdir(r) => req[r].path[2] \in OkNames
    BY DEF EditMkdir, AllVetted, Vetted, At
  <2>3. Vetted(r)'
    BY <1>5, <2>1, <2>2 DEF Vetted, At, InFlight
  <2> QED BY <1>a, <2>1, <2>3
<1>6. ASSUME NEW r \in Requests,
             \/ EditOpen(r) \/ EditSkip(r) \/ EditFill(r) \/ EditRenameMkdir(r)
             \/ UploadOpen(r) \/ SftpOpen(r)
      PROVE  AllVetted'
  <2>1. \A s \in Requests \ {r} : req'[s] = req[s]
    BY <1>6
    DEF EditOpen, EditSkip, EditFill, EditRenameMkdir, UploadOpen, SftpOpen, Goto,
        Reply, TypeOK
  <2>2. /\ Vetted(r) /\ InFlight(r)
        /\ req[r].at \in {"save", "fill", "rename", "store", "open"}
    BY <1>6
    DEF EditOpen, EditSkip, EditFill, EditRenameMkdir, UploadOpen, SftpOpen, At, AllVetted,
        InFlight, Resting
  <2>3. \/ req'[r].at \in Resting
        \/ /\ req'[r].then = req[r].then /\ req'[r].path = req[r].path
           /\ req'[r].new = req[r].new /\ req'[r].bytes = req[r].bytes
           /\ \/ req[r].at = "save" /\ req'[r].at \in {"fill", "rename"}
              \/ req[r].at = "fill" /\ req'[r].at = "rename"
              \/ req[r].at = "rename" /\ req'[r].at = "renameTo"
              \/ req[r].at = "store" /\ req'[r].at = "copy"
              \/ req[r].at = "open" /\ req'[r].at = "stream"
    <3>1. CASE EditOpen(r)
      BY <3>1 DEF EditOpen, At, Goto, TypeOK, Request
    <3>2. CASE EditSkip(r) \/ EditFill(r)
      BY <3>2 DEF EditSkip, EditFill, At, Goto, TypeOK, Request
    <3>3. CASE EditRenameMkdir(r)
      BY <3>3 DEF EditRenameMkdir, At, Goto, TypeOK, Request
    <3>4. ASSUME NEW outcome \in Resting, Reply(r, outcome)
          PROVE  req'[r].at \in Resting
      BY <3>4 DEF Reply, TypeOK, Idle
    <3>5. ASSUME NEW step, Goto(r, step)
          PROVE  /\ req'[r].at = step
                 /\ req'[r].then = req[r].then /\ req'[r].path = req[r].path
                 /\ req'[r].new = req[r].new /\ req'[r].bytes = req[r].bytes
      BY <3>5 DEF Goto, TypeOK, Request
    <3>6. CASE UploadOpen(r)
      <4>1. req[r].at = "store" /\ (Goto(r, "copy") \/ Reply(r, "refused"))
        BY <3>6 DEF UploadOpen, At
      <4> QED BY <3>4, <3>5, <4>1 DEF Resting
    <3>7. CASE SftpOpen(r)
      <4>1. req[r].at = "open" /\ (Goto(r, "stream") \/ Reply(r, "refused"))
        BY <3>7 DEF SftpOpen, At
      <4> QED BY <3>4, <3>5, <4>1 DEF Resting
    <3> QED BY <1>6, <3>1, <3>2, <3>3, <3>6, <3>7
  <2>4. Vetted(r)'
    BY <1>b, <2>2, <2>3 DEF Vetted, At, InFlight
  <2> QED BY <1>a, <2>1, <2>4
<1>7. ASSUME req' = req PROVE AllVetted'
  BY <1>7 DEF AllVetted, Vetted, At, InFlight, Acceptable, CheckedLength, CheckedPath, CheckedBytes
<1> QED
  BY <1>1, <1>2, <1>3, <1>4, <1>5, <1>6, <1>7
  DEF Next, Work, SftpPut, DeleteFile, DeleteFolder, SftpMkdir, vars

-------------------------------------------------------------------------------
\* Names and lengths: what is made or renamed has been vetted.
Bounded == OnlyOkExtensions /\ FilesWithinLimit

LEMMA StepBounded == Typed /\ AllVetted /\ Bounded /\ [Next]_vars => Bounded'
<1> SUFFICES ASSUME Typed, AllVetted, Bounded, [Next]_vars PROVE Bounded'
  OBVIOUS
<1> USE UserFilesAssumption DEF Typed, Bounded, OnlyOkExtensions, FilesWithinLimit
<1>a. ASSUME UNCHANGED <<files, len>> PROVE Bounded'
  BY <1>a
<1>b. ASSUME NEW r \in Requests, NEW p, p[2] \in OkNames, OpenEmpty(r, p) PROVE Bounded'
  BY <1>b DEF OpenEmpty, TypeOK
<1>c. ASSUME NEW r \in Requests, NEW n \in Nat, Put(r, n), ~EnableSFTP => n <= MaxFileBytes
      PROVE  Bounded'
  <2>1. CASE fd[r] = NoPath
    BY <1>a, <1>c, <2>1 DEF Put
  <2>2. CASE fd[r] # NoPath
    <3>1. fd[r] \in Paths /\ len[fd[r]] \in Nat /\ len \in [Paths -> Nat]
      BY <2>2 DEF TypeOK
    <3>2. files' = files /\ len' = [len EXCEPT ![fd[r]] = Longer(len[fd[r]], n)]
      BY <1>c, <2>2 DEF Put
    <3>3. ~EnableSFTP => Longer(len[fd[r]], n) <= MaxFileBytes
      BY <1>c, <3>1, LongerFacts
    <3> QED BY <3>1, <3>2, <3>3
  <2> QED BY <2>1, <2>2
<1>d. ASSUME NEW p \in Paths, NEW q \in Paths, q[2] \in OkNames, Rename(p, q) PROVE Bounded'
  <2>1. CASE p \in files /\ CanOpen(q) /\ Move(p, q)
    BY <1>d, <2>1 DEF Move, TypeOK
  <2>2. CASE CanMoveFolder(p, q) /\ MoveFolder(p[2], q[2])
    <3>1. PICK d \in Folders, e \in Folders : d # e /\ MoveFolder(d, e)
      BY <2>2, MovedFolder
    <3>c. \A f \in Paths : Carried(f, d, e)[2] = f[2]
      BY CarriedFacts
    <3>2. \A f \in files' : f[2] \in OkNames
      BY <3>1, <3>c, MovedFiles DEF TypeOK
    <3>3. ASSUME NEW f \in Paths PROVE len'[f] = 0 \/ \E g \in Paths : len'[f] = len[g]
      <4>1. CASE Folder[f] = e
        <5>1. len'[f] = len[<<d, f[2]>>]
          BY <3>1, <4>1 DEF MoveFolder
        <5> QED BY <4>1, <5>1, CarriedFrom
      <4>2. CASE Folder[f] # e
        BY <3>1, <4>2 DEF MoveFolder
      <4> QED BY <4>1, <4>2
    <3> QED BY <3>2, <3>3
  <2>3. CASE UNCHANGED <<disk, fd>>
    BY <1>a, <2>3 DEF disk
  <2> QED BY <1>d, <2>1, <2>2, <2>3 DEF Rename
<1>1. ASSUME NEW r \in Requests,
             \/ Arrive(r)
             \/ CheckList(r) \/ CheckPass(r) \/ CheckRefuse(r) \/ CheckPanic(r)
             \/ EditMkdir(r) \/ EditSkip(r) \/ EditRenameMkdir(r) \/ SftpClose(r) \/ Abandon(r)
      PROVE  Bounded'
  BY <1>a, <1>1
  DEF Arrive, EditStart, UploadStart, SftpWriteStart, SftpRenameStart, Begin, CheckList,
      CheckPass, CheckRefuse, CheckPanic, EditMkdir, EditSkip, EditRenameMkdir, SftpClose,
      Abandon, disk
<1>2. ASSUME NEW r \in Requests, EditOpen(r) \/ SftpOpen(r) PROVE Bounded'
  <2>1. req[r].path[2] \in OkNames
    BY <1>2 DEF EditOpen, SftpOpen, At, AllVetted, Vetted
  <2>2. OpenEmpty(r, req[r].path) \/ UNCHANGED <<files, len>>
    BY <1>2 DEF EditOpen, SftpOpen, disk
  <2> QED BY <1>a, <1>b, <2>1, <2>2
<1>3. ASSUME NEW r \in Requests, UploadOpen(r) PROVE Bounded'
  <2>1. req[r].path[2] \in OkNames
    BY <1>3 DEF UploadOpen, At, AllVetted, Vetted
  <2> QED BY <1>3, <2>1 DEF UploadOpen, disk
<1>4. ASSUME NEW r \in Requests, EditFill(r) \/ UploadCopy(r) PROVE Bounded'
  <2>1. req[r].bytes <= MaxFileBytes /\ req[r].bytes \in Nat
    BY <1>4 DEF EditFill, UploadCopy, At, AllVetted, Vetted, TypeOK, Request
  <2> QED BY <1>4, <1>c, <2>1 DEF EditFill, UploadCopy
<1>5. ASSUME NEW r \in Requests, NEW n \in Sizes, SftpPut(r, n) PROVE Bounded'
  <2>1. EnableSFTP
    BY <1>5 DEF SftpPut, At, AllVetted, Vetted, InFlight, Resting
  <2> QED BY <1>5, <1>c, <2>1 DEF SftpPut
<1>6. ASSUME NEW r \in Requests, EditRenameTo(r) \/ SftpMove(r) PROVE Bounded'
  <2>1. req[r].new[2] \in OkNames /\ req[r].path \in Paths /\ req[r].new \in Paths
    BY <1>6 DEF EditRenameTo, SftpMove, At, AllVetted, Vetted, CarriesPaths, Carries, InFlight,
                Resting
  <2>2. Rename(req[r].path, req[r].new) \/ UNCHANGED <<files, len>>
    BY <1>6 DEF EditRenameTo, SftpMove, disk
  <2> QED BY <1>a, <1>d, <2>1, <2>2
<1>7. ASSUME NEW p \in Paths, DeleteFile(p) PROVE Bounded'
  BY <1>7 DEF DeleteFile, TypeOK
<1>8. ASSUME NEW d \in Folders, DeleteFolder(d) \/ SftpMkdir(d) PROVE Bounded'
  BY <1>a, <1>8 DEF DeleteFolder, SftpMkdir
<1>9. CASE UNCHANGED vars
  BY <1>a, <1>9 DEF vars
<1> QED
  BY <1>1, <1>2, <1>3, <1>4, <1>5, <1>6, <1>7, <1>8, <1>9 DEF Next, Work

-------------------------------------------------------------------------------
(***************************************************************************)
(* What dirSize adds up.  A call changes the length of one file, or of two *)
(* one after the other; a file that is not there has no bytes.             *)
(***************************************************************************)
FileBytes(p, n) == {p} \X (1 .. n)

BytesOf(P, l) == UNION {FileBytes(p, l[p]) : p \in P}

AddsUp(l, u) ==
    /\ IsFiniteSet(BytesOf(Paths, l))
    /\ u = Cardinality(BytesOf(Paths, l))

\* A file has as many bytes as its length says.
LEMMA BytesOfOne ==
    ASSUME NEW p, NEW n \in Nat
    PROVE  IsFiniteSet(FileBytes(p, n)) /\ Cardinality(FileBytes(p, n)) = n
<1>1. IsFiniteSet({p}) /\ Cardinality({p}) = 1
  BY FS_Singleton
<1>2. IsFiniteSet(1 .. n) /\ Cardinality(1 .. n) = n
  BY FS_Interval
<1>3. /\ IsFiniteSet({p} \X (1 .. n))
      /\ Cardinality({p} \X (1 .. n)) = Cardinality({p}) * Cardinality(1 .. n)
  BY <1>1, <1>2, FS_Product
<1> QED BY <1>1, <1>2, <1>3 DEF FileBytes

\* One file gets another length.
LEMMA OneLengthChanges ==
    ASSUME NEW l \in [Paths -> Nat], NEW u, AddsUp(l, u), NEW p \in Paths, NEW n \in Nat
    PROVE  AddsUp([l EXCEPT ![p] = n], u - l[p] + n)
<1> DEFINE m == [l EXCEPT ![p] = n]
           B == BytesOf(Paths, l)
           old == FileBytes(p, l[p])
           new == FileBytes(p, n)
<1>1. l[p] \in Nat /\ m[p] = n /\ \A q \in Paths \ {p} : m[q] = l[q]
  OBVIOUS
<1>2. /\ IsFiniteSet(old) /\ Cardinality(old) = l[p]
      /\ IsFiniteSet(new) /\ Cardinality(new) = n
  BY <1>1, BytesOfOne
<1>3. \A q, i, k : i \in FileBytes(q, k) => i[1] = q
  BY DEF FileBytes
<1>4. B \cap old = old
  BY DEF BytesOf
<1>5. (B \ old) \cap new = {}
  <2> SUFFICES ASSUME NEW x \in B, x \notin old, x \in new PROVE FALSE
    OBVIOUS
  <2>1. PICK q \in Paths : x \in FileBytes(q, l[q])
    BY DEF BytesOf
  <2>2. q = p
    BY <1>3, <2>1
  <2> QED BY <2>1, <2>2
<1>6. BytesOf(Paths, m) = (B \ old) \cup new
  <2>1. ASSUME NEW x \in BytesOf(Paths, m) PROVE x \in (B \ old) \cup new
    <3>1. PICK q \in Paths : x \in FileBytes(q, m[q])
      BY <2>1 DEF BytesOf
    <3>2. CASE q = p
      BY <1>1, <3>1, <3>2
    <3>3. CASE q # p
      <4>1. x \in B
        BY <1>1, <3>1, <3>3 DEF BytesOf
      <4>2. x \notin old
        BY <1>3, <3>1, <3>3
      <4> QED BY <4>1, <4>2
    <3> QED BY <3>2, <3>3
  <2>2. ASSUME NEW x \in B, x \notin old PROVE x \in BytesOf(Paths, m)
    <3>1. PICK q \in Paths : x \in FileBytes(q, l[q])
      BY <2>2 DEF BytesOf
    <3>2. q # p
      BY <2>2, <3>1
    <3> QED BY <1>1, <3>1, <3>2 DEF BytesOf
  <2>3. new \subseteq BytesOf(Paths, m)
    BY <1>1 DEF BytesOf
  <2> QED BY <2>1, <2>2, <2>3
<1>7. IsFiniteSet(B) /\ u = Cardinality(B) /\ Cardinality(B) \in Nat
  BY FS_CardinalityType DEF AddsUp
<1> HIDE DEF B, old, new, m
<1>8. IsFiniteSet(B \ old) /\ Cardinality(B \ old) = u - l[p]
  <2>1. IsFiniteSet(B \ old) /\ Cardinality(B \ old) = Cardinality(B) - Cardinality(B \cap old)
    BY <1>7, FS_Difference
  <2> QED BY <1>2, <1>4, <1>7, <2>1
<1>9. /\ IsFiniteSet((B \ old) \cup new)
      /\ Cardinality((B \ old) \cup new)
           = Cardinality(B \ old) + Cardinality(new) - Cardinality((B \ old) \cap new)
  BY <1>2, <1>8, FS_Union
<1>10. Cardinality((B \ old) \cup new) = u - l[p] + n
  <2>1. Cardinality((B \ old) \cap new) = 0
    BY <1>5, FS_EmptySet
  <2> QED BY <1>1, <1>2, <1>7, <1>8, <1>9, <2>1
<1>11. AddsUp(m, u - l[p] + n)
  BY <1>6, <1>9, <1>10 DEF AddsUp
<1> QED BY <1>11 DEF m

\* The size is that of all files there may be; its bytes can be counted.
Summed == AddsUp(len, Size)

LEMMA BytesAreAll == TypeOK => Bytes = BytesOf(Paths, len)
<1> SUFFICES ASSUME TypeOK PROVE Bytes = BytesOf(Paths, len)
  OBVIOUS
<1>1. \A p \in Paths \ files : FileBytes(p, len[p]) = {}
  BY DEF TypeOK, FileBytes
<1>2. files \subseteq Paths
  BY DEF TypeOK
<1>3. Bytes = BytesOf(files, len)
  BY DEF Bytes, BytesOf, FileBytes
<1> QED BY <1>1, <1>2, <1>3 DEF BytesOf

LEMMA SizeIsNat == Summed => Size \in Nat
BY FS_CardinalityType DEF Summed, AddsUp

\* What the lengths become decides what the size becomes.
LEMMA SizeFollows ==
    ASSUME TypeOK', NEW u, AddsUp(len', u)
    PROVE  Summed' /\ Size' = u
<1>1. (TypeOK => Bytes = BytesOf(Paths, len))'
  BY BytesAreAll, PTL
<1> QED BY <1>1 DEF Size, Summed, AddsUp

\* The files of a folder have as many bytes under its new name.
LEMMA FolderSize ==
    ASSUME TypeOK, TypeOK', Summed, NEW d \in Folders, NEW e \in Folders, d # e, MoveFolder(d, e)
    PROVE  Summed' /\ Size' <= Size
<1> DEFINE B == BytesOf(Paths, len)
           f == [b \in B |-> <<Carried(b[1], d, e), b[2]>>]
           T == {f[b] : b \in B}
           C == BytesOf(Paths, len')
<1>1. ASSUME NEW x \in C PROVE x \in T
  <2>0. PICK p \in Paths : x \in FileBytes(p, len'[p])
    BY <1>1 DEF BytesOf
  <2>1. PICK i \in 1 .. len'[p] : x = <<p, i>>
    BY <2>0 DEF FileBytes
  <2>2. ASSUME NEW g \in Paths, i \in 1 .. len[g], Carried(g, d, e) = p PROVE x \in T
    <3>1. <<g, i>> \in B
      BY <2>2 DEF BytesOf, FileBytes
    <3> QED BY <2>1, <2>2, <3>1
  <2>3. CASE Folder[p] = e
    <3>1. len'[p] = len[<<d, p[2]>>]
      BY <2>3 DEF MoveFolder
    <3>2. <<d, p[2]>> \in Paths /\ Carried(<<d, p[2]>>, d, e) = p
      BY <2>3, CarriedFrom
    <3> QED BY <2>1, <2>2, <3>1, <3>2
  <2>4. CASE Folder[p] = d
    <3>1. len'[p] = 0
      BY <2>4 DEF MoveFolder
    <3> QED BY <2>1, <3>1
  <2>5. CASE Folder[p] # d /\ Folder[p] # e
    <3>1. len'[p] = len[p]
      BY <2>5 DEF MoveFolder
    <3>2. Carried(p, d, e) = p
      BY <2>5, CarriedFacts
    <3> QED BY <2>1, <2>2, <3>1, <3>2
  <2> QED BY <2>3, <2>4, <2>5
<1>2. IsFiniteSet(B) /\ Size = Cardinality(B)
  BY DEF Summed, AddsUp
<1>3. f \in Surjection(B, T)
  BY DEF Surjection
<1> HIDE DEF B, f, T, C
<1>4. IsFiniteSet(T) /\ Cardinality(T) <= Cardinality(B)
  BY <1>2, <1>3, FS_Surjection
<1>5. IsFiniteSet(C) /\ Cardinality(C) <= Cardinality(T)
  BY <1>1, <1>4, FS_Subset
<1>6. Cardinality(C) <= Size
  BY <1>2, <1>4, <1>5, FS_CardinalityType
<1>7. AddsUp(len', Cardinality(C))
  BY <1>5 DEF AddsUp, C
<1> QED BY <1>6, <1>7, SizeFollows

\* What each call does to the size.
LEMMA CallSizes ==
    ASSUME TypeOK, TypeOK', Summed
    PROVE  /\ len' = len => Summed' /\ Size' = Size
           /\ \A p \in Paths : len' = [len EXCEPT ![p] = 0] => Summed' /\ Size' <= Size
           /\ \A r \in Requests, n \in Nat : Put(r, n) => Summed' /\ Size' <= Size + n
           /\ \A p, q \in Paths : Rename(p, q) => Summed' /\ Size' <= Size
<1> USE UserFilesAssumption
<1>t. len \in [Paths -> Nat] /\ Size \in Nat
  BY SizeIsNat DEF TypeOK
<1>a. ASSUME len' = len PROVE Summed' /\ Size' = Size
  BY <1>a, SizeFollows DEF Summed
<1>b. ASSUME NEW p \in Paths, NEW n \in Nat, len' = [len EXCEPT ![p] = n]
      PROVE  Summed' /\ Size' = Size - len[p] + n
  <2>1. AddsUp([len EXCEPT ![p] = n], Size - len[p] + n)
    BY <1>t, OneLengthChanges DEF Summed
  <2> QED BY <1>b, <2>1, SizeFollows
<1>1. ASSUME NEW p \in Paths, len' = [len EXCEPT ![p] = 0] PROVE Summed' /\ Size' <= Size
  <2>1. Summed' /\ Size' = Size - len[p] + 0
    BY <1>1, <1>b
  <2>2. len[p] \in Nat
    BY <1>t
  <2> QED BY <1>t, <2>1, <2>2
<1>2. ASSUME NEW r \in Requests, NEW n \in Nat, Put(r, n) PROVE Summed' /\ Size' <= Size + n
  <2>1. CASE fd[r] = NoPath
    BY <1>2, <1>a, <1>t, <2>1 DEF Put
  <2>2. CASE fd[r] # NoPath
    <3>1. fd[r] \in Paths /\ len[fd[r]] \in Nat
      BY <2>2 DEF TypeOK
    <3>2. /\ Longer(len[fd[r]], n) \in Nat
          /\ Longer(len[fd[r]], n) <= len[fd[r]] + n
      BY <3>1, LongerFacts
    <3>3. len' = [len EXCEPT ![fd[r]] = Longer(len[fd[r]], n)]
      BY <1>2, <1>t, <2>2, <3>1 DEF Put
    <3>4. Summed' /\ Size' = Size - len[fd[r]] + Longer(len[fd[r]], n)
      BY <1>b, <3>1, <3>2, <3>3
    <3> QED BY <1>t, <3>1, <3>2, <3>4
  <2> QED BY <2>1, <2>2
<1>3. ASSUME NEW p \in Paths, NEW q \in Paths, p \in files, Move(p, q)
      PROVE  Summed' /\ Size' <= Size
  <2> DEFINE l == [len EXCEPT ![q] = len[p]]
             v == Size - len[q] + len[p]
  <2>1. len[p] \in Nat /\ len[q] \in Nat
    BY <1>t
  <2>2. AddsUp(l, v) /\ l \in [Paths -> Nat] /\ l[p] = len[p]
    BY <1>t, <2>1, OneLengthChanges DEF Summed
  <2>3. len' = [l EXCEPT ![p] = 0]
    BY <1>3 DEF Move
  <2>4. v - l[p] + 0 <= Size
    BY <1>t, <2>1, <2>2
  <2> HIDE DEF l, v
  <2>5. AddsUp([l EXCEPT ![p] = 0], v - l[p] + 0)
    BY <2>2, OneLengthChanges
  <2> QED BY <2>3, <2>4, <2>5, SizeFollows
<1>4. ASSUME NEW p \in Paths, NEW q \in Paths, Rename(p, q) PROVE Summed' /\ Size' <= Size
  <2>1. CASE p \in files /\ CanOpen(q) /\ Move(p, q)
    BY <1>3, <2>1
  <2>2. CASE CanMoveFolder(p, q) /\ MoveFolder(p[2], q[2])
    BY <2>2, MovedFolder, FolderSize
  <2>3. CASE UNCHANGED <<disk, fd>>
    BY <1>a, <1>t, <2>3 DEF disk
  <2> QED BY <1>4, <2>1, <2>2, <2>3 DEF Rename
<1> QED BY <1>a, <1>1, <1>2, <1>4

LEMMA InitSummed == Init => Summed
<1> SUFFICES ASSUME Init PROVE Summed
  OBVIOUS
<1> DEFINE none == [p \in Paths |-> 0]
<1>1. AddsUp(none, 0)
  <2>1. \A p \in Paths : FileBytes(p, none[p]) = {}
    BY DEF FileBytes
  <2>2. BytesOf(Paths, none) = {}
    BY <2>1 DEF BytesOf
  <2> QED BY <2>2, FS_EmptySet DEF AddsUp
<1>2. none \in [Paths -> Nat] /\ none[Index] = 0 /\ Index \in Paths /\ WelcomeBytes \in Nat
  BY UserFilesAssumption DEF Index, Paths
<1>3. len = [none EXCEPT ![Index] = WelcomeBytes]
  BY DEF Init
<1> HIDE DEF none
<1>4. AddsUp([none EXCEPT ![Index] = WelcomeBytes], 0 - none[Index] + WelcomeBytes)
  BY <1>1, <1>2, OneLengthChanges
<1>5. Bytes = BytesOf(Paths, len)
  BY InitTypeOK, BytesAreAll
<1> QED BY <1>3, <1>4, <1>5 DEF Summed, AddsUp, Size

LEMMA StepSummed == Typed /\ Typed' /\ Summed /\ [Next]_vars => Summed'
<1> SUFFICES ASSUME Typed, Typed', Summed, [Next]_vars PROVE Summed'
  OBVIOUS
<1>t. TypeOK /\ TypeOK' /\ CarriesPaths
  BY DEF Typed
<1>p. \A r \in Requests : InFlight(r) => req[r].path \in Paths /\ req[r].new \in Paths
  BY <1>t DEF CarriesPaths, Carries
<1>a. ASSUME len' = len PROVE Summed'
  BY <1>a, <1>t, CallSizes
<1>1. ASSUME NEW r \in Requests,
             \/ Arrive(r)
             \/ CheckList(r) \/ CheckPass(r) \/ CheckRefuse(r) \/ CheckPanic(r)
             \/ EditMkdir(r) \/ EditSkip(r) \/ EditRenameMkdir(r) \/ UploadOpen(r)
             \/ SftpClose(r) \/ Abandon(r)
      PROVE  Summed'
  BY <1>a, <1>1
  DEF Arrive, EditStart, UploadStart, SftpWriteStart, SftpRenameStart, Begin, CheckList,
      CheckPass, CheckRefuse, CheckPanic, EditMkdir, EditSkip, EditRenameMkdir, UploadOpen,
      SftpClose, Abandon, disk
<1>2. ASSUME NEW r \in Requests, EditOpen(r) \/ SftpOpen(r) PROVE Summed'
  <2>1. req[r].path \in Paths
    BY <1>2, <1>p DEF EditOpen, SftpOpen, At, InFlight, Resting
  <2>2. len' = [len EXCEPT ![req[r].path] = 0] \/ len' = len
    BY <1>2 DEF EditOpen, SftpOpen, OpenEmpty, disk
  <2> QED BY <1>a, <1>t, <2>1, <2>2, CallSizes
<1>3. ASSUME NEW r \in Requests, EditFill(r) \/ UploadCopy(r) PROVE Summed'
  <2>1. req[r].bytes \in Nat
    BY <1>t DEF TypeOK, Request
  <2> QED BY <1>3, <1>t, <2>1, CallSizes DEF EditFill, UploadCopy
<1>4. ASSUME NEW r \in Requests, NEW n \in Sizes, SftpPut(r, n) PROVE Summed'
  BY <1>4, <1>t, CallSizes, UserFilesAssumption DEF SftpPut
<1>5. ASSUME NEW r \in Requests, EditRenameTo(r) \/ SftpMove(r) PROVE Summed'
  <2>1. req[r].path \in Paths /\ req[r].new \in Paths
    BY <1>5, <1>p DEF EditRenameTo, SftpMove, At, InFlight, Resting
  <2>2. Rename(req[r].path, req[r].new) \/ len' = len
    BY <1>5 DEF EditRenameTo, SftpMove, disk
  <2> QED BY <1>a, <1>t, <2>1, <2>2, CallSizes
<1>6. ASSUME NEW p \in Paths, DeleteFile(p) PROVE Summed'
  BY <1>6, <1>t, CallSizes DEF DeleteFile
<1>7. ASSUME NEW d \in Folders, DeleteFolder(d) \/ SftpMkdir(d) PROVE Summed'
  BY <1>a, <1>7 DEF DeleteFolder, SftpMkdir
<1>8. CASE UNCHANGED vars
  BY <1>a, <1>8 DEF vars
<1> QED BY <1>1, <1>2, <1>3, <1>4, <1>5, <1>6, <1>7, <1>8 DEF Next, Work

-------------------------------------------------------------------------------
(***************************************************************************)
(* The quota.  A request is pending from the check that passed to the      *)
(* write the check was for.  With k pending, one of them still fits within *)
(* MaxUserBytes and MaxFileBytes for each request that is not pending.     *)
(***************************************************************************)
Pends(r) == req[r].at \in {"fill", "store", "copy"} \/ (At(r, "save") /\ req[r].text)

Pending == {r \in Requests : Pends(r)}

Slack(k) == MaxUserBytes + (Cardinality(Requests) - k) * MaxFileBytes

Room ==
    ~EnableSFTP =>
        IF Pending = {}
        THEN Size <= Slack(1)
        ELSE \E r \in Pending : Size + req[r].bytes <= Slack(Cardinality(Pending))

LEMMA SlackFacts ==
    ASSUME NEW k \in 1 .. Cardinality(Requests)
    PROVE  /\ Slack(k) \in Int /\ Slack(k - 1) \in Int
           /\ MaxUserBytes <= Slack(k) /\ Slack(k) <= Slack(1)
           /\ Slack(k - 1) = Slack(k) + MaxFileBytes
<1> DEFINE N == Cardinality(Requests)
<1>1. N \in Nat /\ MaxFileBytes \in Nat /\ MaxUserBytes \in Nat
  BY FS_CardinalityType, UserFilesAssumption
<1> HIDE DEF N
<1>2. \A i, j, m \in Nat : i <= j => i * m <= j * m
  <2>1. \A d, m \in Nat : d * m >= 0
    OBVIOUS
  <2>2. ASSUME NEW i \in Nat, NEW j \in Nat, NEW m \in Nat, i <= j PROVE i * m <= j * m
    <3>1. (j - i) * m >= 0
      BY <2>1, <2>2
    <3>2. (j - i) * m = j * m - i * m
      OBVIOUS
    <3> QED BY <3>1, <3>2
  <2> QED BY <2>2
<1>3. k \in Nat /\ k >= 1 /\ k <= N
  BY DEF N
<1>4. 0 * MaxFileBytes <= (N - k) * MaxFileBytes
  BY <1>1, <1>2, <1>3
<1>5. (N - k) * MaxFileBytes <= (N - 1) * MaxFileBytes
  BY <1>1, <1>2, <1>3
<1>6. (N - (k - 1)) * MaxFileBytes = (N - k) * MaxFileBytes + MaxFileBytes
  BY <1>1, <1>3
<1>7. \A i, m \in Int : i * m \in Int
  OBVIOUS
<1> QED
  BY <1>1, <1>3, <1>4, <1>5, <1>6, <1>7 DEF Slack, N

LEMMA PendingFacts ==
    /\ IsFiniteSet(Pending)
    /\ Pending # {} => Cardinality(Pending) \in 1 .. Cardinality(Requests)
    /\ Cardinality(Pending) = 0 => Pending = {}
<1>1. IsFiniteSet(Requests) /\ Pending \subseteq Requests
  BY UserFilesAssumption DEF Pending
<1>2. IsFiniteSet(Pending) /\ Cardinality(Pending) <= Cardinality(Requests)
  BY <1>1, FS_Subset
<1>3. Cardinality(Pending) \in Nat /\ Cardinality(Requests) \in Nat
  BY <1>1, <1>2, FS_CardinalityType
<1>4. Cardinality(Pending) = 0 <=> Pending = {}
  BY <1>2, FS_EmptySet
<1> QED BY <1>2, <1>3, <1>4

LEMMA RoomBounds ==
    Typed /\ Summed /\ Room => QuotaBound
<1> SUFFICES ASSUME Typed, Summed, Room, ~EnableSFTP PROVE Size <= Slack(1)
  BY DEF QuotaBound, Slack
<1>1. CASE Pending = {}
  BY <1>1 DEF Room
<1>2. CASE Pending # {}
  <2>1. PICK r \in Pending : Size + req[r].bytes <= Slack(Cardinality(Pending))
    BY <1>2 DEF Room
  <2>2. req[r].bytes \in Nat /\ Size \in Int
    BY <2>1, SizeIsNat DEF Pending, Typed, TypeOK, Request
  <2>3. Slack(Cardinality(Pending)) \in Int /\ Slack(Cardinality(Pending)) <= Slack(1)
    BY <1>2, PendingFacts, SlackFacts
  <2>4. Slack(1) \in Int
    <3>1. 1 \in 1 .. Cardinality(Requests)
      BY <1>2, PendingFacts, FS_CardinalityType, UserFilesAssumption
    <3> QED BY <3>1, SlackFacts
  <2> QED BY <2>1, <2>2, <2>3, <2>4
<1> QED BY <1>1, <1>2

\* A request comes to its write with a check that holds now; does its write or gives it up;
\* or goes on without using more.
Enters(r) == Pends(r)' /\ Size' + req'[r].bytes <= MaxUserBytes

Leaves(r) == ~Pends(r)' /\ Size' <= Size + (IF Pends(r) THEN req[r].bytes ELSE 0)

Stays(r) == Pends(r) /\ Pends(r)' /\ Size' <= Size /\ req'[r].bytes = req[r].bytes

LEMMA StepRoom ==
    ASSUME Typed, Typed', Summed, Summed', AllVetted, Room, NEW r \in Requests,
           \A s \in Requests \ {r} : req'[s] = req[s],
           ~EnableSFTP => Enters(r) \/ Leaves(r) \/ Stays(r)
    PROVE  Room'
<1> SUFFICES ASSUME ~EnableSFTP
             PROVE  IF Pending' = {}
                    THEN Size' <= Slack(1)
                    ELSE \E s \in Pending' : Size' + req'[s].bytes <= Slack(Cardinality(Pending'))
  BY DEF Room, Slack
<1> DEFINE N == Cardinality(Requests)
           k == Cardinality(Pending)
           m == Cardinality(Pending')
<1>1. /\ IsFiniteSet(Pending) /\ IsFiniteSet(Pending')
      /\ Pending # {} => k \in 1 .. N
      /\ Pending' # {} => m \in 1 .. N
      /\ 1 \in 1 .. N
  <2>1. N \in Nat /\ N # 0
    BY UserFilesAssumption, FS_CardinalityType, FS_EmptySet
  <2>2. /\ IsFiniteSet(Pending)'
        /\ (Pending # {} => Cardinality(Pending) \in 1 .. Cardinality(Requests))'
    BY PendingFacts, PTL
  <2> QED BY <2>1, <2>2, PendingFacts
<1>2. /\ Size \in Int /\ Size' \in Int /\ MaxFileBytes \in Nat /\ MaxUserBytes \in Nat
      /\ \A s \in Requests : req[s].bytes \in Nat /\ req'[s].bytes \in Nat
  <2>1. Size \in Nat /\ (Size \in Nat)'
    BY SizeIsNat, PTL
  <2> QED BY <2>1, UserFilesAssumption DEF Typed, TypeOK, Request
<1>3. /\ Pending \ {r} = Pending' \ {r}
      /\ \A s \in Requests \ {r} : req'[s].bytes = req[s].bytes
      /\ r \in Pending <=> Pends(r)
      /\ r \in Pending' <=> Pends(r)'
  BY DEF Pending, Pends, At
<1>4. \A i \in 1 .. N : Slack(i) \in Int /\ MaxUserBytes <= Slack(i) /\ Slack(i) <= Slack(1)
  BY SlackFacts
<1>5. CASE Enters(r)
  <2>1. r \in Pending' /\ Size' + req'[r].bytes <= MaxUserBytes
    BY <1>3, <1>5 DEF Enters
  <2>2. MaxUserBytes <= Slack(m) /\ Slack(m) \in Int
    BY <1>1, <1>4, <2>1
  <2>3. Size' + req'[r].bytes <= Slack(m)
    BY <1>2, <2>1, <2>2
  <2> QED BY <2>1, <2>3
<1>6. CASE Stays(r)
  <2>1. Pending' = Pending /\ Pending # {} /\ Size' <= Size
        /\ \A s \in Requests : req'[s].bytes = req[s].bytes
    BY <1>3, <1>6 DEF Stays
  <2>2. PICK s \in Pending : Size + req[s].bytes <= Slack(k)
    BY <2>1 DEF Room
  <2>3. s \in Requests
    BY DEF Pending
  <2> QED BY <1>1, <1>2, <1>4, <2>1, <2>2, <2>3
<1>7. CASE Leaves(r)
  <2>1. CASE ~Pends(r)
    <3>1. Pending' = Pending /\ Size' <= Size /\ \A s \in Pending : req'[s].bytes = req[s].bytes
      BY <1>2, <1>3, <1>7, <2>1 DEF Leaves, Pending
    <3>2. CASE Pending = {}
      BY <1>1, <1>2, <1>4, <3>1, <3>2 DEF Room
    <3>3. CASE Pending # {}
      <4>1. PICK s \in Pending : Size + req[s].bytes <= Slack(k)
        BY <3>3 DEF Room
      <4>2. s \in Requests
        BY DEF Pending
      <4> QED BY <1>1, <1>2, <1>4, <3>1, <3>3, <4>1, <4>2
    <3> QED BY <3>2, <3>3
  <2>2. CASE Pends(r)
    <3>1. /\ r \in Pending /\ Pending' = Pending \ {r} /\ Size' <= Size + req[r].bytes
      BY <1>2, <1>3, <1>7, <2>2 DEF Leaves
    <3>2. m = k - 1 /\ k \in 1 .. N
      BY <1>1, <3>1, FS_RemoveElement
    <3>3. Slack(m) = Slack(k) + MaxFileBytes /\ Slack(m) \in Int
      BY <3>2, SlackFacts
    <3>4. PICK s \in Pending : Size + req[s].bytes <= Slack(k)
      BY <3>1 DEF Room
    <3>5. s \in Requests
      BY DEF Pending
    <3>6. \A t \in Pending : req[t].bytes <= MaxFileBytes
      BY DEF Pending, Pends, At, AllVetted, Vetted
    <3>7. r \in Requests /\ req[r].bytes <= MaxFileBytes
      BY <3>1, <3>6
    <3>8. CASE Pending' = {}
      <4>1. m = 0 /\ k = 1
        BY <3>2, <3>8, FS_EmptySet
      <4>2. s = r
        BY <3>1, <3>8
      <4> QED BY <1>1, <1>2, <1>4, <3>1, <3>4, <3>8, <4>1, <4>2
    <3>9. CASE Pending' # {} /\ s # r
      <4>1. s \in Pending' /\ req'[s].bytes = req[s].bytes
        BY <1>3, <3>1, <3>5, <3>9
      <4>2. Size' + req'[s].bytes <= Slack(m)
        BY <1>1, <1>2, <1>4, <3>1, <3>2, <3>3, <3>4, <3>5, <3>7, <4>1
      <4> QED BY <3>9, <4>1, <4>2
    <3>10. CASE Pending' # {} /\ s = r
      <4>1. PICK t \in Pending' : TRUE
        BY <3>10
      <4>2. t \in Pending /\ t \in Requests /\ req'[t].bytes = req[t].bytes
        BY <1>3, <3>1, <4>1 DEF Pending
      <4>3. Size' + req'[t].bytes <= Slack(m)
        BY <1>1, <1>2, <1>4, <3>1, <3>2, <3>3, <3>4, <3>6, <3>10, <4>2
      <4> QED BY <3>10, <4>1, <4>3
    <3> QED BY <3>8, <3>9, <3>10
  <2> QED BY <2>1, <2>2
<1> QED BY <1>5, <1>6, <1>7

LEMMA NextRoom ==
    Typed /\ Typed' /\ Summed /\ Summed' /\ AllVetted /\ Room /\ [Next]_vars => Room'
<1> SUFFICES ASSUME Typed, Typed', Summed, Summed', AllVetted, Room, [Next]_vars PROVE Room'
  OBVIOUS
<1> USE UserFilesAssumption
<1>a. Size \in Int /\ Size' \in Int /\ req \in [Requests -> Request] /\ len \in [Paths -> Nat]
  <2>1. Size \in Nat /\ (Size \in Nat)'
    BY SizeIsNat, PTL
  <2> QED BY <2>1 DEF Typed, TypeOK
<1>s. /\ len' = len => Size' = Size
      /\ \A p \in Paths : len' = [len EXCEPT ![p] = 0] => Size' <= Size
      /\ \A p, q \in Paths : Rename(p, q) => Size' <= Size
  BY CallSizes DEF Typed
<1>b. ASSUME NEW r \in Requests, \A s \in Requests \ {r} : req'[s] = req[s],
             ~EnableSFTP => Leaves(r)
      PROVE  Room'
  BY <1>b, StepRoom
\* A request that answers.
<1>c. ASSUME NEW r \in Requests, NEW outcome \in Resting, Reply(r, outcome),
             Size' <= Size + (IF Pends(r) THEN req[r].bytes ELSE 0)
      PROVE  Room'
  <2>1. /\ \A s \in Requests \ {r} : req'[s] = req[s]
        /\ req'[r].at \in Resting
    BY <1>a, <1>c DEF Reply, Idle
  <2>2. ~Pends(r)'
    BY <2>1 DEF Pends, At, Resting
  <2> QED BY <1>b, <1>c, <2>1, <2>2 DEF Leaves
\* A request that goes on, without having been pending.
<1>d. ASSUME NEW r \in Requests, NEW step, Goto(r, step)
      PROVE  /\ \A s \in Requests \ {r} : req'[s] = req[s]
             /\ req'[r].at = step /\ req'[r].bytes = req[r].bytes
             /\ req'[r].text = req[r].text
  BY <1>a, <1>d DEF Goto, Request
<1>e. ASSUME NEW r \in Requests, InFlight(r)
      PROVE  req[r].path \in Paths /\ req[r].new \in Paths /\ req[r].bytes \in Nat
  BY <1>a, <1>e DEF Typed, CarriesPaths, Carries, Request
\* A put adds at most what it is given.
<1>f. ASSUME NEW r \in Requests, NEW n \in Nat, Put(r, n) PROVE Size' <= Size + n
  BY <1>f, CallSizes DEF Typed
<1>1. ASSUME NEW r \in Requests, Arrive(r) PROVE Room'
  <2>1. ASSUME NEW p, NEW q, NEW then, NEW b, NEW text, Begin(r, then, p, q, b, text)
        PROVE  Room'
    <3>1. /\ \A s \in Requests \ {r} : req'[s] = req[s]
          /\ req'[r].at = "list" /\ ~Pends(r) /\ Size' = Size
      BY <1>a, <1>s, <2>1 DEF Begin, Idle, InFlight, Resting, Pends, At, disk
    <3>2. ~Pends(r)'
      BY <3>1 DEF Pends, At
    <3> QED BY <1>a, <1>b, <3>1, <3>2 DEF Leaves
  <2> QED BY <1>1, <2>1 DEF Arrive, EditStart, UploadStart, SftpWriteStart, SftpRenameStart
<1>2. ASSUME NEW r \in Requests, CheckList(r) PROVE Room'
  <2>1. /\ \A s \in Requests \ {r} : req'[s] = req[s]
        /\ req'[r].at = "measure" /\ ~Pends(r) /\ Size' = Size
    BY <1>a, <1>s, <1>2 DEF CheckList, At, Pends, disk
  <2>2. ~Pends(r)'
    BY <2>1 DEF Pends, At
  <2> QED BY <1>a, <1>b, <2>1, <2>2 DEF Leaves
<1>3. ASSUME NEW r \in Requests, CheckPass(r) PROVE Room'
  <2>1. Size' = Size /\ req[r].at = "measure" /\ ~Pends(r) /\ InFlight(r)
        /\ Size + CheckedBytes(r) <= MaxUserBytes
    BY <1>3, <1>s DEF CheckPass, HasRoom, At, Pends, InFlight, Resting, disk
  <2>2. CASE req[r].then = "reply"
    <3>1. PICK outcome \in Resting : Reply(r, outcome)
      BY <1>3, <2>2 DEF CheckPass, Resting
    <3> QED BY <1>a, <1>c, <2>1, <3>1
  <2>3. CASE req[r].then # "reply"
    <3>1. /\ \A s \in Requests \ {r} : req'[s] = req[s]
          /\ req'[r].at = req[r].then /\ req'[r].bytes = req[r].bytes
          /\ req[r].then \in Thens
      BY <1>3, <1>a, <2>1, <2>3 DEF CheckPass, Request, Typed, CarriesPaths, Carries
    <3>2. CASE Pends(r)'
      <4>1. req[r].then \in {"store", "save"}
        BY <3>1, <3>2 DEF Pends, At, Thens
      <4>2. Enters(r)
        BY <2>1, <3>1, <3>2, <4>1 DEF Enters, CheckedBytes
      <4> QED BY <3>1, <4>2, StepRoom
    <3>3. CASE ~Pends(r)'
      BY <1>a, <1>b, <2>1, <3>1, <3>3 DEF Leaves
    <3> QED BY <3>2, <3>3
  <2> QED BY <2>2, <2>3
<1>4. ASSUME NEW r \in Requests, CheckRefuse(r) PROVE Room'
  <2>1. Size' = Size /\ Reply(r, "refused") /\ ~Pends(r) /\ "refused" \in Resting
    BY <1>4, <1>s DEF CheckRefuse, At, Pends, Resting, disk
  <2> QED BY <1>a, <1>c, <2>1
<1>5. ASSUME NEW r \in Requests, CheckPanic(r) \/ Abandon(r) PROVE Room'
  <2>1. SUFFICES ASSUME ~EnableSFTP PROVE Room'
    BY DEF Room
  <2>2. CheckPanic(r) => req[r].then \notin {"open", "move"}
    BY <2>1 DEF CheckPanic, At, AllVetted, Vetted, InFlight, Resting
  <2>3. Size' = Size /\ req' = [req EXCEPT ![r] = Idle]
    BY <1>5, <1>s, <2>2 DEF CheckPanic, Abandon, disk
  <2>4. /\ \A s \in Requests \ {r} : req'[s] = req[s]
        /\ ~Pends(r)'
    BY <1>a, <2>3 DEF Idle, Pends, At
  <2>5. req[r].bytes \in Nat
    BY <1>a DEF Request
  <2> QED BY <1>a, <1>b, <2>3, <2>4, <2>5 DEF Leaves
<1>6. ASSUME NEW r \in Requests, EditMkdir(r) \/ EditRenameTo(r) PROVE Room'
  <2>1. /\ InFlight(r) /\ ~Pends(r)
        /\ \E then : CheckThen(r, then)
    BY <1>6 DEF EditMkdir, EditRenameTo, At, InFlight, Resting, Pends
  <2>2. /\ \A s \in Requests \ {r} : req'[s] = req[s]
        /\ req'[r].at = "list"
    BY <1>a, <2>1 DEF CheckThen
  <2>3. ~Pends(r)'
    BY <2>2 DEF Pends, At
  <2>4. Size' <= Size
    <3>1. len' = len \/ Rename(req[r].path, req[r].new)
      BY <1>6 DEF EditMkdir, EditRenameTo, disk
    <3> QED BY <1>a, <1>e, <1>s, <2>1, <3>1
  <2> QED BY <1>a, <1>b, <2>1, <2>2, <2>3, <2>4 DEF Leaves
<1>7. ASSUME NEW r \in Requests, EditOpen(r) PROVE Room'
  <2>1. InFlight(r) /\ Pends(r)
    BY <1>7 DEF EditOpen, At, InFlight, Resting, Pends
  <2>2. CASE CanOpen(req[r].path)
    <3>1. Goto(r, "fill") /\ len' = [len EXCEPT ![req[r].path] = 0]
      BY <1>7, <2>2 DEF EditOpen, OpenEmpty
    <3>2. /\ \A s \in Requests \ {r} : req'[s] = req[s]
          /\ req'[r].at = "fill" /\ req'[r].bytes = req[r].bytes
      BY <1>d, <3>1
    <3>3. Size' <= Size
      BY <1>a, <1>e, <1>s, <2>1, <3>1
    <3>4. Stays(r)
      BY <2>1, <3>2, <3>3 DEF Stays, Pends
    <3> QED BY <3>2, <3>4, StepRoom
  <2>3. CASE ~CanOpen(req[r].path)
    <3>1. /\ Size' = Size
          /\ \A s \in Requests \ {r} : req'[s] = req[s]
          /\ req'[r].at = "rename"
      BY <1>7, <1>a, <1>s, <2>3 DEF EditOpen, Request, disk
    <3>2. ~Pends(r)'
      BY <3>1 DEF Pends, At
    <3> QED BY <1>a, <1>b, <1>e, <2>1, <3>1, <3>2 DEF Leaves
  <2> QED BY <2>2, <2>3
<1>8. ASSUME NEW r \in Requests, EditSkip(r) \/ EditRenameMkdir(r) PROVE Room'
  <2>1. PICK step \in {"rename", "renameTo"} : Goto(r, step)
    BY <1>8 DEF EditSkip, EditRenameMkdir
  <2>2. Size' = Size /\ ~Pends(r)
    BY <1>8, <1>s DEF EditSkip, EditRenameMkdir, At, Pends, disk
  <2>3. ~Pends(r)' /\ \A s \in Requests \ {r} : req'[s] = req[s]
    BY <1>d, <2>1 DEF Pends, At
  <2> QED BY <1>a, <1>b, <2>2, <2>3 DEF Leaves
<1>9. ASSUME NEW r \in Requests, EditFill(r) PROVE Room'
  <2>1. InFlight(r) /\ Pends(r) /\ Goto(r, "rename") /\ Put(r, req[r].bytes)
    BY <1>9 DEF EditFill, At, InFlight, Resting, Pends
  <2>2. ~Pends(r)' /\ \A s \in Requests \ {r} : req'[s] = req[s]
    BY <1>d, <2>1 DEF Pends, At
  <2> QED BY <1>b, <1>e, <1>f, <2>1, <2>2 DEF Leaves
<1>10. ASSUME NEW r \in Requests, UploadOpen(r) PROVE Room'
  <2>1. InFlight(r) /\ Pends(r) /\ Size' = Size
    BY <1>10, <1>s DEF UploadOpen, At, InFlight, Resting, Pends, disk
  <2>2. CASE Goto(r, "copy")
    <3>1. /\ \A s \in Requests \ {r} : req'[s] = req[s]
          /\ req'[r].at = "copy" /\ req'[r].bytes = req[r].bytes
      BY <1>d, <2>2
    <3>2. Stays(r)
      BY <1>a, <2>1, <3>1 DEF Stays, Pends
    <3> QED BY <3>1, <3>2, StepRoom
  <2>3. CASE Reply(r, "refused")
    <3>1. "refused" \in Resting /\ req[r].bytes \in Nat
      BY <1>e, <2>1 DEF Resting
    <3>2. Size' <= Size + (IF Pends(r) THEN req[r].bytes ELSE 0)
      BY <1>a, <2>1, <3>1
    <3> QED BY <1>c, <2>3, <3>1, <3>2
  <2> QED BY <1>10, <2>2, <2>3 DEF UploadOpen
<1>11. ASSUME NEW r \in Requests, UploadCopy(r) PROVE Room'
  <2>1. InFlight(r) /\ Pends(r) /\ Reply(r, "saved") /\ Put(r, req[r].bytes)
        /\ "saved" \in Resting
    BY <1>11 DEF UploadCopy, At, InFlight, Resting, Pends
  <2> QED BY <1>c, <1>e, <1>f, <2>1
<1>12. ASSUME NEW r \in Requests,
              SftpOpen(r) \/ (\E n \in Sizes : SftpPut(r, n)) \/ SftpClose(r) \/ SftpMove(r)
       PROVE  Room'
  BY <1>12
  DEF SftpOpen, SftpPut, SftpClose, SftpMove, At, AllVetted, Vetted, InFlight, Resting, Room
<1>13. ASSUME req' = req, Size' <= Size PROVE Room'
  <2>1. PICK r \in Requests : TRUE
    OBVIOUS
  <2>2. Stays(r) \/ Leaves(r)
    BY <1>13, <1>a, <2>1 DEF Stays, Leaves, Pends, At
  <2> QED BY <1>13, <2>1, <2>2, StepRoom
<1>14. ASSUME NEW p \in Paths, DeleteFile(p) PROVE Room'
  BY <1>14, <1>13, <1>s DEF DeleteFile
<1>15. ASSUME NEW d \in Folders, DeleteFolder(d) \/ SftpMkdir(d) PROVE Room'
  BY <1>15, <1>13, <1>a, <1>s DEF DeleteFolder, SftpMkdir
<1>16. CASE UNCHANGED vars
  BY <1>16, <1>13, <1>a, <1>s DEF vars
<1> QED
  BY <1>1, <1>2, <1>3, <1>4, <1>5, <1>6, <1>7, <1>8, <1>9, <1>10, <1>11, <1>12, <1>14, <1>15,
     <1>16 DEF Next, Work

-------------------------------------------------------------------------------
\* The inductive invariant.
IInv == Typed /\ AllVetted /\ Bounded /\ Summed /\ Room

LEMMA InitIInv == Init => IInv
<1> SUFFICES ASSUME Init PROVE AllVetted /\ Bounded /\ Room
  BY InitTypeOK, InitSummed DEF IInv, Typed
<1> USE UserFilesAssumption DEF Init
<1>1. \A r \in Requests : req[r].at = "idle"
  BY DEF Idle
<1>2. AllVetted
  BY <1>1 DEF AllVetted, Vetted, At, InFlight, Resting
<1>3. Bounded
  BY DEF Bounded, OnlyOkExtensions, FilesWithinLimit, Index
<1>4. Room
  <2>1. Pending = {}
    BY <1>1 DEF Pending, Pends, At
  <2>2. 1 \in 1 .. Cardinality(Requests)
    BY FS_CardinalityType, FS_EmptySet
  <2>3. MaxUserBytes <= Slack(1) /\ Slack(1) \in Int
    BY <2>2, SlackFacts
  <2>4. Size = WelcomeBytes
    <3>1. Bytes = FileBytes(Index, WelcomeBytes)
      BY DEF Bytes, FileBytes, Index, Paths
    <3> QED BY <3>1, BytesOfOne DEF Size
  <2> QED BY <2>1, <2>3, <2>4 DEF Room
<1> QED BY <1>2, <1>3, <1>4

LEMMA StepIInv == IInv /\ [Next]_vars => IInv'
BY StepTypeOK, StepVetted, StepBounded, StepSummed, NextRoom DEF IInv, Typed

\* The invariant holds whatever requests run in whatever order.
THEOREM Invariance == Spec => []IInv
BY InitIInv, StepIInv, PTL DEF Spec

(***************************************************************************)
(* With n requests in flight, the web forms exceed the quota by at most    *)
(* n - 1 files of the greatest length.                                     *)
(***************************************************************************)
THEOREM QuotaIsBounded == Spec => []QuotaBound
<1>1. IInv => QuotaBound
  BY RoomBounds DEF IInv
<1> QED BY <1>1, Invariance, PTL

\* The web forms leave no file longer than MaxFileBytes.
THEOREM FilesAreWithinLimit == Spec => []FilesWithinLimit
<1>1. IInv => FilesWithinLimit
  BY DEF IInv, Bounded
<1> QED BY <1>1, Invariance, PTL

\* No file has an extension checkIfValidFile refuses, SFTP included.
THEOREM ExtensionsAreOk == Spec => []OnlyOkExtensions
<1>1. IInv => OnlyOkExtensions
  BY DEF IInv, Bounded
<1> QED BY <1>1, Invariance, PTL

-------------------------------------------------------------------------------
(***************************************************************************)
(* The number of entries.  What a request may still add without another    *)
(* check: the file it saves or stores, or the folder of its new name, or   *)
(* both.  What it is going to add counts as if it were there.              *)
(***************************************************************************)
Entries == TopLevel(files \cup folders)

SawRoom(r) == At(r, "measure") /\ Cardinality(TopLevel(req[r].seen)) < MaxFilesPerUser

MayAdd(r) ==
    \/ req[r].at \in {"mkdir", "save", "store", "fill", "rename"}
    \/ At(r, "renameTo") /\ Folder[req[r].new] = Root
    \/ SawRoom(r)

MayAddTwo(r) == At(r, "save") \/ SawRoom(r)

Adders == {r \in Requests : MayAdd(r)}
TwoAdders == {r \in Requests : MayAddTwo(r)}

Crowded ==
    ~EnableSFTP =>
        /\ IsFiniteSet(Entries)
        /\ Cardinality(Entries) + Cardinality(Adders) + Cardinality(TwoAdders)
             <= MaxFilesPerUser - 1 + 2 * Cardinality(Requests)

\* A finite set with an element more, or less.
LEMMA OneMoreOrLess ==
    ASSUME NEW S, IsFiniteSet(S), NEW x
    PROVE  /\ Cardinality(S) \in Nat
           /\ IsFiniteSet(S \cup {x}) /\ Cardinality(S \cup {x}) \in Nat
           /\ Cardinality(S \cup {x}) <= Cardinality(S) + 1
           /\ IsFiniteSet(S \ {x})
           /\ x \in S => Cardinality(S \ {x}) = Cardinality(S) - 1
           /\ Cardinality(S \ {x}) <= Cardinality(S)
<1>1. Cardinality(S) \in Nat
  BY FS_CardinalityType
<1>2. /\ IsFiniteSet(S \cup {x})
      /\ Cardinality(S \cup {x}) = IF x \in S THEN Cardinality(S) ELSE Cardinality(S) + 1
  BY FS_AddElement
<1>3. /\ IsFiniteSet(S \ {x})
      /\ Cardinality(S \ {x}) = IF x \in S THEN Cardinality(S) - 1 ELSE Cardinality(S)
  BY FS_RemoveElement
<1> QED BY <1>1, <1>2, <1>3

\* The numbers of entries and of requests are numbers.
LEMMA AdderFacts ==
    /\ IsFiniteSet(Adders) /\ IsFiniteSet(TwoAdders)
    /\ Cardinality(Adders) \in Nat /\ Cardinality(TwoAdders) \in Nat
    /\ Cardinality(Requests) \in Nat \ {0}
    /\ Cardinality(Adders) <= Cardinality(Requests)
    /\ Cardinality(TwoAdders) <= Cardinality(Requests)
<1>1. Adders \in SUBSET Requests /\ TwoAdders \in SUBSET Requests
  BY DEF Adders, TwoAdders
<1>2. IsFiniteSet(Requests) /\ Requests # {}
  BY UserFilesAssumption
<1>3. IsFiniteSet(Adders) /\ IsFiniteSet(TwoAdders)
  BY <1>1, <1>2, FS_Subset
<1> QED BY <1>1, <1>2, <1>3, FS_Subset, FS_CardinalityType, FS_EmptySet

\* Nothing is added, and nobody may add more than before.
LEMMA NothingAdded ==
    ASSUME Crowded, Entries' \subseteq Entries,
           \A r \in Requests : (MayAdd(r)' => MayAdd(r)) /\ (MayAddTwo(r)' => MayAddTwo(r))
    PROVE  Crowded'
<1> SUFFICES ASSUME ~EnableSFTP
             PROVE  /\ IsFiniteSet(Entries')
                    /\ Cardinality(Entries') + Cardinality(Adders') + Cardinality(TwoAdders')
                         <= MaxFilesPerUser - 1 + 2 * Cardinality(Requests)
  BY DEF Crowded
<1>1. Adders' \in SUBSET Adders /\ TwoAdders' \in SUBSET TwoAdders
  BY DEF Adders, TwoAdders
<1>2. /\ IsFiniteSet(Entries)
      /\ Cardinality(Entries) + Cardinality(Adders) + Cardinality(TwoAdders)
           <= MaxFilesPerUser - 1 + 2 * Cardinality(Requests)
  BY DEF Crowded
<1>3. /\ IsFiniteSet(Entries') /\ Cardinality(Entries') <= Cardinality(Entries)
      /\ Cardinality(Entries) \in Nat /\ Cardinality(Entries') \in Nat
  BY <1>2, FS_Subset, FS_CardinalityType
<1>4. /\ Cardinality(Adders') <= Cardinality(Adders) /\ Cardinality(Adders') \in Nat
      /\ Cardinality(TwoAdders') <= Cardinality(TwoAdders) /\ Cardinality(TwoAdders') \in Nat
  BY <1>1, AdderFacts, FS_Subset, FS_CardinalityType
<1> QED BY <1>2, <1>3, <1>4, AdderFacts, UserFilesAssumption

\* One entry is added by a request that then may add one less.
LEMMA OneAdded ==
    ASSUME Crowded, NEW x, Entries' \subseteq Entries \cup {x}, NEW r \in Requests, MayAdd(r),
           \A s \in Requests \ {r} : (MayAdd(s)' => MayAdd(s)) /\ (MayAddTwo(s)' => MayAddTwo(s)),
           ~MayAddTwo(r)', MayAddTwo(r) \/ ~MayAdd(r)'
    PROVE  Crowded'
<1> SUFFICES ASSUME ~EnableSFTP
             PROVE  /\ IsFiniteSet(Entries')
                    /\ Cardinality(Entries') + Cardinality(Adders') + Cardinality(TwoAdders')
                         <= MaxFilesPerUser - 1 + 2 * Cardinality(Requests)
  BY DEF Crowded
<1>1. Adders' \in SUBSET Adders /\ TwoAdders' \in SUBSET (TwoAdders \ {r})
  BY DEF Adders, TwoAdders
<1>2. /\ IsFiniteSet(Entries)
      /\ Cardinality(Entries) + Cardinality(Adders) + Cardinality(TwoAdders)
           <= MaxFilesPerUser - 1 + 2 * Cardinality(Requests)
  BY DEF Crowded
<1>3. /\ IsFiniteSet(Entries') /\ Cardinality(Entries') <= Cardinality(Entries) + 1
      /\ Cardinality(Entries) \in Nat /\ Cardinality(Entries') \in Nat
  <2>1. /\ IsFiniteSet(Entries \cup {x}) /\ Cardinality(Entries) \in Nat
        /\ Cardinality(Entries \cup {x}) <= Cardinality(Entries) + 1
        /\ Cardinality(Entries \cup {x}) \in Nat
    BY <1>2, OneMoreOrLess
  <2>2. /\ IsFiniteSet(Entries') /\ Cardinality(Entries') <= Cardinality(Entries \cup {x})
        /\ Cardinality(Entries') \in Nat
    BY <2>1, FS_Subset, FS_CardinalityType
  <2> QED BY <2>1, <2>2
<1>4. /\ IsFiniteSet(Adders \ {r}) /\ Cardinality(Adders \ {r}) = Cardinality(Adders) - 1
      /\ IsFiniteSet(TwoAdders \ {r})
      /\ r \in TwoAdders => Cardinality(TwoAdders \ {r}) = Cardinality(TwoAdders) - 1
      /\ Cardinality(TwoAdders \ {r}) <= Cardinality(TwoAdders)
  <2>1. r \in Adders
    BY DEF Adders
  <2>2. /\ IsFiniteSet(Adders \ {r}) /\ Cardinality(Adders \ {r}) = Cardinality(Adders) - 1
    BY <2>1, AdderFacts, OneMoreOrLess
  <2>3. /\ IsFiniteSet(TwoAdders \ {r})
        /\ r \in TwoAdders => Cardinality(TwoAdders \ {r}) = Cardinality(TwoAdders) - 1
        /\ Cardinality(TwoAdders \ {r}) <= Cardinality(TwoAdders)
    BY AdderFacts, OneMoreOrLess
  <2> QED BY <2>2, <2>3
<1>5. /\ Cardinality(Adders') <= Cardinality(Adders) /\ Cardinality(Adders') \in Nat
      /\ Cardinality(TwoAdders') <= Cardinality(TwoAdders \ {r}) /\ Cardinality(TwoAdders') \in Nat
  BY <1>1, <1>4, AdderFacts, FS_Subset, FS_CardinalityType
<1>6. Cardinality(Adders') + Cardinality(TwoAdders') <= Cardinality(Adders) + Cardinality(TwoAdders) - 1
  <2>1. CASE MayAddTwo(r)
    <3>1. r \in TwoAdders
      BY <2>1 DEF TwoAdders
    <3> QED BY <1>4, <1>5, <3>1, AdderFacts
  <2>2. CASE ~MayAdd(r)'
    <3>1. Adders' \in SUBSET (Adders \ {r})
      BY <1>1, <2>2 DEF Adders
    <3>2. Cardinality(Adders') <= Cardinality(Adders) - 1
      BY <1>4, <3>1, FS_Subset
    <3> QED BY <1>4, <1>5, <3>2, AdderFacts
  <2> QED BY <2>1, <2>2
<1> QED BY <1>2, <1>3, <1>5, <1>6, AdderFacts, UserFilesAssumption

\* A request that was told of less than MaxFilesPerUser entries, of what there is.
LEMMA RoomSeen ==
    ASSUME Crowded, Entries' = Entries, Cardinality(Entries) < MaxFilesPerUser
    PROVE  Crowded'
<1> SUFFICES ASSUME ~EnableSFTP
             PROVE  /\ IsFiniteSet(Entries')
                    /\ Cardinality(Entries') + Cardinality(Adders') + Cardinality(TwoAdders')
                         <= MaxFilesPerUser - 1 + 2 * Cardinality(Requests)
  BY DEF Crowded
<1>1. IsFiniteSet(Entries) /\ Cardinality(Entries) \in Nat
  BY FS_CardinalityType DEF Crowded
<1>2. /\ Cardinality(Adders') \in Nat /\ Cardinality(TwoAdders') \in Nat
      /\ Cardinality(Adders') <= Cardinality(Requests)
      /\ Cardinality(TwoAdders') <= Cardinality(Requests)
  <2>1. Adders' \in SUBSET Requests /\ TwoAdders' \in SUBSET Requests
    BY DEF Adders, TwoAdders
  <2> QED BY <2>1, UserFilesAssumption, FS_Subset, FS_CardinalityType
<1> QED BY <1>1, <1>2, AdderFacts, UserFilesAssumption

LEMMA InitCrowded == Init => Crowded
<1> SUFFICES ASSUME Init PROVE Crowded
  OBVIOUS
<1> USE UserFilesAssumption DEF Init
<1>1. PICK x : Entries \subseteq {x}
  <2>1. Entries \subseteq {Index}
    BY DEF Entries, TopLevel
  <2> QED BY <2>1
<1>2. IsFiniteSet(Entries) /\ Cardinality(Entries) \in Nat /\ Cardinality(Entries) <= 1
  <2>1. IsFiniteSet({x}) /\ Cardinality({x}) = 1
    BY FS_Singleton
  <2> QED BY <1>1, <2>1, FS_Subset, FS_CardinalityType
<1>3. Adders = {} /\ TwoAdders = {}
  <2>1. \A r \in Requests : req[r].at = "idle"
    BY DEF Idle
  <2> QED BY <2>1 DEF Adders, TwoAdders, MayAdd, MayAddTwo, SawRoom, At
<1>4. Cardinality(Adders) = 0 /\ Cardinality(TwoAdders) = 0
  BY <1>3, FS_EmptySet
<1> QED BY <1>2, <1>4, AdderFacts DEF Crowded

LEMMA StepCrowded == Typed /\ AllVetted /\ Crowded /\ [Next]_vars => Crowded'
<1> SUFFICES ASSUME Typed, AllVetted, Crowded, [Next]_vars, ~EnableSFTP PROVE Crowded'
  BY DEF Crowded
<1> USE UserFilesAssumption DEF Typed
\* A request without a step to come that adds; who else is in flight is not disturbed.
<1>a. ASSUME NEW r \in Requests, req'[r].at \notin {"measure", "mkdir", "save", "store", "fill", "rename", "renameTo"}
      PROVE  ~MayAdd(r)' /\ ~MayAddTwo(r)'
  BY <1>a DEF MayAdd, MayAddTwo, SawRoom, At
<1>b. ASSUME NEW s \in Requests, req'[s] = req[s]
      PROVE  (MayAdd(s)' => MayAdd(s)) /\ (MayAddTwo(s)' => MayAddTwo(s))
  BY <1>b DEF MayAdd, MayAddTwo, SawRoom, At
<1>c. ASSUME files' \subseteq files, folders' \subseteq folders
      PROVE  Entries' \subseteq Entries
  BY <1>c DEF Entries, TopLevel
<1>d. ASSUME NEW p \in Paths, files' \subseteq files \cup {p}, folders' = folders
      PROVE  /\ Entries' \subseteq Entries \cup {p}
             /\ Folder[p] # Root => Entries' \subseteq Entries
  BY <1>d DEF Entries, TopLevel
<1>e. ASSUME NEW p \in Paths, folders' = folders \cup MadeFor(p), files' = files
      PROVE  /\ Entries' \subseteq Entries \cup {Folder[p]}
             /\ Folder[p] = Root => Entries' \subseteq Entries
  BY <1>e, FolderOfIsFolder DEF Entries, TopLevel, FolderOf
<1>f. ASSUME NEW r \in Requests, Entries' \subseteq Entries,
             \A s \in Requests \ {r} : req'[s] = req[s],
             (MayAdd(r)' => MayAdd(r)) /\ (MayAddTwo(r)' => MayAddTwo(r))
      PROVE  Crowded'
  BY <1>b, <1>f, NothingAdded
<1>g. ASSUME NEW r \in Requests, NEW x, Entries' \subseteq Entries \cup {x}, MayAdd(r),
             \A s \in Requests \ {r} : req'[s] = req[s],
             ~MayAddTwo(r)', MayAddTwo(r) \/ ~MayAdd(r)'
      PROVE  Crowded'
  BY <1>b, <1>g, OneAdded
<1>h. ASSUME NEW r \in Requests, InFlight(r)
      PROVE  req[r].path \in Paths /\ req[r].new \in Paths /\ req[r].then \in Thens
  BY <1>h DEF CarriesPaths, Carries
<1>1. ASSUME NEW r \in Requests, Arrive(r) PROVE Crowded'
  <2>1. ASSUME NEW p, NEW q, NEW then, NEW b, NEW text, Begin(r, then, p, q, b, text)
        PROVE  Crowded'
    <3>1. /\ \A s \in Requests \ {r} : req'[s] = req[s]
          /\ req'[r].at = "list" /\ files' = files /\ folders' = folders
      BY <2>1 DEF Begin, TypeOK, Idle, disk
    <3>2. ~MayAdd(r)' /\ ~MayAddTwo(r)'
      BY <1>a, <3>1
    <3> QED BY <1>c, <1>f, <3>1, <3>2
  <2> QED BY <1>1, <2>1 DEF Arrive, EditStart, UploadStart, SftpWriteStart, SftpRenameStart
<1>2. ASSUME NEW r \in Requests, CheckList(r) PROVE Crowded'
  <2>1. /\ \A s \in Requests \ {r} : req'[s] = req[s]
        /\ req'[r].at = "measure" /\ req'[r].seen = files \cup folders
        /\ files' = files /\ folders' = folders
    BY <1>2 DEF CheckList, TypeOK, Request, disk
  <2>2. Entries' = Entries
    BY <2>1 DEF Entries
  <2>3. CASE Cardinality(Entries) < MaxFilesPerUser
    BY <2>2, <2>3, RoomSeen
  <2>4. CASE ~(Cardinality(Entries) < MaxFilesPerUser)
    <3>1. ~MayAdd(r)' /\ ~MayAddTwo(r)'
      BY <2>1, <2>4 DEF MayAdd, MayAddTwo, SawRoom, At, Entries
    <3> QED BY <1>f, <2>1, <2>2, <3>1
  <2> QED BY <2>3, <2>4
<1>3. ASSUME NEW r \in Requests, CheckPass(r) PROVE Crowded'
  <2>1. /\ \A s \in Requests \ {r} : req'[s] = req[s]
        /\ files' = files /\ folders' = folders
    BY <1>3 DEF CheckPass, Reply, TypeOK, disk
  <2>2. MayAdd(r) /\ MayAddTwo(r)
    BY <1>3 DEF CheckPass, HasRoom, MayAdd, MayAddTwo, SawRoom
  <2> QED BY <1>c, <1>f, <2>1, <2>2
<1>4. ASSUME NEW r \in Requests, CheckRefuse(r) \/ CheckPanic(r) \/ Abandon(r) PROVE Crowded'
  <2>1. /\ \A s \in Requests : req'[s] = req[s] \/ req'[s].at \in Resting
        /\ files' = files /\ folders' = folders
    <3>1. CASE CheckRefuse(r)
      BY <3>1 DEF CheckRefuse, Reply, TypeOK, Idle, Resting, disk
    <3>2. CASE CheckPanic(r) \/ Abandon(r)
      BY <3>2 DEF CheckPanic, Abandon, TypeOK, Idle, Resting, disk
    <3> QED BY <1>4, <3>1, <3>2
  <2>2. \A s \in Requests : (MayAdd(s)' => MayAdd(s)) /\ (MayAddTwo(s)' => MayAddTwo(s))
    BY <1>a, <1>b, <2>1 DEF Resting
  <2> QED BY <1>c, <2>1, <2>2, NothingAdded
<1>5. ASSUME NEW r \in Requests, EditMkdir(r) PROVE Crowded'
  <2>1. /\ \A s \in Requests \ {r} : req'[s] = req[s]
        /\ req[r].at = "mkdir" /\ req'[r].at = "list"
        /\ folders' = folders \cup MadeFor(req[r].path) /\ files' = files
    BY <1>5 DEF EditMkdir, CheckThen, At, TypeOK, Request
  <2>2. Entries' \subseteq Entries \cup {Folder[req[r].path]}
    BY <1>e, <1>h, <2>1 DEF InFlight, Resting
  <2>3. MayAdd(r) /\ ~MayAdd(r)' /\ ~MayAddTwo(r)'
    BY <1>a, <2>1 DEF MayAdd
  <2> QED BY <1>g, <2>1, <2>2, <2>3
<1>6. ASSUME NEW r \in Requests, EditOpen(r) PROVE Crowded'
  <2>1. /\ \A s \in Requests \ {r} : req'[s] = req[s]
        /\ req[r].at = "save" /\ req'[r].at \in {"fill", "rename"}
        /\ folders' = folders /\ files' \subseteq files \cup {req[r].path}
    BY <1>6 DEF EditOpen, OpenEmpty, Goto, At, TypeOK, Request, disk
  <2>2. Entries' \subseteq Entries \cup {req[r].path}
    BY <1>d, <1>h, <2>1 DEF InFlight, Resting
  <2>3. MayAdd(r) /\ MayAddTwo(r) /\ ~MayAddTwo(r)'
    BY <2>1 DEF MayAdd, MayAddTwo, SawRoom, At
  <2> QED BY <1>g, <2>1, <2>2, <2>3
<1>7. ASSUME NEW r \in Requests, EditSkip(r) \/ EditFill(r) PROVE Crowded'
  <2>1. /\ \A s \in Requests \ {r} : req'[s] = req[s]
        /\ req[r].at \in {"save", "fill"} /\ req'[r].at = "rename"
        /\ folders' = folders /\ files' = files
    BY <1>7 DEF EditSkip, EditFill, Put, Goto, At, TypeOK, Request, disk
  <2>2. MayAdd(r) /\ ~MayAddTwo(r)'
    BY <2>1 DEF MayAdd, MayAddTwo, SawRoom, At
  <2> QED BY <1>c, <1>f, <2>1, <2>2
<1>8. ASSUME NEW r \in Requests, EditRenameMkdir(r) PROVE Crowded'
  <2>1. /\ \A s \in Requests \ {r} : req'[s] = req[s]
        /\ req[r].at = "rename" /\ req'[r].at = "renameTo" /\ req'[r].new = req[r].new
        /\ files' = files
        /\ folders' = folders \/ folders' = folders \cup MadeFor(req[r].new)
    BY <1>8 DEF EditRenameMkdir, Goto, At, TypeOK, Request
  <2>2. req[r].new \in Paths
    BY <1>h, <2>1 DEF InFlight, Resting
  <2>3. MayAdd(r) /\ ~MayAddTwo(r)' /\ (Folder[req[r].new] # Root => ~MayAdd(r)')
    BY <2>1 DEF MayAdd, MayAddTwo, SawRoom, At
  <2>4. CASE Folder[req[r].new] = Root
    <3>1. Entries' \subseteq Entries
      BY <1>c, <1>e, <2>1, <2>2, <2>4
    <3> QED BY <1>f, <2>1, <2>3, <3>1
  <2>5. CASE Folder[req[r].new] # Root
    <3>1. Entries' \subseteq Entries \cup {Folder[req[r].new]}
      BY <1>c, <1>e, <2>1, <2>2
    <3> QED BY <1>g, <2>1, <2>3, <2>5, <3>1
  <2> QED BY <2>4, <2>5
<1>9. ASSUME NEW r \in Requests, EditRenameTo(r) PROVE Crowded'
  <2> DEFINE p == req[r].path
             q == req[r].new
  <2>1. /\ \A s \in Requests \ {r} : req'[s] = req[s]
        /\ req[r].at = "renameTo" /\ req'[r].at = "list"
        /\ UNCHANGED <<disk, fd>> \/ Rename(p, q)
    BY <1>9 DEF EditRenameTo, CheckThen, At, TypeOK, Request
  <2>2. p \in Paths /\ q \in Paths
    BY <1>h, <2>1 DEF InFlight, Resting
  <2>3. ~MayAdd(r)' /\ ~MayAddTwo(r)'
    BY <1>a, <2>1
  <2>4. CASE UNCHANGED <<disk, fd>>
    BY <1>c, <1>f, <2>1, <2>3, <2>4 DEF disk
  <2>5. CASE p \in files /\ CanOpen(q) /\ Move(p, q)
    <3>1. folders' = folders /\ files' \subseteq files \cup {q}
      BY <2>5 DEF Move
    <3>2. CASE Folder[q] = Root
      <4>1. MayAdd(r)
        BY <2>1, <3>2 DEF MayAdd, At
      <4> QED BY <1>d, <1>g, <2>1, <2>2, <2>3, <3>1, <4>1
    <3>3. CASE Folder[q] # Root
      BY <1>d, <1>f, <2>1, <2>2, <2>3, <3>1, <3>3
    <3> QED BY <3>2, <3>3
\* A renamed folder is another entry, and its files are none at the top.
  <2>6. CASE CanMoveFolder(p, q) /\ MoveFolder(p[2], q[2])
    <3>1. PICK d \in Folders, e \in Folders : d # e /\ e = q[2] /\ MoveFolder(d, e)
      BY <2>2, <2>6, MovedFolder
    <3>2. ASSUME NEW x \in Entries' PROVE x \in Entries \cup {e}
      <4>1. x \in files' \/ x \in folders \/ x = e
        BY <3>1 DEF Entries, TopLevel, MoveFolder
      <4>2. CASE x \in files' /\ x \notin folders
        <5>1. PICK f \in files : f \in Paths /\ x = Carried(f, d, e)
          BY <3>1, <4>2, MovedFiles DEF TypeOK
        <5>2. x \in Paths /\ x \notin Folders
          <6>1. x \in Paths
            BY <3>1, <5>1, CarriedFacts
          <6> QED BY <6>1
        <5>3. Folder[x] = Root
          BY <5>2 DEF Entries, TopLevel
        <5>4. Folder[f] # d
          <6>1. Folder[f] = d => Folder[x] = e
            BY <3>1, <5>1, CarriedFacts
          <6> QED BY <5>3, <6>1
        <5>5. x = f
          BY <3>1, <5>1, <5>4, CarriedFacts
        <5> QED BY <5>1, <5>3, <5>5 DEF Entries, TopLevel
      <4>3. CASE x \in folders \/ x = e
        BY <4>3 DEF Entries, TopLevel, TypeOK
      <4> QED BY <4>1, <4>2, <4>3
    <3>3. Folder[q] = Root
      <4>1. q[1] = Root
        BY <2>6 DEF CanMoveFolder
      <4> QED BY <2>2, <4>1 DEF Folder
    <3>4. MayAdd(r)
      BY <2>1, <3>3 DEF MayAdd, At
    <3> QED BY <1>g, <2>1, <2>3, <3>2, <3>4
  <2> QED BY <2>1, <2>4, <2>5, <2>6 DEF Rename
<1>10. ASSUME NEW r \in Requests, UploadOpen(r) PROVE Crowded'
  <2>1. /\ \A s \in Requests \ {r} : req'[s] = req[s]
        /\ req[r].at = "store" /\ req'[r].at \in {"copy", "refused"}
        /\ folders' = folders /\ files' \subseteq files \cup {req[r].path}
    BY <1>10 DEF UploadOpen, Goto, Reply, Idle, At, TypeOK, Request, disk
  <2>2. Entries' \subseteq Entries \cup {req[r].path}
    BY <1>d, <1>h, <2>1 DEF InFlight, Resting
  <2>3. MayAdd(r) /\ ~MayAdd(r)' /\ ~MayAddTwo(r)'
    BY <1>a, <2>1 DEF MayAdd
  <2> QED BY <1>g, <2>1, <2>2, <2>3
<1>11. ASSUME NEW r \in Requests, UploadCopy(r) PROVE Crowded'
  <2>1. /\ \A s \in Requests \ {r} : req'[s] = req[s]
        /\ req'[r].at = "saved" /\ folders' = folders /\ files' = files
    BY <1>11 DEF UploadCopy, Put, Reply, Idle, TypeOK, Request
  <2>2. ~MayAdd(r)' /\ ~MayAddTwo(r)'
    BY <1>a, <2>1
  <2> QED BY <1>c, <1>f, <2>1, <2>2
<1>12. ASSUME NEW r \in Requests,
              SftpOpen(r) \/ (\E n \in Sizes : SftpPut(r, n)) \/ SftpClose(r) \/ SftpMove(r)
       PROVE  FALSE
  BY <1>12 DEF SftpOpen, SftpPut, SftpClose, SftpMove, At, AllVetted, Vetted, InFlight, Resting
<1>13. ASSUME NEW p \in Paths, DeleteFile(p) PROVE Crowded'
  <2>1. files' \subseteq files /\ folders' = folders /\ req' = req
    BY <1>13 DEF DeleteFile
  <2> QED BY <1>b, <1>c, <2>1, NothingAdded
<1>14. ASSUME NEW d \in Folders, DeleteFolder(d) \/ SftpMkdir(d) PROVE Crowded'
  <2>1. files' \subseteq files /\ folders' \subseteq folders /\ req' = req
    BY <1>14 DEF DeleteFolder, SftpMkdir
  <2> QED BY <1>b, <1>c, <2>1, NothingAdded
<1>15. CASE UNCHANGED vars
  <2>1. files' \subseteq files /\ folders' \subseteq folders /\ req' = req
    BY <1>15 DEF vars
  <2> QED BY <1>b, <1>c, <2>1, NothingAdded
<1> QED
  BY <1>1, <1>2, <1>3, <1>4, <1>5, <1>6, <1>7, <1>8, <1>9, <1>10, <1>11, <1>12, <1>13, <1>14,
     <1>15 DEF Next, Work

(***************************************************************************)
(* With n requests in flight, the web forms leave at most 2 * n - 1        *)
(* entries more than MaxFilesPerUser at the top of the directory, at any   *)
(* step: each may save one file and make one folder on the word of a check *)
(* that did not count those of the others (checkIfValidFile).              *)
(***************************************************************************)
THEOREM EntriesAreWithinLimit == Spec => []TopLevelWithinLimit
<1>1. Init => Crowded
  BY InitCrowded
<1>2. IInv /\ Crowded /\ [Next]_vars => Crowded'
  BY StepCrowded DEF IInv
<1>3. Crowded => TopLevelWithinLimit
  <2> SUFFICES ASSUME Crowded, ~EnableSFTP PROVE TopLevelWithinLimit
    BY DEF TopLevelWithinLimit
  <2>1. /\ Cardinality(Entries) \in Nat
        /\ Cardinality(Entries) + Cardinality(Adders) + Cardinality(TwoAdders)
             <= MaxFilesPerUser - 1 + 2 * Cardinality(Requests)
    BY FS_CardinalityType DEF Crowded
  <2>2. Cardinality(Entries) <= MaxFilesPerUser - 1 + 2 * Cardinality(Requests)
    BY <2>1, AdderFacts, UserFilesAssumption
  <2> QED BY <2>2 DEF TopLevelWithinLimit, Entries
<1> QED BY <1>1, <1>2, <1>3, Invariance, PTL DEF Spec

-------------------------------------------------------------------------------
(***************************************************************************)
(* One request at a time.  Between opening and writing, the file an edit   *)
(* has open is empty, or was deleted; no other request makes it again.     *)
(***************************************************************************)
OneAtATime == \A r, s \in Requests : r = s

WritesAll(r) ==
    /\ At(r, "fill") => IF fd[r] = NoPath THEN req[r].path \notin files
                        ELSE fd[r] = req[r].path /\ len[req[r].path] = 0
    /\ At(r, "rename") /\ req[r].text /\ ~req[r].error /\ req[r].path \in files =>
          len[req[r].path] = req[r].bytes

AllWritten == \A r \in Requests : WritesAll(r)

LEMMA StepWritten ==
    ASSUME OneAtATime, Typed, AllWritten, [Next]_vars
    PROVE  AllWritten'
<1> USE UserFilesAssumption DEF Typed
<1>a. ASSUME NEW r \in Requests, WritesAll(r)' PROVE AllWritten'
  BY <1>a DEF OneAtATime, AllWritten
<1>b. ASSUME NEW r \in Requests, req'[r].at \notin {"fill", "rename"} PROVE AllWritten'
  BY <1>a, <1>b DEF WritesAll, At
<1>1. ASSUME NEW r \in Requests, Arrive(r) PROVE AllWritten'
  <2>1. ASSUME NEW p, NEW q, NEW then, NEW b, NEW text, Begin(r, then, p, q, b, text)
        PROVE  AllWritten'
    <3>1. req'[r].at = "list"
      BY <2>1 DEF Begin, TypeOK, Idle
    <3> QED BY <1>b, <3>1
  <2> QED BY <1>1, <2>1 DEF Arrive, EditStart, UploadStart, SftpWriteStart, SftpRenameStart
<1>2. ASSUME NEW r \in Requests, CheckPass(r) PROVE AllWritten'
  <2>1. req[r].at = "measure" /\ req[r].then \in Thens
    BY <1>2 DEF CheckPass, At, CarriesPaths, Carries, InFlight, Resting
  <2>2. CASE req[r].then = "reply"
    <3>1. PICK outcome \in Resting : Reply(r, outcome)
      BY <1>2, <2>2 DEF CheckPass, Resting
    <3>2. req'[r].at \in Resting
      BY <3>1 DEF Reply, TypeOK, Idle
    <3> QED BY <1>b, <3>2 DEF Resting
  <2>3. CASE req[r].then # "reply"
    <3>1. req'[r].at = req[r].then
      BY <1>2, <2>3 DEF CheckPass, TypeOK, Request
    <3> QED BY <1>b, <2>1, <3>1 DEF Thens
  <2> QED BY <2>2, <2>3
<1>3. ASSUME NEW r \in Requests,
             \/ CheckRefuse(r) \/ UploadCopy(r) \/ SftpClose(r) \/ SftpMove(r)
             \/ Abandon(r) \/ CheckPanic(r)
      PROVE  AllWritten'
  <2>1. CASE \/ CheckRefuse(r) \/ UploadCopy(r) \/ SftpClose(r) \/ SftpMove(r)
    <3>1. PICK outcome \in Resting : Reply(r, outcome)
      BY <2>1 DEF CheckRefuse, UploadCopy, SftpClose, SftpMove, Resting
    <3>2. req'[r].at \in Resting
      BY <3>1 DEF Reply, TypeOK, Idle
    <3> QED BY <1>b, <3>2 DEF Resting
  <2>2. CASE Abandon(r) \/ CheckPanic(r)
    <3>1. req'[r].at = "idle"
      BY <2>2 DEF Abandon, CheckPanic, TypeOK, Idle
    <3> QED BY <1>b, <3>1
  <2> QED BY <1>3, <2>1, <2>2
<1>4. ASSUME NEW r \in Requests,
             \/ CheckList(r) \/ EditMkdir(r) \/ EditRenameMkdir(r) \/ EditRenameTo(r)
             \/ UploadOpen(r) \/ SftpOpen(r)
      PROVE  AllWritten'
  <2>1. req'[r].at \in {"measure", "list", "renameTo", "copy", "stream", "refused"}
    BY <1>4 DEF CheckList, EditMkdir, EditRenameMkdir, EditRenameTo, UploadOpen, SftpOpen,
                CheckThen, Goto, Reply, Idle, TypeOK, Request
  <2> QED BY <1>b, <2>1
<1>5. ASSUME NEW r \in Requests, EditOpen(r) PROVE AllWritten'
  <2>1. req[r].path \in Paths
    BY <1>5 DEF EditOpen, At, CarriesPaths, Carries, InFlight, Resting
  <2>2. CASE CanOpen(req[r].path)
    <3>1. /\ req'[r].at = "fill" /\ req'[r].path = req[r].path
          /\ fd'[r] = req[r].path /\ len'[req[r].path] = 0
      BY <1>5, <2>1, <2>2 DEF EditOpen, OpenEmpty, Goto, TypeOK, Request
    <3>2. WritesAll(r)'
      BY <2>1, <3>1 DEF WritesAll, At
    <3> QED BY <1>a, <3>2
  <2>3. CASE ~CanOpen(req[r].path)
    <3>1. req'[r].at = "rename" /\ req'[r].error = TRUE
      BY <1>5, <2>3 DEF EditOpen, TypeOK, Request
    <3> QED BY <1>a, <3>1 DEF WritesAll, At
  <2> QED BY <2>2, <2>3
<1>6. ASSUME NEW r \in Requests, EditSkip(r) PROVE AllWritten'
  <2>1. req'[r].at = "rename" /\ req'[r].text = req[r].text /\ ~req[r].text
    BY <1>6 DEF EditSkip, Goto, TypeOK, Request
  <2> QED BY <1>a, <2>1 DEF WritesAll, At
<1>7. ASSUME NEW r \in Requests, EditFill(r) PROVE AllWritten'
  <2>1. /\ req'[r].at = "rename" /\ req'[r].path = req[r].path /\ req'[r].bytes = req[r].bytes
        /\ files' = files /\ Put(r, req[r].bytes) /\ At(r, "fill")
    BY <1>7 DEF EditFill, Put, Goto, TypeOK, Request
  <2>2. req[r].path \in Paths /\ req[r].bytes \in Nat
    BY <2>1 DEF At, CarriesPaths, Carries, InFlight, Resting, TypeOK, Request
  <2>3. CASE fd[r] = NoPath
    <3>1. req'[r].path \notin files'
      BY <2>1, <2>3 DEF AllWritten, WritesAll
    <3> QED BY <1>a, <2>1, <3>1 DEF WritesAll, At
  <2>4. CASE fd[r] # NoPath
    <3>1. fd[r] = req[r].path /\ len[req[r].path] = 0
      BY <2>1, <2>4 DEF AllWritten, WritesAll
    <3>2. len'[req[r].path] = Longer(0, req[r].bytes)
      BY <2>1, <2>2, <2>4, <3>1 DEF Put, TypeOK
    <3>3. len'[req[r].path] = req[r].bytes
      BY <2>2, <3>2 DEF Longer
    <3> QED BY <1>a, <2>1, <3>3 DEF WritesAll, At
  <2> QED BY <2>3, <2>4
<1>8. ASSUME NEW r \in Requests, NEW n \in Sizes, SftpPut(r, n) PROVE AllWritten'
  <2>1. req'[r].at = "stream"
    BY <1>8 DEF SftpPut, At
  <2> QED BY <1>b, <2>1
<1>9. ASSUME NEW p \in Paths, DeleteFile(p) PROVE AllWritten'
  <2> SUFFICES ASSUME NEW r \in Requests PROVE WritesAll(r)'
    BY DEF AllWritten
  <2>1. /\ req' = req /\ files' = files \ {p}
        /\ fd'[r] = IF fd[r] = p THEN NoPath ELSE fd[r]
        /\ \A q \in Paths \ {p} : len'[q] = len[q]
    BY <1>9 DEF DeleteFile, TypeOK
  <2>2. At(r, "fill") \/ At(r, "rename") => req[r].path \in Paths
    BY DEF At, CarriesPaths, Carries, InFlight, Resting
  <2>3. WritesAll(r)
    BY DEF AllWritten
  <2> QED BY <2>1, <2>2, <2>3 DEF WritesAll, At
<1>10. ASSUME NEW d \in Folders, DeleteFolder(d) \/ SftpMkdir(d) PROVE AllWritten'
  BY <1>10 DEF DeleteFolder, SftpMkdir, AllWritten, WritesAll, At
<1>11. CASE UNCHANGED vars
  BY <1>11 DEF vars, AllWritten, WritesAll, At
<1> QED
  BY <1>1, <1>2, <1>3, <1>4, <1>5, <1>6, <1>7, <1>8, <1>9, <1>10, <1>11 DEF Next, Work

(***************************************************************************)
(* With one request at a time, beside deletions, in a directory of any     *)
(* size: what an edit reports as saved is the posted text to its last byte *)
(* (WriteFile).                                                            *)
(***************************************************************************)
THEOREM TextIsWrittenAsPosted ==
    ASSUME OneAtATime
    PROVE  Spec => []WrittenAsPosted
<1>1. Init => AllWritten
  BY DEF Init, Idle, AllWritten, WritesAll, At
<1>2. IInv /\ AllWritten /\ [Next]_vars => AllWritten'
  BY StepWritten DEF IInv
<1>3. AllWritten => WrittenAsPosted
  BY DEF AllWritten, WritesAll, WrittenAsPosted
<1> QED BY <1>1, <1>2, <1>3, Invariance, PTL DEF Spec
===============================================================================
