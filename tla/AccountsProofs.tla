---------------------------- MODULE AccountsProofs ----------------------------
(***************************************************************************)
(* Accounts, for any number of names, accounts and workers.  The inductive *)
(* invariant says, beside the types: an account bears one name; two        *)
(* workers that can break each other and share a name are both disturbed,  *)
(* with all their names dirty; under a clean name, row, directory and page *)
(* disagree only while a worker is between the two halves of an operation  *)
(* on it; and what a worker relies on at its next step, if its names are   *)
(* clean or nothing raced with it.                                         *)
(***************************************************************************)
EXTENDS Accounts, TLAPS

\* Who is between the two halves of an operation that makes the directory n, or takes it away.
Making(w, n) == (At(w, "mkdir") /\ op[w].src = n) \/ (At(w, "moveDir") /\ op[w].dst = n)
Taking(w, n) == op[w].at \in {"moveDir", "removeAll"} /\ op[w].src = n

\* A clean name: row and directory differ, and a page is another's, only in between.
Good(n) ==
    /\ holder[n] \in active /\ n \notin dirs => \E w \in Workers : Making(w, n)
    /\ n \in dirs /\ holder[n] \notin active => \E w \in Workers : Taking(w, n)
    /\ home[n] \in Ids /\ home[n] # holder[n] => \E w \in Workers : Taking(w, n)

\* What holds before the next step of a worker whose names are clean, or that is alone.
Halfway(w) ==
    LET o == op[w].src
        n == op[w].dst
        clean == o \notin dirty
        sure == clean \/ w \notin disturbed
    IN
    /\ At(w, "update") /\ sure => holder[o] # None
    /\ op[w].at \in {"mkdir", "index", "mkdirAgain"} /\ sure => holder[o] \in active
    /\ At(w, "mkdirAgain") /\ sure => (home[o] \in Ids => home[o] = holder[o])
    /\ At(w, "moveDir") /\ clean =>
          /\ holder[o] \notin active /\ holder[n] # None
          /\ n \notin dirs
          /\ o \in dirs <=> holder[n] \in active
          /\ home[o] \in Ids => home[o] = holder[n]
    /\ At(w, "removeAll") /\ sure => holder[o] \notin active
    /\ At(w, "removeAll") /\ clean => (home[o] \in Ids => \A m \in Names : holder[m] # home[o])
    /\ At(w, "makeDir") /\ clean => o \in dirs /\ holder[o] \in active

\* Who shares a name with whom, and what that makes of the names.
Sharing ==
    /\ \A w \in Workers : op[w] # Idle /\ ~At(w, "removeBase") =>
          /\ At(w, "moveDir") <=> op[w].src # op[w].dst
          /\ op[w].src \in dirty <=> op[w].dst \in dirty
    /\ \A v, w \in Workers :
          v # w /\ Conflict(op[v].at, op[w].at) /\ NamesOf(v) \cap NamesOf(w) # {} =>
             w \in disturbed /\ NamesOf(w) \subseteq dirty
    /\ \A w \in Workers : At(w, "removeBase") => dirty = Names
    /\ base \/ (dirs = {} /\ dirty = Names)

\* An account bears one name, and is known when it appears anywhere.
Identity ==
    /\ \A m, n \in Names : holder[m] # None /\ holder[m] = holder[n] => m = n
    /\ \A n \in Names : holder[n] # None => holder[n] \in issued
    /\ \A n \in Names : home[n] \in Ids => home[n] \in issued
    /\ active \subseteq issued
    /\ \A n \in Names \ dirs : home[n] = None

Agreement ==
    /\ \A n \in Names \ dirty : Good(n)
    /\ \A w \in Workers : Halfway(w)

IInv == TypeOK /\ Sharing /\ Identity /\ Agreement

-------------------------------------------------------------------------------
\* The names of a worker, spelled out; at least one when it is not idle.
LEMMA NamesOfWorker ==
    ASSUME TypeOK, NEW w \in Workers
    PROVE  /\ op[w] = Idle <=> At(w, "idle")
           /\ op[w] = Idle => NamesOf(w) = {}
           /\ At(w, "removeBase") => NamesOf(w) = Names
           /\ op[w] # Idle /\ ~At(w, "removeBase") =>
                  /\ op[w].src \in Names /\ op[w].dst \in Names
                  /\ NamesOf(w) = {op[w].src, op[w].dst}
                  /\ op[w] = [at |-> op[w].at, src |-> op[w].src, dst |-> op[w].dst]
           /\ op[w].at \in Steps \cup {"idle"}
           /\ NamesOf(w) \subseteq Names
BY AccountsAssumption DEF TypeOK, Operation, Idle, NamesOf, At, Steps

LEMMA InitTypeOK == Init => TypeOK
BY AccountsAssumption DEF Init, TypeOK, Operation, Idle

\* The history variables and the workers keep their types at each kind of step.
LEMMA StepTypes ==
    ASSUME TypeOK, NEW w \in Workers
    PROVE  LET Typed == op' \in [Workers -> Operation] /\ dirty' \subseteq Names
                           /\ disturbed' \subseteq Workers
           IN
           /\ \A step \in Steps \ {"removeBase"}, s, d \in Names : Begin(w, step, s, d) => Typed
           /\ BeginOn(w, "removeBase", None, None, Names) => Typed
           /\ \A step \in Steps \ {"removeBase"} :
                  op[w] # Idle /\ ~At(w, "removeBase") /\ Goto(w, step) => Typed
           /\ Finish(w) => Typed
           /\ FinishMending(w) => Typed
<1> USE DEF TypeOK
<1> DEFINE Typed == op' \in [Workers -> Operation] /\ dirty' \subseteq Names
                       /\ disturbed' \subseteq Workers
<1>1. \A v \in Workers : NamesOf(v) \subseteq Names
  BY NamesOfWorker
<1>2. ASSUME NEW step, NEW s, NEW d, NEW N \in SUBSET Names, BeginOn(w, step, s, d, N)
      PROVE  /\ dirty' \subseteq Names /\ disturbed' \subseteq Workers
             /\ op' = [op EXCEPT ![w] = [at |-> step, src |-> s, dst |-> d]]
  BY <1>1, <1>2 DEF BeginOn, Soiled, Rivals
<1>3. ASSUME NEW step \in Steps \ {"removeBase"}, NEW s \in Names, NEW d \in Names,
             Begin(w, step, s, d)
      PROVE  Typed
  <2>1. [at |-> step, src |-> s, dst |-> d] \in Operation
    BY DEF Operation
  <2> QED BY <1>2, <1>3, <2>1 DEF Begin
<1>4. ASSUME BeginOn(w, "removeBase", None, None, Names) PROVE Typed
  <2>1. [at |-> "removeBase", src |-> None, dst |-> None] \in Operation
    BY DEF Operation, Idle
  <2> QED BY <1>2, <1>4, <2>1
<1>5. ASSUME NEW step \in Steps \ {"removeBase"}, op[w] # Idle, ~At(w, "removeBase"),
             Goto(w, step)
      PROVE  Typed
  <2>1. [op[w] EXCEPT !.at = step] \in Operation
    BY <1>5, NamesOfWorker DEF Operation
  <2> QED BY <1>5, <2>1 DEF Goto
<1>6. ASSUME Leave(w) PROVE op' \in [Workers -> Operation] /\ disturbed' \subseteq Workers
  BY <1>6 DEF Leave, Operation
<1> QED BY <1>3, <1>4, <1>5, <1>6 DEF Finish, FinishMending

LEMMA StepTypeOK == TypeOK /\ [Next]_vars => TypeOK'
<1> SUFFICES ASSUME TypeOK, [Next]_vars PROVE TypeOK'
  OBVIOUS
<1> USE AccountsAssumption
<1>1. ASSUME NEW w \in Workers, NEW n \in Names,
             \/ RegisterStat(w, n) \/ ActivateSelect(w, n) \/ DeleteRow(w, n)
             \/ SaveCheck(w, n)
      PROVE  TypeOK'
  <2>1. \E step \in Steps \ {"removeBase"} : Begin(w, step, n, n)
    BY <1>1 DEF RegisterStat, ActivateSelect, DeleteRow, SaveCheck, Steps
  <2>2. /\ holder' \in [Names -> Ids \cup {None}] /\ active' \subseteq Ids
        /\ UNCHANGED <<issued, disk>>
    BY <1>1 DEF RegisterStat, ActivateSelect, DeleteRow, SaveCheck, TypeOK
  <2> QED BY <2>1, <2>2, StepTypes DEF TypeOK, disk
<1>2. ASSUME NEW w \in Workers, NEW o \in Names, NEW n \in Names, RenameUpdate(w, o, n)
      PROVE  TypeOK'
  <2>1. Begin(w, "moveDir", o, n) /\ "moveDir" \in Steps \ {"removeBase"}
    BY <1>2 DEF RenameUpdate, Steps
  <2>2. holder' \in [Names -> Ids \cup {None}] /\ UNCHANGED <<active, issued, disk>>
    BY <1>2 DEF RenameUpdate, TypeOK
  <2> QED BY <2>1, <2>2, StepTypes DEF TypeOK, disk
<1>3. ASSUME NEW w \in Workers, RegisterInsert(w) PROVE TypeOK'
  <2>1. op[w].src \in Names
    BY <1>3, NamesOfWorker DEF RegisterInsert, At, Idle
  <2>2. PICK i \in Ids : holder' = [holder EXCEPT ![op[w].src] = i] /\ issued' = issued \cup {i}
    BY <1>3 DEF RegisterInsert
  <2>3. UNCHANGED <<active, disk>> /\ Finish(w)
    BY <1>3 DEF RegisterInsert
  <2> QED BY <2>1, <2>2, <2>3, StepTypes DEF TypeOK, disk
<1>4. ASSUME NEW w \in Workers,
             \/ ActivateUpdate(w) \/ ActivateMkdir(w) \/ ActivateIndex(w) \/ SaveMkdirAll(w)
      PROVE  TypeOK'
  <2>1. op[w] # Idle /\ ~At(w, "removeBase") /\ op[w].src \in Names
    BY <1>4, NamesOfWorker DEF ActivateUpdate, ActivateMkdir, ActivateIndex, SaveMkdirAll, At, Idle
  <2>2. \E step \in Steps \ {"removeBase"} : Goto(w, step)
    BY <1>4 DEF ActivateUpdate, ActivateMkdir, ActivateIndex, SaveMkdirAll, Steps
  <2>3. /\ UNCHANGED <<holder, issued>> /\ active' \subseteq Ids /\ base' \in BOOLEAN
        /\ dirs' \subseteq Names /\ home' \in [Names -> Ids \cup {None, NoOnes}]
    BY <1>4, <2>1
    DEF ActivateUpdate, ActivateMkdir, ActivateIndex, SaveMkdirAll, Mkdir, TypeOK, disk
  <2> QED BY <2>1, <2>2, <2>3, StepTypes DEF TypeOK
<1>5. ASSUME NEW w \in Workers,
             \/ RegisterRefused(w) \/ ActivateMkdirAgain(w) \/ RenameDir(w) \/ DeleteDir(w)
             \/ DeleteBase(w) \/ SaveWrite(w)
      PROVE  TypeOK'
  <2>1. op[w] # Idle
    BY <1>5 DEF RegisterRefused, ActivateMkdirAgain, RenameDir, DeleteDir, DeleteBase,
                SaveWrite, At, Idle
  <2>2. Finish(w) \/ FinishMending(w)
    BY <1>5 DEF RegisterRefused, ActivateMkdirAgain, RenameDir, DeleteDir, DeleteBase, SaveWrite
  <2>3. /\ UNCHANGED <<holder, active, issued>> /\ base' \in BOOLEAN
        /\ dirs' \subseteq Names /\ home' \in [Names -> Ids \cup {None, NoOnes}]
    <3>1. CASE RegisterRefused(w) \/ DeleteBase(w)
      BY <3>1 DEF RegisterRefused, DeleteBase, TypeOK, disk
    <3>2. CASE ActivateMkdirAgain(w) \/ RenameDir(w) \/ DeleteDir(w)
      <4>1. op[w].src \in Names /\ op[w].dst \in Names
        BY <2>1, <3>2, NamesOfWorker DEF ActivateMkdirAgain, RenameDir, DeleteDir, At
      <4> QED BY <3>2, <4>1 DEF ActivateMkdirAgain, RenameDir, DeleteDir, Mkdir, TypeOK
    <3>3. CASE SaveWrite(w)
      <4>1. op[w].src \in Names
        BY <2>1, <3>3, NamesOfWorker DEF SaveWrite, At
      <4> QED BY <3>3, <4>1 DEF SaveWrite, TypeOK
    <3> QED BY <1>5, <3>1, <3>2, <3>3
  <2> QED BY <2>2, <2>3, StepTypes DEF TypeOK
<1>6. ASSUME NEW w \in Workers, DeleteNoRow(w) PROVE TypeOK'
  BY <1>6, StepTypes DEF DeleteNoRow, TypeOK, disk
<1>7. ASSUME NEW w \in Workers, Abandon(w) PROVE TypeOK'
  <2>1. op' \in [Workers -> Operation] /\ disturbed' \subseteq Workers
    BY <1>7 DEF Abandon, Leave, Operation, TypeOK
  <2>2. dirty' \subseteq Names
    BY <1>7, NamesOfWorker DEF Abandon, TypeOK
  <2> QED BY <1>7, <2>1, <2>2 DEF Abandon, TypeOK
<1>8. CASE UNCHANGED vars
  BY <1>8 DEF vars, disk, TypeOK
<1> QED
  BY <1>1, <1>2, <1>3, <1>4, <1>5, <1>6, <1>7, <1>8 DEF Next, Step

\* Every variable keeps its type, whatever workers run in whatever order.
THEOREM TypeCorrect == Spec => []TypeOK
BY InitTypeOK, StepTypeOK, PTL DEF Spec

-------------------------------------------------------------------------------
LEMMA ConflictMeans ==
    \A s, t : Conflict(s, t) <=> s \notin Light /\ t \notin Light /\ (s \in Movers \/ t \in Movers)
BY DEF Conflict

\* The steps, sorted.
LEMMA StepKinds ==
    /\ Light = {"idle", "insert", "write"}
    /\ Movers = {"moveDir", "removeAll", "removeBase"}
    /\ Light \cap Movers = {}
    /\ \A step \in Steps \cup {"idle"} :
          step \in Light \cup Movers \cup {"update", "mkdir", "index", "mkdirAgain", "makeDir"}
BY DEF Light, Movers, Steps

\* Starting an operation keeps the account of who shares names.
LEMMA BeginSharing ==
    ASSUME TypeOK, TypeOK', Sharing, UNCHANGED disk, NEW w \in Workers, NEW step \in Steps,
           NEW s, NEW d, NEW N, BeginOn(w, step, s, d, N),
           \/ step = "removeBase" /\ s = None /\ d = None /\ N = Names
           \/ /\ step # "removeBase" /\ s \in Names /\ d \in Names /\ N = {s, d}
              /\ step = "moveDir" <=> s # d
    PROVE  Sharing'
<1> DEFINE R == Rivals(w, step, N)
<1>1. /\ op[w] = Idle
      /\ op'[w] = [at |-> step, src |-> s, dst |-> d]
      /\ NamesOf(w)' = N
      /\ NamesOf(w) = {}
  BY AccountsAssumption DEF BeginOn, TypeOK, Operation, Steps, Idle, NamesOf, At
<1>2. \A v \in Workers \ {w} : op'[v] = op[v] /\ NamesOf(v)' = NamesOf(v)
  BY DEF BeginOn, TypeOK, NamesOf, At
<1>3. dirty \subseteq dirty' /\ disturbed \subseteq disturbed'
  BY DEF BeginOn
<1>4. ASSUME NEW v \in R
      PROVE  NamesOf(v) \cup N \subseteq dirty' /\ w \in disturbed' /\ v \in disturbed'
  BY <1>4 DEF BeginOn, Soiled
<1>5. N \subseteq dirty' \/ (N \cap dirty' = {} /\ dirty' = dirty)
  BY DEF BeginOn, Soiled
<1>6. \A n \in dirty' \ dirty : n \in N \/ \E v \in R : n \in NamesOf(v)
  BY DEF BeginOn, Soiled
<1>7. ASSUME NEW v \in Workers, op'[v] # Idle, ~At(v, "removeBase")'
      PROVE  /\ At(v, "moveDir")' <=> op'[v].src # op'[v].dst
             /\ op'[v].src \in dirty' <=> op'[v].dst \in dirty'
  <2>1. CASE v = w
    BY <1>1, <1>5, <1>7, <2>1 DEF At
  <2>2. CASE v # w
    <3>1. /\ op[v] # Idle /\ ~At(v, "removeBase")
          /\ At(v, "moveDir") <=> op[v].src # op[v].dst
          /\ op[v].src \in dirty <=> op[v].dst \in dirty
          /\ NamesOf(v) = {op[v].src, op[v].dst}
      BY <1>2, <1>7, <2>2, NamesOfWorker DEF Sharing, At
    <3>2. CASE ~At(v, "moveDir")
      BY <1>2, <2>2, <3>1, <3>2 DEF At
    <3>3. CASE At(v, "moveDir")
      <4>1. CASE v \in R
        BY <1>2, <1>4, <2>2, <3>1, <3>3, <4>1 DEF At
      <4>2. CASE v \notin R
        <5>1. ASSUME NEW n \in NamesOf(v), n \in dirty', n \notin dirty
              PROVE  NamesOf(v) \subseteq dirty
          <6>1. CASE n \in N
            <7>1. ~Conflict(step, op[v].at)
              BY <2>2, <4>2, <5>1, <6>1 DEF Rivals
            <7>2. step \in Light
              BY <3>3, <7>1, ConflictMeans, StepKinds DEF At
            <7>3. R = {} /\ step # "removeBase"
              BY <7>2, ConflictMeans, StepKinds DEF Rivals
            <7>4. dirty' = dirty \/ N \cap dirty # {}
              BY <7>3 DEF BeginOn, Soiled
            <7>5. N = {s}
              BY <7>2, StepKinds
            <7> QED BY <5>1, <6>1, <7>4, <7>5
          <6>2. CASE n \notin N
            <7>1. PICK u \in R : n \in NamesOf(u)
              BY <1>6, <5>1, <6>2
            <7>2. u \in Workers /\ op[u].at \notin Light
              BY ConflictMeans DEF Rivals
            <7>3. u # v /\ Conflict(op[u].at, op[v].at)
              BY <3>3, <4>2, <7>1, <7>2, ConflictMeans, StepKinds DEF At
            <7> QED BY <5>1, <7>1, <7>2, <7>3 DEF Sharing
          <6> QED BY <6>1, <6>2
        <5> QED BY <1>2, <1>3, <2>2, <3>1, <3>3, <5>1 DEF At
      <4> QED BY <4>1, <4>2
    <3> QED BY <3>2, <3>3
  <2> QED BY <2>1, <2>2
<1>8. ASSUME NEW u \in Workers, NEW v \in Workers, u # v,
             Conflict(op'[u].at, op'[v].at), (NamesOf(u) \cap NamesOf(v))' # {}
      PROVE  v \in disturbed' /\ NamesOf(v)' \subseteq dirty'
  <2>1. CASE u = w
    <3>1. v \in R
      BY <1>1, <1>2, <1>8, <2>1 DEF Rivals
    <3> QED BY <1>2, <1>4, <1>8, <2>1, <3>1
  <2>2. CASE v = w
    <3>1. u \in R
      BY <1>1, <1>2, <1>8, <2>2, ConflictMeans DEF Rivals
    <3> QED BY <1>1, <1>4, <2>2, <3>1
  <2>3. CASE u # w /\ v # w
    BY <1>2, <1>3, <1>8, <2>3 DEF Sharing
  <2> QED BY <2>1, <2>2, <2>3
<1>9. ASSUME NEW v \in Workers, At(v, "removeBase")' PROVE dirty' = Names
  <2>1. CASE v = w
    <3>1. step = "removeBase" /\ N = Names
      BY <1>1, <1>9, <2>1 DEF At
    <3>2. N \subseteq dirty'
      BY <3>1 DEF BeginOn, Soiled
    <3> QED BY <3>1, <3>2 DEF TypeOK
  <2>2. CASE v # w
    BY <1>2, <1>3, <1>9, <2>2 DEF Sharing, At, TypeOK
  <2> QED BY <2>1, <2>2
<1>10. base' \/ (dirs' = {} /\ dirty' = Names)
  BY <1>3 DEF Sharing, disk, TypeOK
<1> QED BY <1>7, <1>8, <1>9, <1>10 DEF Sharing

\* So does its next step: nobody gets in its way who was not in its way before.
LEMMA GotoSharing ==
    ASSUME TypeOK, Sharing, NEW w \in Workers,
           NEW step \in Steps \ (Movers \cup {"insert"}), Goto(w, step),
           op[w].at \notin Movers \cup Light,
           base' \/ (dirs' = {} /\ dirty' = Names)
    PROVE  Sharing'
<1>1. /\ op[w] # Idle /\ ~At(w, "removeBase")
      /\ op'[w].src = op[w].src /\ op'[w].dst = op[w].dst /\ op'[w].at = step
      /\ NamesOf(w)' = NamesOf(w)
  BY DEF Goto, TypeOK, Operation, NamesOf, Idle, At, Movers, Light
<1>2. \A v \in Workers \ {w} : op'[v] = op[v] /\ NamesOf(v)' = NamesOf(v)
  BY DEF Goto, TypeOK, NamesOf, At
<1>3. UNCHANGED <<dirty, disturbed>>
  BY DEF Goto
<1>4. ASSUME NEW v \in Workers, op'[v] # Idle, ~At(v, "removeBase")'
      PROVE  /\ At(v, "moveDir")' <=> op'[v].src # op'[v].dst
             /\ op'[v].src \in dirty' <=> op'[v].dst \in dirty'
  <2>1. CASE v = w
    BY <1>1, <1>3, <2>1 DEF Sharing, At, Movers
  <2>2. CASE v # w
    BY <1>2, <1>3, <1>4, <2>2 DEF Sharing, At
  <2> QED BY <2>1, <2>2
<1>5. \A v \in Workers : NamesOf(v)' = NamesOf(v)
  BY <1>1, <1>2
<1>6. ASSUME NEW u \in Workers, NEW v \in Workers, u # v, Conflict(op'[u].at, op'[v].at)
      PROVE  Conflict(op[u].at, op[v].at)
  <2>1. CASE u = w
    <3>1. op[v].at \in Movers /\ op[v].at \notin Light
      BY <1>1, <1>2, <1>6, <2>1, ConflictMeans
    <3> QED BY <2>1, <3>1, ConflictMeans
  <2>2. CASE v = w
    <3>1. op[u].at \in Movers /\ op[u].at \notin Light
      BY <1>1, <1>2, <1>6, <2>2, ConflictMeans
    <3> QED BY <2>2, <3>1, ConflictMeans
  <2>3. CASE u # w /\ v # w
    BY <1>2, <1>6, <2>3
  <2> QED BY <2>1, <2>2, <2>3
<1>7. \A v \in Workers : At(v, "removeBase")' => At(v, "removeBase")
  BY <1>1, <1>2 DEF At, Movers
<1> QED BY <1>3, <1>4, <1>5, <1>6, <1>7 DEF Sharing

\* And its end, if it leaves its names as they are or gives them up.
LEMMA LeaveSharing ==
    ASSUME TypeOK, Sharing, NEW w \in Workers, Leave(w),
           \/ dirty' = dirty
           \/ dirty' = dirty \cup NamesOf(w) /\ op[w].at \notin Light,
           base' \/ (dirs' = {} /\ dirty' = Names)
    PROVE  Sharing'
<1>1. op'[w] = Idle /\ NamesOf(w)' = {} /\ op'[w].at \in Light
  BY AccountsAssumption DEF Leave, TypeOK, NamesOf, Idle, At, Light
<1>2. \A v \in Workers \ {w} : /\ op'[v] = op[v] /\ NamesOf(v)' = NamesOf(v)
                               /\ v \in disturbed => v \in disturbed'
  BY DEF Leave, TypeOK, NamesOf, At
<1>3. \A v \in Workers : NamesOf(v) \subseteq Names
  BY NamesOfWorker
<1>4. ASSUME NEW v \in Workers, op'[v] # Idle, ~At(v, "removeBase")'
      PROVE  /\ At(v, "moveDir")' <=> op'[v].src # op'[v].dst
             /\ op'[v].src \in dirty' <=> op'[v].dst \in dirty'
  <2>1. /\ v # w /\ op[v] # Idle /\ ~At(v, "removeBase")
        /\ NamesOf(v) = {op[v].src, op[v].dst}
        /\ At(v, "moveDir") <=> op[v].src # op[v].dst
        /\ op[v].src \in dirty <=> op[v].dst \in dirty
    <3>1. v # w
      BY <1>1, <1>4
    <3>2. op[v] # Idle /\ ~At(v, "removeBase")
      BY <1>2, <1>4, <3>1 DEF At
    <3> QED BY <3>1, <3>2, NamesOfWorker DEF Sharing
  <2>2. CASE dirty' = dirty \/ ~At(v, "moveDir")
    BY <1>2, <2>1, <2>2 DEF At
  <2>3. CASE dirty' = dirty \cup NamesOf(w) /\ op[w].at \notin Light /\ At(v, "moveDir")
    <3>1. Conflict(op[w].at, op[v].at)
      BY <2>3, ConflictMeans, StepKinds DEF At
    <3>2. NamesOf(v) \cap NamesOf(w) = {} \/ NamesOf(v) \subseteq dirty
      BY <2>1, <3>1 DEF Sharing
    <3> QED BY <1>2, <2>1, <2>3, <3>2 DEF At
  <2> QED BY <2>2, <2>3
<1>5. ASSUME NEW u \in Workers, NEW v \in Workers, u # v,
             Conflict(op'[u].at, op'[v].at), (NamesOf(u) \cap NamesOf(v))' # {}
      PROVE  v \in disturbed' /\ NamesOf(v)' \subseteq dirty'
  <2>1. u # w /\ v # w
    BY <1>1, <1>5
  <2> QED BY <1>2, <1>5, <2>1 DEF Sharing
<1>6. ASSUME NEW v \in Workers, At(v, "removeBase")' PROVE dirty' = Names
  <2>1. v # w
    BY <1>1, <1>6 DEF At, Idle
  <2> QED BY <1>2, <1>3, <1>6, <2>1 DEF Sharing, At, TypeOK
<1> QED BY <1>4, <1>5, <1>6 DEF Sharing

\* A worker that nothing raced with has its name to itself, but for what is harmless to it.
LEMMA Undisturbed ==
    ASSUME TypeOK, Sharing, NEW w \in Workers, w \notin disturbed \/ op[w].src \notin dirty,
           op[w].at \notin Light, ~At(w, "removeBase"),
           NEW v \in Workers \ {w}, Conflict(op[v].at, op[w].at)
    PROVE  NamesOf(v) \cap NamesOf(w) = {} /\ ~At(v, "removeBase")
<1>1. op[w] # Idle
  BY DEF Light, Idle
<1>2. /\ op[w].src \in Names /\ NamesOf(w) = {op[w].src, op[w].dst}
  BY <1>1, NamesOfWorker
<1>3. NamesOf(v) \cap NamesOf(w) = {}
  BY <1>2 DEF Sharing
<1> QED BY <1>2, <1>3, NamesOfWorker

\* An activation or a deletion that mends its name.
LEMMA MendingSharing ==
    ASSUME TypeOK, Sharing, NEW w \in Workers, FinishMending(w), UNCHANGED base,
           At(w, "mkdirAgain") \/ At(w, "removeAll"),
           base \/ dirs' = {}
    PROVE  Sharing'
<1>1. CASE ~(base /\ w \notin disturbed)
  <2>1. Leave(w) /\ dirty' = dirty
    BY <1>1 DEF FinishMending
  <2>2. base' \/ (dirs' = {} /\ dirty' = Names)
    BY <2>1 DEF Sharing
  <2> QED BY <2>1, <2>2, LeaveSharing
<1>2. CASE base /\ w \notin disturbed
  <2> DEFINE o == op[w].src
  <2>1. /\ op[w] # Idle /\ op[w].at \notin Light /\ ~At(w, "removeBase") /\ ~At(w, "moveDir")
    BY DEF At, Light, Idle
  <2>2. o \in Names /\ op[w].dst = o /\ NamesOf(w) = {o}
    BY <2>1, NamesOfWorker DEF Sharing
  <2>3. dirty' = dirty \ {o} /\ op'[w] = Idle /\ NamesOf(w)' = {} /\ op'[w].at \in Light
    BY <1>2, <2>2, AccountsAssumption
    DEF FinishMending, Leave, TypeOK, NamesOf, Idle, At, Light
  <2>4. \A v \in Workers \ {w} : /\ op'[v] = op[v] /\ NamesOf(v)' = NamesOf(v)
                                 /\ v \in disturbed => v \in disturbed'
    BY DEF FinishMending, Leave, TypeOK, NamesOf, At
  <2>5. ASSUME NEW v \in Workers \ {w}, op[v].at \in Movers
        PROVE  o \notin NamesOf(v) /\ ~At(v, "removeBase")
    <3>1. Conflict(op[v].at, op[w].at)
      BY <2>1, <2>5, ConflictMeans, StepKinds
    <3>2. NamesOf(v) \cap NamesOf(w) = {} /\ ~At(v, "removeBase")
      BY <1>2, <2>1, <3>1, Undisturbed
    <3> QED BY <2>2, <3>2
  <2>6. ASSUME NEW v \in Workers, op'[v] # Idle, ~At(v, "removeBase")'
        PROVE  /\ At(v, "moveDir")' <=> op'[v].src # op'[v].dst
               /\ op'[v].src \in dirty' <=> op'[v].dst \in dirty'
    <3>1. /\ v # w /\ op[v] # Idle /\ ~At(v, "removeBase")
          /\ NamesOf(v) = {op[v].src, op[v].dst}
          /\ At(v, "moveDir") <=> op[v].src # op[v].dst
          /\ op[v].src \in dirty <=> op[v].dst \in dirty
      BY <2>3, <2>4, <2>6, NamesOfWorker DEF Sharing, At
    <3>2. CASE At(v, "moveDir")
      BY <2>3, <2>4, <2>5, <3>1, <3>2 DEF At, Movers
    <3>3. CASE ~At(v, "moveDir")
      BY <2>4, <3>1, <3>3 DEF At
    <3> QED BY <3>2, <3>3
  <2>7. ASSUME NEW u \in Workers, NEW v \in Workers, u # v,
               Conflict(op'[u].at, op'[v].at), (NamesOf(u) \cap NamesOf(v))' # {}
        PROVE  v \in disturbed' /\ NamesOf(v)' \subseteq dirty'
    <3>1. u # w /\ v # w
      BY <2>3, <2>7
    <3>2. Conflict(op[u].at, op[v].at) /\ NamesOf(u) \cap NamesOf(v) # {}
      BY <2>4, <2>7, <3>1
    <3>3. v \in disturbed /\ NamesOf(v) \subseteq dirty
      BY <2>7, <3>2 DEF Sharing
    <3>4. o \notin NamesOf(v)
      <4>1. CASE op[v].at \in Movers
        BY <2>5, <3>1, <4>1
      <4>2. CASE op[v].at \notin Movers
        <5>1. op[u].at \in Movers /\ op[v] # Idle /\ ~At(v, "removeBase") /\ ~At(v, "moveDir")
          BY <3>2, <4>2, ConflictMeans, StepKinds DEF At, Idle
        <5>2. NamesOf(v) = {op[v].src}
          BY <5>1, NamesOfWorker DEF Sharing
        <5>3. op[v].src \in NamesOf(u) /\ o \notin NamesOf(u)
          BY <2>5, <3>1, <3>2, <5>1, <5>2
        <5> QED BY <5>2, <5>3
      <4> QED BY <4>1, <4>2
    <3> QED BY <2>3, <2>4, <3>1, <3>3, <3>4
  <2>8. ASSUME NEW v \in Workers, At(v, "removeBase")' PROVE FALSE
    BY <2>3, <2>4, <2>5, <2>8 DEF At, Idle, Movers
  <2> QED BY <1>2, <2>6, <2>7, <2>8 DEF Sharing
<1> QED BY <1>1, <1>2

LEMMA StepSharing == TypeOK /\ Sharing /\ [Next]_vars => Sharing'
<1> SUFFICES ASSUME TypeOK, Sharing, [Next]_vars PROVE Sharing'
  OBVIOUS
<1>0. TypeOK'
  BY StepTypeOK
<1>1. ASSUME NEW w \in Workers, NEW n \in Names,
             \/ RegisterStat(w, n) \/ ActivateSelect(w, n) \/ DeleteRow(w, n)
             \/ SaveCheck(w, n)
      PROVE  Sharing'
  <2>1. \E step \in Steps \ {"moveDir", "removeBase"} : BeginOn(w, step, n, n, {n, n})
    BY <1>1 DEF RegisterStat, ActivateSelect, DeleteRow, SaveCheck, Steps, Begin
  <2>2. UNCHANGED disk
    BY <1>1 DEF RegisterStat, ActivateSelect, DeleteRow, SaveCheck
  <2> QED BY <1>0, <2>1, <2>2, BeginSharing
<1>2. ASSUME NEW w \in Workers, NEW o \in Names, NEW n \in Names, RenameUpdate(w, o, n)
      PROVE  Sharing'
  <2>1. BeginOn(w, "moveDir", o, n, {o, n}) /\ o # n /\ "moveDir" \in Steps /\ UNCHANGED disk
    BY <1>2 DEF RenameUpdate, Steps, Begin
  <2> QED BY <1>0, <2>1, BeginSharing
<1>3. ASSUME NEW w \in Workers, DeleteNoRow(w) PROVE Sharing'
  <2>1. BeginOn(w, "removeBase", None, None, Names) /\ "removeBase" \in Steps /\ UNCHANGED disk
    BY <1>3 DEF DeleteNoRow, Steps
  <2> QED BY <1>0, <2>1, BeginSharing
<1>4. ASSUME NEW w \in Workers,
             ActivateUpdate(w) \/ ActivateMkdir(w) \/ ActivateIndex(w) \/ SaveMkdirAll(w)
      PROVE  Sharing'
  <2>1. op[w].at \notin Movers \cup Light
    BY <1>4 DEF ActivateUpdate, ActivateMkdir, ActivateIndex, SaveMkdirAll, At, Movers, Light
  <2>2. \E step \in Steps \ (Movers \cup {"insert"}) : Goto(w, step)
    BY <1>4 DEF ActivateUpdate, ActivateMkdir, ActivateIndex, SaveMkdirAll, Steps, Movers
  <2>3. base' \/ (dirs' = {} /\ dirty' = Names)
    BY <1>4 DEF ActivateUpdate, ActivateMkdir, ActivateIndex, SaveMkdirAll, Mkdir, Sharing,
                Goto, disk
  <2> QED BY <2>1, <2>2, <2>3, GotoSharing
<1>5. ASSUME NEW w \in Workers,
             RegisterInsert(w) \/ RegisterRefused(w) \/ RenameDir(w) \/ DeleteBase(w)
                \/ SaveWrite(w)
      PROVE  Sharing'
  <2>1. Leave(w) /\ dirty' = dirty
    BY <1>5 DEF RegisterInsert, RegisterRefused, RenameDir, DeleteBase, SaveWrite, Finish
  <2>2. base' \/ (dirs' = {} /\ dirty' = Names)
    BY <1>5, <2>1 DEF RegisterInsert, RegisterRefused, RenameDir, DeleteBase, SaveWrite,
                      Sharing, disk
  <2> QED BY <2>1, <2>2, LeaveSharing
<1>6. ASSUME NEW w \in Workers, ActivateMkdirAgain(w) \/ DeleteDir(w) PROVE Sharing'
  <2>1. /\ FinishMending(w) /\ UNCHANGED base /\ (base \/ dirs' = {})
        /\ At(w, "mkdirAgain") \/ At(w, "removeAll")
    BY <1>6 DEF ActivateMkdirAgain, DeleteDir, Mkdir, Sharing
  <2> QED BY <2>1, MendingSharing
<1>7. ASSUME NEW w \in Workers, Abandon(w) PROVE Sharing'
  <2>1. /\ Leave(w)
        /\ \/ dirty' = dirty
           \/ dirty' = dirty \cup NamesOf(w) /\ op[w].at \notin Light
    BY <1>7 DEF Abandon, HalfDone, Movers, Light
  <2>2. UNCHANGED base /\ dirs' \subseteq dirs /\ dirty \subseteq dirty'
    BY <1>7 DEF Abandon
  <2>3. base' \/ (dirs' = {} /\ dirty' = Names)
    BY <1>0, <2>2 DEF Sharing, TypeOK
  <2> QED BY <2>1, <2>3, LeaveSharing
<1>8. CASE UNCHANGED vars
  BY <1>8 DEF Sharing, NamesOf, At, vars, disk
<1> QED
  BY <1>1, <1>2, <1>3, <1>4, <1>5, <1>6, <1>7, <1>8 DEF Next, Step

-------------------------------------------------------------------------------
LEMMA StepIdentity == TypeOK /\ Identity /\ [Next]_vars => Identity'
<1> SUFFICES ASSUME TypeOK, Identity, [Next]_vars PROVE Identity'
  OBVIOUS
<1> USE AccountsAssumption DEF TypeOK, Identity
<1>1. ASSUME UNCHANGED <<holder, active, issued, dirs, home>> PROVE Identity'
  BY <1>1
<1>2. ASSUME NEW w \in Workers, RegisterInsert(w) PROVE Identity'
  <2>1. op[w].src \in Names
    BY <1>2, NamesOfWorker DEF RegisterInsert, At, Idle
  <2>2. PICK i \in Ids \ issued : /\ holder' = [holder EXCEPT ![op[w].src] = i]
                                 /\ issued' = issued \cup {i}
    BY <1>2 DEF RegisterInsert
  <2>3. UNCHANGED <<active, dirs, home>>
    BY <1>2 DEF RegisterInsert, disk
  <2> QED BY <2>1, <2>2, <2>3
<1>3. ASSUME NEW w \in Workers, ActivateUpdate(w) PROVE Identity'
  <2>1. op[w].src \in Names
    BY <1>3, NamesOfWorker DEF ActivateUpdate, At, Idle
  <2> QED BY <1>3, <2>1 DEF ActivateUpdate, disk
<1>4. ASSUME NEW w \in Workers, ActivateMkdir(w) \/ ActivateMkdirAgain(w) \/ SaveMkdirAll(w)
      PROVE  Identity'
  BY <1>4 DEF ActivateMkdir, ActivateMkdirAgain, SaveMkdirAll, Mkdir
<1>5. ASSUME NEW w \in Workers, ActivateIndex(w) PROVE Identity'
  <2>1. op[w].src \in Names
    BY <1>5, NamesOfWorker DEF ActivateIndex, At, Idle
  <2> QED BY <1>5, <2>1 DEF ActivateIndex
<1>6. ASSUME NEW w \in Workers, NEW o \in Names, NEW n \in Names, RenameUpdate(w, o, n)
      PROVE  Identity'
  BY <1>6 DEF RenameUpdate, disk
<1>7. ASSUME NEW w \in Workers, RenameDir(w) PROVE Identity'
  <2>1. op[w].src \in Names /\ op[w].dst \in Names
    BY <1>7, NamesOfWorker DEF RenameDir, At, Idle
  <2> QED BY <1>7, <2>1 DEF RenameDir
<1>8. ASSUME NEW w \in Workers, NEW n \in Names, DeleteRow(w, n) PROVE Identity'
  BY <1>8 DEF DeleteRow, disk
<1>9. ASSUME NEW w \in Workers, DeleteDir(w) PROVE Identity'
  <2>1. op[w].src \in Names
    BY <1>9, NamesOfWorker DEF DeleteDir, At, Idle
  <2> QED BY <1>9, <2>1 DEF DeleteDir
<1>10. ASSUME NEW w \in Workers, DeleteBase(w) PROVE Identity'
  BY <1>10 DEF DeleteBase
<1>11. ASSUME NEW w \in Workers, Abandon(w) PROVE Identity'
  <2>1. UNCHANGED <<holder, active, issued>>
    BY <1>11 DEF Abandon
  <2>2. (IF op[w].at \in {"removeAll", "removeBase"} THEN NamesOf(w) ELSE {}) \subseteq Names
    BY NamesOfWorker
  <2>3. PICK pages \in SUBSET Names : \E gone \in SUBSET pages :
           /\ home' = [n \in Names |-> IF n \in pages THEN None ELSE home[n]]
           /\ dirs' = dirs \ gone
    BY <1>11, <2>2 DEF Abandon
  <2> QED BY <2>1, <2>3
<1>12. ASSUME NEW w \in Workers, SaveWrite(w) PROVE Identity'
  <2>1. op[w].src \in Names
    BY <1>12, NamesOfWorker DEF SaveWrite, At, Idle
  <2> QED BY <1>12, <2>1 DEF SaveWrite
<1> QED
  BY <1>1, <1>2, <1>3, <1>4, <1>5, <1>6, <1>7, <1>8, <1>9, <1>10, <1>11, <1>12
  DEF Next, Step, vars, disk, RegisterStat, RegisterRefused, ActivateSelect, SaveCheck,
      DeleteNoRow

-------------------------------------------------------------------------------
LEMMA InitIInv == Init => IInv
<1> SUFFICES ASSUME Init PROVE IInv
  OBVIOUS
<1>1. \A w \in Workers : op[w] = Idle /\ At(w, "idle")
  BY DEF Init, Idle, At
<1>2. Sharing
  BY <1>1, StepKinds, ConflictMeans DEF Init, Sharing, At
<1>3. Identity
  BY AccountsAssumption DEF Init, Identity
<1>4. Agreement
  BY <1>1, AccountsAssumption DEF Init, Agreement, Good, Halfway, At
<1> QED BY <1>2, <1>3, <1>4, InitTypeOK DEF IInv

\* A worker with nothing to rely on, by where it stands or by who raced with it.
LEMMA NothingToRelyOn ==
    ASSUME NEW v,
           \/ op[v].at \in Light \cup {"removeBase"}
           \/ op[v].src \in dirty /\ v \in disturbed
    PROVE  Halfway(v)
BY StepKinds DEF Halfway, At

\* What one worker's step leaves to show: its own names, and the workers that share them.
LEMMA WorkerAgreement ==
    ASSUME IInv, NEW w \in Workers, NEW M,
           \A v \in Workers \ {w} : op'[v] = op[v] /\ (v \in disturbed => v \in disturbed'),
           \A n \in Names : Making(w, n) \/ Taking(w, n) => n \in M,
           \A n \in Names \ M : /\ n \in dirs' <=> n \in dirs
                                /\ holder'[n] = holder[n]
                                /\ home'[n] = home[n]
                                /\ holder[n] \in active' <=> holder[n] \in active
                                /\ n \in dirty => n \in dirty',
           \A i \in issued : (\A m \in Names : holder[m] # i) => \A m \in Names : holder'[m] # i,
           \A n \in M \cap Names : n \notin dirty' => Good(n)',
           \A v \in Workers \ {w} :
              NamesOf(v) \cap M # {} /\ op[v].at \notin Light \cup {"removeBase"} => Halfway(v)',
           Halfway(w)'
    PROVE  Agreement'
<1> USE DEF IInv
<1>1. ASSUME NEW n \in Names, n \notin dirty', n \notin M PROVE Good(n)'
  <2>1. Good(n)
    BY <1>1 DEF Agreement
  <2>2. \A v \in Workers : /\ Making(v, n) => Making(v, n)'
                           /\ Taking(v, n) => Taking(v, n)'
    BY <1>1 DEF Making, Taking, At
  <2>3. /\ n \in dirs' <=> n \in dirs
        /\ holder'[n] = holder[n]
        /\ home'[n] = home[n]
        /\ holder'[n] \in active' <=> holder[n] \in active
    BY <1>1
  <2> HIDE DEF IInv
  <2> QED BY <2>1, <2>2, <2>3 DEF Good
<1>2. ASSUME NEW v \in Workers \ {w}, NamesOf(v) \cap M = {},
             op[v].at \notin Light \cup {"removeBase"}
      PROVE  Halfway(v)'
  <2> DEFINE o == op[v].src
             d == op[v].dst
  <2>1. op[v] # Idle /\ ~At(v, "removeBase")
    BY <1>2, StepKinds DEF Idle, At
  <2>2. o \in Names \ M /\ d \in Names \ M
    BY <1>2, <2>1, NamesOfWorker
  <2>3. \A n \in {o, d} : /\ n \in dirs' <=> n \in dirs
                          /\ holder'[n] = holder[n]
                          /\ home'[n] = home[n]
                          /\ holder[n] \in active' <=> holder[n] \in active
                          /\ n \in dirty => n \in dirty'
    BY <2>2
  <2>4. op'[v] = op[v] /\ (v \in disturbed => v \in disturbed')
    OBVIOUS
  <2>5. home[o] \in Ids /\ (\A m \in Names : holder[m] # home[o]) =>
           \A m \in Names : holder'[m] # home[o]
    BY <2>2 DEF Identity
  <2>6. Halfway(v)
    BY DEF Agreement
  <2> QED BY <2>3, <2>4, <2>5, <2>6 DEF Halfway, At
<1>3. ASSUME NEW v \in Workers \ {w}, op[v].at \in Light \cup {"removeBase"}
      PROVE  Halfway(v)'
  <2>1. op'[v].at \in Light \cup {"removeBase"}
    BY <1>3
  <2> QED BY <2>1, StepKinds DEF Halfway, At
<1> QED BY <1>1, <1>2, <1>3 DEF Agreement

\* Whoever conflicts with a worker over a name relies on nothing afterwards.
LEMMA Disturbed ==
    ASSUME IInv, NEW w \in Workers, NEW v \in Workers \ {w},
           Conflict(op[w].at, op[v].at), NamesOf(v) \cap NamesOf(w) # {},
           op'[v] = op[v], v \in disturbed => v \in disturbed',
           dirty \subseteq dirty', ~At(v, "removeBase")
    PROVE  Halfway(v)'
<1> USE DEF IInv
<1>1. op[v] # Idle
  BY ConflictMeans, StepKinds DEF Idle
<1>2. op[v].src \in NamesOf(v)
  BY <1>1, NamesOfWorker
<1>3. v \in disturbed /\ NamesOf(v) \subseteq dirty
  BY DEF Sharing
<1>4. op'[v].src \in dirty' /\ v \in disturbed'
  BY <1>2, <1>3
<1> QED BY <1>4 DEF Halfway

\* What starting an operation does to the others.
LEMMA BeginFacts ==
    ASSUME TypeOK, NEW w \in Workers, NEW step, NEW s, NEW d, NEW N, BeginOn(w, step, s, d, N)
    PROVE  /\ op[w] = Idle
           /\ op'[w] = [at |-> step, src |-> s, dst |-> d]
           /\ \A v \in Workers \ {w} : op'[v] = op[v] /\ (v \in disturbed => v \in disturbed')
           /\ \A n : ~Making(w, n) /\ ~Taking(w, n)
           /\ dirty \subseteq dirty'
           /\ \A v \in Workers \ {w} :
                 Conflict(step, op[v].at) /\ NamesOf(v) \cap N # {} =>
                    /\ v \in disturbed' /\ NamesOf(v) \subseteq dirty'
                    /\ w \in disturbed' /\ N \subseteq dirty'
           /\ step = "removeBase" => N \subseteq dirty'
<1>1. /\ op[w] = Idle
      /\ op'[w] = [at |-> step, src |-> s, dst |-> d]
      /\ \A v \in Workers \ {w} : op'[v] = op[v] /\ (v \in disturbed => v \in disturbed')
      /\ dirty \subseteq dirty'
  BY DEF BeginOn, TypeOK
<1>2. \A n : ~Making(w, n) /\ ~Taking(w, n)
  BY <1>1 DEF Making, Taking, At, Idle
<1>3. ASSUME NEW v \in Workers \ {w}, Conflict(step, op[v].at), NamesOf(v) \cap N # {}
      PROVE  /\ v \in disturbed' /\ NamesOf(v) \subseteq dirty'
             /\ w \in disturbed' /\ N \subseteq dirty'
  <2>1. v \in Rivals(w, step, N)
    BY <1>3 DEF Rivals
  <2> QED BY <2>1 DEF BeginOn, Soiled
<1>4. step = "removeBase" => N \subseteq dirty'
  BY DEF BeginOn, Soiled
<1> QED BY <1>1, <1>2, <1>3, <1>4

\* Under a clean name nothing is in between but a worker that would conflict with a mover.
LEMMA CleanStart ==
    ASSUME IInv, NEW w \in Workers, NEW step \in Steps \ Light, NEW s, NEW d, NEW N,
           BeginOn(w, step, s, d, N), NEW n \in N \cap Names, n \notin dirty'
    PROVE  /\ n \in dirs => holder[n] \in active
           /\ home[n] \in Ids => home[n] = holder[n]
           /\ step \in Movers /\ holder[n] \in active => n \in dirs
<1> USE DEF IInv
<1>0. /\ op[w] = Idle
      /\ dirty \subseteq dirty'
      /\ \A v \in Workers \ {w} :
            Conflict(step, op[v].at) /\ NamesOf(v) \cap N # {} => N \subseteq dirty'
  BY BeginFacts
<1>1. n \notin dirty
  BY <1>0
<1>2. Good(n)
  BY <1>1 DEF Agreement
<1>3. ASSUME NEW v \in Workers, Taking(v, n) PROVE FALSE
  <2>1. v # w
    BY <1>0, <1>3 DEF Taking, Idle
  <2>2. op[v].at \in Movers /\ n \in NamesOf(v) /\ op[v].at \notin Light
    BY <1>3, NamesOfWorker, StepKinds DEF Taking, Idle, At
  <2> QED BY <1>0, <2>1, <2>2, ConflictMeans
<1>4. ASSUME NEW v \in Workers, Making(v, n), step \in Movers PROVE FALSE
  <2>1. v # w
    BY <1>0, <1>4 DEF Making, Idle, At
  <2>2. n \in NamesOf(v) /\ op[v].at \notin Light
    BY <1>4, NamesOfWorker, StepKinds DEF Making, Idle, At
  <2> QED BY <1>0, <1>4, <2>1, <2>2, ConflictMeans
<1> QED BY <1>2, <1>3, <1>4 DEF Good

LEMMA StartAgreement ==
    ASSUME IInv, TypeOK', Sharing', NEW w \in Workers, NEW n \in Names,
           \/ RegisterStat(w, n) \/ ActivateSelect(w, n) \/ DeleteRow(w, n)
           \/ SaveCheck(w, n)
    PROVE  Agreement'
<1> USE DEF IInv
<1>1. PICK step \in {"insert", "update", "removeAll", "makeDir", "write"} :
         /\ BeginOn(w, step, n, n, {n})
         /\ step = "update" => holder[n] # None /\ UNCHANGED holder
         /\ step = "makeDir" => n \in dirs
         /\ step # "removeAll" => UNCHANGED <<holder, active>>
         /\ step = "removeAll" => DeleteRow(w, n)
         /\ UNCHANGED <<dirs, home>>
  BY DEF RegisterStat, ActivateSelect, DeleteRow, SaveCheck, Begin, disk
<1>2. /\ op[w] = Idle
      /\ op'[w] = [at |-> step, src |-> n, dst |-> n]
      /\ \A v \in Workers \ {w} : op'[v] = op[v] /\ (v \in disturbed => v \in disturbed')
      /\ \A m : ~Making(w, m) /\ ~Taking(w, m)
      /\ dirty \subseteq dirty'
      /\ \A v \in Workers \ {w} :
            Conflict(step, op[v].at) /\ NamesOf(v) \cap {n} # {} =>
               /\ v \in disturbed' /\ NamesOf(v) \subseteq dirty'
               /\ w \in disturbed' /\ n \in dirty'
  BY <1>1, BeginFacts
<1>3. step \in Steps /\ (step \notin {"insert", "write"} => step \in Steps \ Light)
  BY StepKinds DEF Steps
<1>4. /\ \A m \in Names \ {n} : holder'[m] = holder[m]
      /\ \A m \in Names \ {n} : holder[m] \in active' <=> holder[m] \in active
      /\ \A i \in issued : (\A m \in Names : holder[m] # i) => \A m \in Names : holder'[m] # i
  <2>1. CASE step # "removeAll"
    BY <1>1, <2>1
  <2>2. CASE step = "removeAll"
    <3>1. /\ holder' = [holder EXCEPT ![n] = None]
          /\ active' = active \ {holder[n]}
      BY <1>1, <2>2 DEF DeleteRow
    <3>2. None \notin active /\ None \notin issued
      BY AccountsAssumption DEF TypeOK
    <3> QED BY <3>1, <3>2 DEF TypeOK, Identity
  <2> QED BY <2>1, <2>2
<1>5. ASSUME n \notin dirty' PROVE Good(n)'
  <2>1. CASE step # "removeAll"
    <3>1. Good(n)
      BY <1>2, <1>5 DEF Agreement
    <3>2. \A v \in Workers : /\ Making(v, n) => Making(v, n)'
                             /\ Taking(v, n) => Taking(v, n)'
      BY <1>2 DEF Making, Taking, At
    <3>3. UNCHANGED <<holder, active, dirs, home>>
      BY <1>1, <2>1
    <3> HIDE DEF IInv
    <3> QED BY <3>1, <3>2, <3>3 DEF Good
  <2>2. CASE step = "removeAll"
    <3>1. Taking(w, n)'
      BY <1>2, <2>2 DEF Taking
    <3>2. holder'[n] = None /\ None \notin active'
      BY <1>1, <2>2, AccountsAssumption DEF DeleteRow, TypeOK
    <3> HIDE DEF IInv
    <3> QED BY <3>1, <3>2 DEF Good
  <2> QED BY <2>1, <2>2
<1>6. ASSUME NEW v \in Workers \ {w}, NamesOf(v) \cap {n} # {},
             op[v].at \notin Light \cup {"removeBase"}
      PROVE  Halfway(v)'
  <2>1. CASE step # "removeAll"
    <3>1. UNCHANGED <<holder, active, dirs, home>> /\ op'[v] = op[v]
      BY <1>1, <1>2, <2>1
    <3>2. Halfway(v)
      BY DEF Agreement
    <3>3. /\ op[v].src \in dirty => op[v].src \in dirty'
          /\ v \in disturbed => v \in disturbed'
      BY <1>2
    <3> HIDE DEF IInv
    <3> QED BY <3>1, <3>2, <3>3 DEF Halfway, At
  <2>2. CASE step = "removeAll"
    <3>1. Conflict(step, op[v].at)
      BY <1>6, <2>2, ConflictMeans, StepKinds
    <3>2. op[v].src \in NamesOf(v)
      BY <1>6, StepKinds, NamesOfWorker DEF Idle, At
    <3>3. op'[v].src \in dirty' /\ v \in disturbed'
      BY <1>2, <1>6, <3>1, <3>2
    <3> HIDE DEF IInv
    <3> QED BY <3>3 DEF Halfway
  <2> QED BY <2>1, <2>2
<1>7. Halfway(w)'
  <2>1. CASE step \in {"insert", "write"}
    BY <1>2, <2>1 DEF Halfway, At
  <2>2. CASE step = "update"
    BY <1>1, <1>2, <2>2 DEF Halfway, At
  <2>3. CASE step = "makeDir"
    <3>1. n \notin dirty' => holder[n] \in active
      BY <1>1, <1>3, <2>3, CleanStart
    <3>2. UNCHANGED <<holder, active, dirs, home>>
      BY <1>1, <2>3
    <3> QED BY <1>1, <1>2, <2>3, <3>1, <3>2 DEF Halfway, At
  <2>4. CASE step = "removeAll"
    <3>1. n \notin dirty' /\ home[n] \in Ids => home[n] = holder[n]
      BY <1>1, <1>3, <2>4, CleanStart
    <3>2. /\ holder' = [holder EXCEPT ![n] = None]
          /\ UNCHANGED home
      BY <1>1, <2>4 DEF DeleteRow
    <3>3. holder'[n] = None /\ None \notin active' /\ None \notin Ids
      BY <3>2, AccountsAssumption DEF TypeOK
    <3>4. n \notin dirty' /\ home[n] \in Ids => \A m \in Names : holder'[m] # home[n]
      BY <3>1, <3>2, <3>3 DEF Identity, TypeOK
    <3> QED BY <1>2, <2>4, <3>2, <3>3, <3>4 DEF Halfway, At
  <2> QED BY <2>1, <2>2, <2>3, <2>4
<1> HIDE DEF IInv
<1> QED BY <1>1, <1>2, <1>4, <1>5, <1>6, <1>7, WorkerAgreement

LEMMA RenameUpdateAgreement ==
    ASSUME IInv, TypeOK', NEW w \in Workers, NEW o \in Names, NEW d \in Names,
           RenameUpdate(w, o, d)
    PROVE  Agreement'
<1> USE DEF IInv
<1>1. /\ BeginOn(w, "moveDir", o, d, {o, d})
      /\ o # d /\ holder[o] # None /\ holder[d] = None
      /\ holder' = [holder EXCEPT ![d] = holder[o], ![o] = None]
      /\ UNCHANGED <<active, dirs, home>>
  BY DEF RenameUpdate, Begin, disk
<1>2. /\ op[w] = Idle
      /\ op'[w] = [at |-> "moveDir", src |-> o, dst |-> d]
      /\ \A v \in Workers \ {w} : op'[v] = op[v] /\ (v \in disturbed => v \in disturbed')
      /\ \A m : ~Making(w, m) /\ ~Taking(w, m)
      /\ dirty \subseteq dirty'
      /\ \A v \in Workers \ {w} :
            Conflict("moveDir", op[v].at) /\ NamesOf(v) \cap {o, d} # {} =>
               /\ v \in disturbed' /\ NamesOf(v) \subseteq dirty'
  BY <1>1, BeginFacts
<1>3. "moveDir" \in Steps \ Light /\ "moveDir" \in Movers
  BY StepKinds DEF Steps
<1>4. \A n \in {o, d} : n \notin dirty' => /\ n \in dirs <=> holder[n] \in active
                                           /\ home[n] \in Ids => home[n] = holder[n]
  BY <1>1, <1>3, CleanStart
<1>5. /\ holder'[d] = holder[o] /\ holder'[o] = None
      /\ \A m \in Names \ {o, d} : holder'[m] = holder[m]
      /\ None \notin active /\ None \notin Ids /\ None \notin issued
  BY <1>1, AccountsAssumption DEF TypeOK
<1>6. \A i \in issued : (\A m \in Names : holder[m] # i) => \A m \in Names : holder'[m] # i
  BY <1>5
<1>7. d \notin dirty' => d \notin dirs /\ home[d] \notin Ids
  BY <1>1, <1>4, <1>5 DEF Identity
<1>8. o \in dirty' <=> d \in dirty'
  BY <1>1 DEF BeginOn, Soiled
<1>9. ASSUME NEW n \in {o, d}, n \notin dirty' PROVE Good(n)'
  <2>1. Taking(w, o)' /\ Making(w, d)'
    BY <1>2 DEF Taking, Making, At
  <2>2. CASE n = o
    BY <1>1, <1>5, <2>1, <2>2 DEF Good
  <2>3. CASE n = d
    BY <1>1, <1>7, <1>9, <2>1, <2>3 DEF Good
  <2> QED BY <2>2, <2>3
<1>10. ASSUME NEW v \in Workers \ {w}, NamesOf(v) \cap {o, d} # {},
              op[v].at \notin Light \cup {"removeBase"}
       PROVE  Halfway(v)'
  <2>1. Conflict("moveDir", op[v].at)
    BY <1>3, <1>10, ConflictMeans
  <2>2. op[v].src \in NamesOf(v)
    BY <1>10, StepKinds, NamesOfWorker DEF Idle, At
  <2>3. op'[v].src \in dirty' /\ v \in disturbed'
    BY <1>2, <1>10, <2>1, <2>2
  <2> HIDE DEF IInv
  <2> QED BY <2>3 DEF Halfway
<1>11. Halfway(w)'
  BY <1>1, <1>2, <1>4, <1>5, <1>7, <1>8 DEF Halfway, At
<1> DEFINE M == {o, d}
<1>12. \A n \in Names \ M : /\ n \in dirs' <=> n \in dirs
                            /\ holder'[n] = holder[n]
                            /\ home'[n] = home[n]
                            /\ holder[n] \in active' <=> holder[n] \in active
                            /\ n \in dirty => n \in dirty'
  BY <1>1, <1>2, <1>5
<1>13. \A n \in M \cap Names : n \notin dirty' => Good(n)'
  BY <1>9
<1>14. \A v \in Workers \ {w} :
          NamesOf(v) \cap M # {} /\ op[v].at \notin Light \cup {"removeBase"} => Halfway(v)'
  BY <1>10
<1>15. \A n \in Names : Making(w, n) \/ Taking(w, n) => n \in M
  BY <1>2
<1> HIDE DEF IInv, M
<1> QED BY <1>2, <1>6, <1>11, <1>12, <1>13, <1>14, <1>15, WorkerAgreement

LEMMA DeleteNoRowAgreement ==
    ASSUME IInv, TypeOK', NEW w \in Workers, DeleteNoRow(w)
    PROVE  Agreement'
<1> USE DEF IInv
<1>1. BeginOn(w, "removeBase", None, None, Names)
  BY DEF DeleteNoRow
<1>2. /\ op'[w] = [at |-> "removeBase", src |-> None, dst |-> None]
      /\ \A v \in Workers \ {w} : op'[v] = op[v]
      /\ \A v \in Workers \ {w} :
            Conflict("removeBase", op[v].at) /\ NamesOf(v) \cap Names # {} =>
               /\ v \in disturbed' /\ NamesOf(v) \subseteq dirty'
      /\ Names \subseteq dirty'
  BY <1>1, BeginFacts
<1>3. ASSUME NEW v \in Workers PROVE Halfway(v)'
  <2>1. CASE v = w
    BY <1>2, <2>1 DEF Halfway, At
  <2>2. CASE v # w /\ op[v].at \in Light \cup {"removeBase"}
    <3>1. op'[v].at \in Light \cup {"removeBase"}
      BY <1>2, <2>2
    <3> QED BY <3>1, StepKinds DEF Halfway, At
  <2>3. CASE v # w /\ op[v].at \notin Light \cup {"removeBase"}
    <3>1. Conflict("removeBase", op[v].at)
      BY <2>3, ConflictMeans, StepKinds
    <3>2. op[v].src \in NamesOf(v) /\ NamesOf(v) \subseteq Names
      BY <2>3, StepKinds, NamesOfWorker DEF Idle, At
    <3>3. op'[v].src \in dirty' /\ v \in disturbed'
      BY <1>2, <2>3, <3>1, <3>2
    <3> QED BY <3>3 DEF Halfway
  <2> QED BY <2>1, <2>2, <2>3
<1> QED BY <1>2, <1>3 DEF Agreement

-------------------------------------------------------------------------------
LEMMA ContinueAgreement ==
    ASSUME IInv, TypeOK', Sharing', NEW w \in Workers,
           ActivateUpdate(w) \/ ActivateMkdir(w) \/ ActivateIndex(w) \/ SaveMkdirAll(w)
    PROVE  Agreement'
<1> USE DEF IInv
<1>0. PICK o \in Names : op[w].src = o
  BY NamesOfWorker
  DEF ActivateUpdate, ActivateMkdir, ActivateIndex, SaveMkdirAll, At, Idle
<1> DEFINE M == {o}
<1>1. /\ op[w] # Idle /\ NamesOf(w) = {o} /\ op[w].dst = o
      /\ op[w].at \in {"update", "mkdir", "index", "makeDir"}
  <2>1. op[w] # Idle /\ ~At(w, "removeBase") /\ ~At(w, "moveDir")
    BY DEF ActivateUpdate, ActivateMkdir, ActivateIndex, SaveMkdirAll, At, Idle
  <2>2. op[w].dst = o
    BY <1>0, <2>1 DEF Sharing
  <2> QED
    BY <1>0, <2>1, <2>2, NamesOfWorker
    DEF ActivateUpdate, ActivateMkdir, ActivateIndex, SaveMkdirAll, At
<1>2. /\ UNCHANGED <<holder, dirty, disturbed>>
      /\ op'[w].src = o /\ op'[w].dst = o
      /\ \A v \in Workers \ {w} : op'[v] = op[v]
  <2>1. UNCHANGED holder /\ \E step : Goto(w, step)
    BY DEF ActivateUpdate, ActivateMkdir, ActivateIndex, SaveMkdirAll
  <2>2. op[w] = [at |-> op[w].at, src |-> o, dst |-> o]
    BY <1>0, <1>1, NamesOfWorker DEF At
  <2> QED BY <2>1, <2>2 DEF Goto, TypeOK
<1>4. Halfway(w) /\ (o \notin dirty => Good(o))
  BY DEF Agreement
<1>5. /\ \A m \in Names : m \in dirs' <=> m \in dirs \/ (m = o /\ o \in dirs')
      /\ \A m \in Names \ {o} : home'[m] = home[m]
      /\ home'[o] = home[o] \/ home'[o] = NoOnes
      /\ \A m \in Names : holder[m] \in active => holder[m] \in active'
      /\ \A m \in Names \ {o} : holder[m] \in active' => holder[m] \in active
  <2>1. CASE ActivateUpdate(w)
    <3>1. active' = active \cup ({holder[o]} \ {None}) /\ UNCHANGED <<dirs, home>>
      BY <1>0, <2>1 DEF ActivateUpdate, disk
    <3>2. \A m \in Names \ {o} : holder[m] \in active' => holder[m] \in active
      BY <3>1 DEF Identity
    <3> HIDE DEF IInv
    <3> QED BY <3>1, <3>2
  <2>2. CASE ActivateMkdir(w)
    BY <1>0, <1>1, <2>2 DEF ActivateMkdir, Mkdir, TypeOK
  <2>3. CASE ActivateIndex(w)
    BY <1>0, <1>1, <2>3 DEF ActivateIndex, TypeOK
  <2>4. CASE SaveMkdirAll(w)
    BY <1>0, <1>1, <2>4 DEF SaveMkdirAll, TypeOK
  <2> QED BY <2>1, <2>2, <2>3, <2>4
<1>6. NoOnes \notin Ids /\ None \notin Ids /\ None \notin active
  BY AccountsAssumption DEF TypeOK
<1>7. ASSUME o \notin dirty 
      PROVE  holder[o] \in active' /\ (o \in dirs' \/ \E v \in Workers : Making(v, o)')
  <2>1. base = TRUE
    BY <1>0, <1>1, <1>7 DEF Sharing, TypeOK
  <2>2. CASE ActivateUpdate(w)
    <3>1. op'[w].at = "mkdir"
      BY <2>2 DEF ActivateUpdate, Goto, TypeOK, Operation
    <3> QED BY <1>0, <1>1, <1>2, <1>4, <1>7, <2>2, <3>1 DEF ActivateUpdate, Halfway, Making, At
  <2>3. CASE ActivateMkdir(w)
    BY <1>0, <1>1, <1>4, <1>7, <2>1, <2>3 DEF ActivateMkdir, Mkdir, Halfway, At
  <2>4. CASE ActivateIndex(w)
    <3>1. holder[o] \in active /\ UNCHANGED <<active, dirs>>
      BY <1>0, <1>4, <1>7, <2>4 DEF ActivateIndex, Halfway, At
    <3>2. \A v \in Workers : Making(v, o) => Making(v, o)'
      BY <1>0, <1>1, <1>2, <2>4 DEF ActivateIndex, Making, At
    <3> QED BY <1>0, <1>4, <1>7, <3>1, <3>2 DEF Good
  <2>5. CASE SaveMkdirAll(w)
    BY <1>0, <1>4, <1>7, <2>5 DEF SaveMkdirAll, Halfway, At
  <2> QED BY <2>2, <2>3, <2>4, <2>5
<1>8. ASSUME o \notin dirty' PROVE Good(o)'
  <2>1. \A v \in Workers : Taking(v, o) => Taking(v, o)'
    BY <1>0, <1>1, <1>2 DEF Taking
  <2>2. /\ holder'[o] \in active' /\ (o \in dirs' \/ \E v \in Workers : Making(v, o)')
        /\ holder' = holder
    BY <1>0, <1>2, <1>7, <1>8
  <2>3. Good(o) /\ (home'[o] = home[o] \/ home'[o] = NoOnes) /\ NoOnes \notin Ids
    BY <1>0, <1>2, <1>4, <1>5, <1>6, <1>8
  <2> HIDE DEF IInv
  <2> QED BY <2>1, <2>2, <2>3 DEF Good
<1>9. ASSUME NEW v \in Workers \ {w}, NamesOf(v) \cap M # {},
             op[v].at \notin Light \cup {"removeBase"}
      PROVE  Halfway(v)'
  <2>1. CASE op[v].at \in Movers
    <3>1. Conflict(op[w].at, op[v].at) /\ NamesOf(v) \cap NamesOf(w) # {}
      BY <1>0, <1>1, <1>9, <2>1, ConflictMeans, StepKinds
    <3>2. ~At(v, "removeBase")
      BY <1>0, <1>9 DEF At
    <3> HIDE DEF IInv
    <3> QED BY <1>0, <1>2, <3>1, <3>2, Disturbed
  <2>2. CASE op[v].at \notin Movers
    <3>1. op[v] # Idle /\ ~At(v, "moveDir") /\ ~At(v, "removeAll") /\ ~At(v, "removeBase")
      BY <1>0, <1>9, <2>2, StepKinds DEF Idle, At
    <3>2. op[v].src = o
      BY <1>0, <1>9, <3>1, NamesOfWorker DEF Sharing
    <3>3. Halfway(v) /\ op'[v] = op[v] /\ UNCHANGED <<holder, dirty, disturbed>>
      BY <1>0, <1>2 DEF Agreement
    <3>4. /\ holder[o] \in active => holder[o] \in active'
          /\ o \in dirs => o \in dirs'
          /\ home'[o] = home[o] \/ home'[o] \notin Ids
      BY <1>0, <1>1, <1>5, <1>6
    <3> HIDE DEF IInv
    <3> QED BY <3>1, <3>2, <3>3, <3>4 DEF Halfway, At
  <2> QED BY <2>1, <2>2
<1>10. Halfway(w)'
  <2>1. CASE ActivateUpdate(w)
    <3>1. op'[w].at = "mkdir"
      BY <2>1 DEF ActivateUpdate, Goto, TypeOK, Operation
    <3> QED BY <1>0, <1>2, <1>4, <2>1, <3>1 DEF ActivateUpdate, Halfway, At
  <2>2. CASE ActivateMkdir(w)
    <3>1. op'[w].at = "index"
      BY <2>2 DEF ActivateMkdir, Goto, TypeOK, Operation
    <3> QED BY <1>0, <1>2, <1>4, <2>2, <3>1 DEF ActivateMkdir, Halfway, At
  <2>3. CASE ActivateIndex(w)
    <3>1. op'[w].at = "mkdirAgain" /\ UNCHANGED active
      BY <2>3 DEF ActivateIndex, Goto, TypeOK, Operation
    <3>2. home'[o] \notin Ids
      BY <1>0, <1>1, <1>6, <2>3 DEF ActivateIndex, TypeOK, Identity
    <3> HIDE DEF IInv
    <3> QED BY <1>0, <1>2, <1>4, <2>3, <3>1, <3>2 DEF ActivateIndex, Halfway, At
  <2>4. CASE SaveMkdirAll(w)
    <3>1. op'[w].at = "write"
      BY <2>4 DEF SaveMkdirAll, Goto, TypeOK, Operation
    <3> QED BY <3>1 DEF Halfway, At
  <2> QED BY <2>1, <2>2, <2>3, <2>4
<1>11. \A n \in Names \ M : /\ n \in dirs' <=> n \in dirs
                            /\ holder'[n] = holder[n]
                            /\ home'[n] = home[n]
                            /\ holder[n] \in active' <=> holder[n] \in active
                            /\ n \in dirty => n \in dirty'
  BY <1>0, <1>2, <1>5
<1>12. \A n \in M \cap Names : n \notin dirty' => Good(n)'
  BY <1>8
<1>13. \A n \in Names : Making(w, n) \/ Taking(w, n) => n \in M
  BY <1>0, <1>1 DEF Making, Taking
<1>14. \A i \in issued : (\A m \in Names : holder[m] # i) => \A m \in Names : holder'[m] # i
  BY <1>0, <1>2
<1>15. \A v \in Workers \ {w} : op'[v] = op[v] /\ (v \in disturbed => v \in disturbed')
  BY <1>0, <1>2
<1> HIDE DEF IInv, M
<1> QED BY <1>0, <1>9, <1>10, <1>11, <1>12, <1>13, <1>14, <1>15, WorkerAgreement

LEMMA RegisterAgreement ==
    ASSUME IInv, TypeOK', NEW w \in Workers,
           RegisterInsert(w) \/ RegisterRefused(w) \/ SaveWrite(w)
    PROVE  Agreement'
<1> USE DEF IInv
<1>0. PICK n \in Names : op[w].src = n
  BY NamesOfWorker DEF RegisterInsert, RegisterRefused, SaveWrite, At, Idle
<1> DEFINE M == {n}
<1>1. /\ op[w].at \in {"insert", "write"}
      /\ op'[w].at = "idle"
      /\ \A v \in Workers \ {w} : op'[v] = op[v] /\ (v \in disturbed => v \in disturbed')
      /\ UNCHANGED <<active, dirs, dirty>>
  BY DEF RegisterInsert, RegisterRefused, SaveWrite, At, Finish, Leave, disk, TypeOK, Idle
<1>2. \A m : ~Making(w, m) /\ ~Taking(w, m)
  BY <1>1 DEF Making, Taking, At
<1>3. None \notin active /\ None \notin Ids /\ NoOnes \notin Ids /\ active \subseteq Ids
  BY AccountsAssumption DEF TypeOK
<1>4. \E i \in (Ids \ issued) \cup {holder[n]} :
         /\ \A m \in Names \ {n} : holder'[m] = holder[m]
         /\ holder'[n] = i
         /\ i # holder[n] => holder[n] = None
  <2>1. CASE RegisterInsert(w)
    BY <1>0, <2>1 DEF RegisterInsert, TypeOK
  <2>2. CASE RegisterRefused(w) \/ SaveWrite(w)
    BY <2>2 DEF RegisterRefused, SaveWrite
  <2> QED BY <2>1, <2>2
<1>5. /\ \A m \in Names \ {n} : home'[m] = home[m]
      /\ \/ home'[n] = home[n]
         \/ n \in dirs /\ home'[n] \notin Ids
         \/ n \in dirs /\ home'[n] = holder'[n] /\ holder'[n] = holder[n] /\ holder[n] \in active
  <2>1. CASE SaveWrite(w)
    <3>1. UNCHANGED holder
      BY <2>1 DEF SaveWrite
    <3>2. PICK who \in ({holder[n]} \cap active) \cup {NoOnes} :
             home' = IF n \in dirs THEN [home EXCEPT ![n] = who] ELSE home
      BY <1>0, <2>1 DEF SaveWrite
    <3> QED BY <1>3, <3>1, <3>2 DEF TypeOK
  <2>2. CASE RegisterInsert(w) \/ RegisterRefused(w)
    BY <2>2 DEF RegisterInsert, RegisterRefused, disk
  <2> QED BY <2>1, <2>2
<1>6. \A m \in Names : /\ holder[m] # None => holder'[m] = holder[m]
                       /\ holder'[m] \in active <=> holder[m] \in active
                       /\ holder'[m] # holder[m] => holder'[m] \notin issued
  BY <1>3, <1>4 DEF Identity
<1>7. ASSUME n \notin dirty' PROVE Good(n)'
  <2>1. Good(n)
    BY <1>1, <1>7 DEF Agreement
  <2>2. \A v \in Workers : /\ Making(v, n) => Making(v, n)'
                           /\ Taking(v, n) => Taking(v, n)'
    BY <1>1, <1>2 DEF Making, Taking, At
  <2>3. /\ UNCHANGED <<active, dirs>>
        /\ holder'[n] \in active <=> holder[n] \in active
        /\ holder[n] # None => holder'[n] = holder[n]
        /\ home'[n] \in Ids /\ home'[n] # holder'[n] => home[n] \in Ids /\ home[n] # holder[n]
    BY <1>1, <1>3, <1>5, <1>6
  <2> HIDE DEF IInv
  <2> QED BY <2>1, <2>2, <2>3 DEF Good
<1>8. ASSUME NEW v \in Workers \ {w}, NamesOf(v) \cap M # {},
             op[v].at \notin Light \cup {"removeBase"}
      PROVE  Halfway(v)'
  <2>1. op[v] # Idle /\ ~At(v, "removeBase")
    BY <1>8, StepKinds DEF Idle, At
  <2>2. PICK s \in Names, d \in Names : op[v].src = s /\ op[v].dst = d
    BY <2>1, NamesOfWorker
  <2>3. /\ Halfway(v) /\ op'[v] = op[v] /\ UNCHANGED <<active, dirs, dirty>>
        /\ v \in disturbed => v \in disturbed'
    BY <1>1 DEF Agreement
  <2>4. /\ holder[s] # None => holder'[s] = holder[s]
        /\ holder'[s] \in active <=> holder[s] \in active
        /\ holder[d] # None => holder'[d] = holder[d]
        /\ None \notin active
    BY <1>3, <1>6
  <2>5. \/ home'[s] = home[s]
        \/ home'[s] \notin Ids
        \/ home'[s] = holder'[s] /\ holder[s] \in active
    BY <1>5
  <2>6. home[s] \in Ids /\ (\A m \in Names : holder[m] # home[s]) =>
           \A m \in Names : holder'[m] # home[s]
    BY <1>6 DEF Identity
  <2>7. home'[s] \in Ids => (home'[s] = home[s] \/ holder[s] \in active)
    BY <2>5
  <2> HIDE DEF IInv
  <2> QED BY <2>2, <2>3, <2>4, <2>5, <2>6, <2>7 DEF Halfway, At
<1>9. Halfway(w)'
  BY <1>1 DEF Halfway, At
<1>10. \A m \in Names \ M : /\ m \in dirs' <=> m \in dirs
                            /\ holder'[m] = holder[m]
                            /\ home'[m] = home[m]
                            /\ holder[m] \in active' <=> holder[m] \in active
                            /\ m \in dirty => m \in dirty'
  BY <1>1, <1>4, <1>5
<1>11. \A m \in M \cap Names : m \notin dirty' => Good(m)'
  BY <1>7
<1>12. \A i \in issued : (\A m \in Names : holder[m] # i) => \A m \in Names : holder'[m] # i
  BY <1>6
<1>13. \A m \in Names : Making(w, m) \/ Taking(w, m) => m \in M
  BY <1>2
<1> HIDE DEF IInv, M
<1> QED BY <1>1, <1>8, <1>9, <1>10, <1>11, <1>12, <1>13, WorkerAgreement

\* A worker at its last step mends its name, or leaves it as clean as it was.
LEMMA MkdirAgainAgreement ==
    ASSUME IInv, TypeOK', NEW w \in Workers, ActivateMkdirAgain(w)
    PROVE  Agreement'
<1> USE DEF IInv
<1>0. PICK o \in Names : op[w].src = o
  BY NamesOfWorker DEF ActivateMkdirAgain, At, Idle
<1> DEFINE M == {o}
<1>1. op[w] # Idle /\ NamesOf(w) = {o} /\ At(w, "mkdirAgain")
  BY <1>0, NamesOfWorker DEF ActivateMkdirAgain, At, Idle, Sharing
<1>2. /\ UNCHANGED <<holder, active, base, home>>
      /\ op'[w].at = "idle"
      /\ \A v \in Workers \ {w} : op'[v] = op[v] /\ (v \in disturbed => v \in disturbed')
      /\ dirs' = IF base THEN dirs \cup {o} ELSE dirs
      /\ dirty' = IF base /\ w \notin disturbed THEN dirty \ {o} ELSE dirty
  BY <1>0, <1>1 DEF ActivateMkdirAgain, Mkdir, FinishMending, Leave, TypeOK, Idle
<1>3. Halfway(w)
  BY DEF Agreement
<1>4. ASSUME o \notin dirty'
      PROVE  /\ holder[o] \in active /\ o \in dirs'
             /\ home[o] \in Ids => home[o] = holder[o]
             /\ o \notin dirty \/ w \notin disturbed
  <2>1. base /\ (o \notin dirty \/ w \notin disturbed)
    BY <1>2, <1>4 DEF Sharing
  <2> HIDE DEF IInv
  <2> QED BY <1>0, <1>1, <1>2, <1>3, <2>1 DEF Halfway, At
<1>5. ASSUME o \notin dirty' PROVE Good(o)'
  <2>1. /\ holder'[o] \in active' /\ o \in dirs'
        /\ home'[o] \in Ids => home'[o] = holder'[o]
    BY <1>2, <1>4, <1>5
  <2> HIDE DEF IInv
  <2> QED BY <2>1 DEF Good
<1>6. ASSUME NEW v \in Workers \ {w}, NamesOf(v) \cap M # {},
             op[v].at \notin Light \cup {"removeBase"}
      PROVE  Halfway(v)'
  <2>1. op[v] # Idle /\ ~At(v, "removeBase") /\ op[v].src \in NamesOf(v) /\ o \in NamesOf(v)
    BY <1>6, StepKinds, NamesOfWorker DEF Idle, At
  <2>2. CASE op[v].at \in Movers
    <3>1. Conflict(op[w].at, op[v].at) /\ Conflict(op[v].at, op[w].at)
      BY <1>1, <1>6, <2>2, ConflictMeans, StepKinds DEF At
    <3>2. /\ v \in disturbed /\ NamesOf(v) \subseteq dirty /\ w \in disturbed
      BY <1>1, <2>1, <3>1 DEF Sharing
    <3>3. op'[v].src \in dirty' /\ v \in disturbed'
      BY <1>2, <2>1, <3>2
    <3> QED BY <3>3 DEF Halfway
  <2>3. CASE op[v].at \notin Movers
    <3>1. ~At(v, "moveDir") /\ ~At(v, "removeAll") /\ ~At(v, "removeBase")
      BY <2>1, <2>3, StepKinds DEF At
    <3>2. op[v].src = o
      BY <2>1, <3>1, NamesOfWorker DEF Sharing
    <3>3. Halfway(v) /\ op'[v] = op[v] /\ (v \in disturbed => v \in disturbed')
      BY <1>2 DEF Agreement
    <3>4. /\ UNCHANGED <<holder, active, home>>
          /\ o \in dirs => o \in dirs'
          /\ None \notin active
      BY <1>2, AccountsAssumption DEF TypeOK
    <3>5. CASE o \in dirty'
      <4>1. o \in dirty
        BY <1>2, <3>5
      <4> HIDE DEF IInv
      <4> QED BY <3>1, <3>2, <3>3, <3>4, <3>5, <4>1 DEF Halfway, At
    <3>6. CASE o \notin dirty'
      <4> HIDE DEF IInv
      <4> QED BY <1>4, <3>1, <3>2, <3>3, <3>4, <3>6 DEF Halfway, At
    <3> QED BY <3>5, <3>6
  <2> QED BY <2>2, <2>3
<1>7. Halfway(w)'
  BY <1>2 DEF Halfway, At
<1>8. \A m \in Names \ M : /\ m \in dirs' <=> m \in dirs
                           /\ holder'[m] = holder[m]
                           /\ home'[m] = home[m]
                           /\ holder[m] \in active' <=> holder[m] \in active
                           /\ m \in dirty => m \in dirty'
  BY <1>2
<1>9. \A m \in M \cap Names : m \notin dirty' => Good(m)'
  BY <1>5
<1>10. \A i \in issued : (\A m \in Names : holder[m] # i) => \A m \in Names : holder'[m] # i
  BY <1>2
<1>11. \A m \in Names : Making(w, m) \/ Taking(w, m) => m \in M
  BY <1>1 DEF Making, Taking, At
<1> HIDE DEF IInv, M
<1> QED BY <1>2, <1>6, <1>7, <1>8, <1>9, <1>10, <1>11, WorkerAgreement

LEMMA RenameDirAgreement ==
    ASSUME IInv, TypeOK', NEW w \in Workers, RenameDir(w)
    PROVE  Agreement'
<1> USE DEF IInv
<1>0. PICK o \in Names, d \in Names : op[w].src = o /\ op[w].dst = d
  BY NamesOfWorker DEF RenameDir, At, Idle
<1> DEFINE M == {o, d}
<1>1. op[w] # Idle /\ NamesOf(w) = {o, d} /\ At(w, "moveDir") /\ o # d
  BY <1>0, NamesOfWorker DEF RenameDir, At, Idle, Sharing
<1>2. /\ UNCHANGED <<holder, active, base, dirty>>
      /\ op'[w].at = "idle"
      /\ \A v \in Workers \ {w} : op'[v] = op[v] /\ (v \in disturbed => v \in disturbed')
      /\ \/ /\ o \in dirs /\ d \notin dirs
            /\ dirs' = (dirs \ {o}) \cup {d}
            /\ home' = [home EXCEPT ![d] = home[o], ![o] = None]
         \/ ~(o \in dirs /\ d \notin dirs) /\ UNCHANGED <<dirs, home>>
  BY <1>0 DEF RenameDir, Finish, Leave, TypeOK, Idle
<1>3. o \in dirty <=> d \in dirty
  BY <1>0, <1>1 DEF Sharing, At
<1>4. /\ \A m \in Names \ M : (m \in dirs' <=> m \in dirs) /\ home'[m] = home[m]
      /\ None \notin active /\ None \notin Ids
  BY <1>1, <1>2, AccountsAssumption DEF TypeOK
<1>5. ASSUME o \notin dirty'
      PROVE  /\ holder[o] \notin active /\ o \notin dirs' /\ home'[o] = None
             /\ d \in dirs' <=> holder[d] \in active
             /\ home'[d] \in Ids => home'[d] = holder[d]
  <2>1. Halfway(w) /\ o \notin dirty
    BY <1>2, <1>5 DEF Agreement
  <2>2. /\ holder[o] \notin active /\ d \notin dirs
        /\ o \in dirs <=> holder[d] \in active
        /\ home[o] \in Ids => home[o] = holder[d]
    BY <1>0, <1>1, <2>1 DEF Halfway, At
  <2>3. home[d] = None /\ (o \notin dirs => home[o] = None)
    BY <2>2 DEF Identity
  <2> HIDE DEF IInv
  <2>4. CASE o \in dirs
    <3>1. home'[d] = home[o] /\ home'[o] = None /\ dirs' = (dirs \ {o}) \cup {d}
      BY <1>1, <1>2, <2>2, <2>4 DEF IInv, TypeOK
    <3> QED BY <1>1, <1>4, <2>2, <2>4, <3>1
  <2>5. CASE o \notin dirs
    BY <1>2, <1>4, <2>2, <2>3, <2>5
  <2> QED BY <2>4, <2>5
<1>6. ASSUME NEW n \in M, n \notin dirty' PROVE Good(n)'
  <2>1. o \notin dirty' /\ UNCHANGED <<holder, active>>
    BY <1>2, <1>3, <1>6
  <2> HIDE DEF IInv
  <2>2. CASE n = o
    BY <1>4, <1>5, <2>1, <2>2 DEF Good
  <2>3. CASE n = d
    BY <1>5, <2>1, <2>3 DEF Good
  <2> QED BY <2>2, <2>3
<1>7. ASSUME NEW v \in Workers \ {w}, NamesOf(v) \cap M # {},
             op[v].at \notin Light \cup {"removeBase"}
      PROVE  Halfway(v)'
  <2>1. Conflict(op[w].at, op[v].at) /\ ~At(v, "removeBase")
    BY <1>1, <1>7, ConflictMeans, StepKinds DEF At
  <2>2. NamesOf(v) \cap NamesOf(w) # {}
    BY <1>1, <1>7
  <2>3. op'[v] = op[v] /\ (v \in disturbed => v \in disturbed') /\ dirty \subseteq dirty'
    BY <1>2
  <2> HIDE DEF IInv
  <2> QED BY <2>1, <2>2, <2>3, Disturbed
<1>8. Halfway(w)'
  BY <1>2 DEF Halfway, At
<1>9. \A m \in Names \ M : /\ m \in dirs' <=> m \in dirs
                           /\ holder'[m] = holder[m]
                           /\ home'[m] = home[m]
                           /\ holder[m] \in active' <=> holder[m] \in active
                           /\ m \in dirty => m \in dirty'
  BY <1>2, <1>4
<1>10. \A m \in M \cap Names : m \notin dirty' => Good(m)'
  BY <1>6
<1>11. \A i \in issued : (\A m \in Names : holder[m] # i) => \A m \in Names : holder'[m] # i
  BY <1>2
<1>12. \A m \in Names : Making(w, m) \/ Taking(w, m) => m \in M
  BY <1>0 DEF Making, Taking
<1> HIDE DEF IInv, M
<1> QED BY <1>2, <1>7, <1>8, <1>9, <1>10, <1>11, <1>12, WorkerAgreement

LEMMA DeleteDirAgreement ==
    ASSUME IInv, TypeOK', NEW w \in Workers, DeleteDir(w)
    PROVE  Agreement'
<1> USE DEF IInv
<1>0. PICK o \in Names : op[w].src = o
  BY NamesOfWorker DEF DeleteDir, At, Idle
<1> DEFINE M == {o}
<1>1. op[w] # Idle /\ NamesOf(w) = {o} /\ At(w, "removeAll")
  BY <1>0, NamesOfWorker DEF DeleteDir, At, Idle, Sharing
<1>2. /\ UNCHANGED <<holder, active, base>>
      /\ op'[w].at = "idle"
      /\ \A v \in Workers \ {w} : op'[v] = op[v] /\ (v \in disturbed => v \in disturbed')
      /\ dirs' = dirs \ {o}
      /\ home' = [home EXCEPT ![o] = None]
      /\ dirty' = IF base /\ w \notin disturbed THEN dirty \ {o} ELSE dirty
  BY <1>0, <1>1 DEF DeleteDir, FinishMending, Leave, TypeOK, Idle
<1>3. None \notin Ids /\ home'[o] = None /\ \A m \in Names \ M : home'[m] = home[m]
  BY <1>2, AccountsAssumption DEF TypeOK
<1>4. ASSUME o \notin dirty' PROVE holder[o] \notin active
  <2>1. Halfway(w) /\ (o \notin dirty \/ w \notin disturbed)
    BY <1>2, <1>4 DEF Agreement
  <2> HIDE DEF IInv
  <2> QED BY <1>0, <1>1, <2>1 DEF Halfway, At
<1>5. ASSUME o \notin dirty' PROVE Good(o)'
  <2>1. holder'[o] \notin active' /\ o \notin dirs' /\ home'[o] \notin Ids
    BY <1>2, <1>3, <1>4, <1>5
  <2> HIDE DEF IInv
  <2> QED BY <2>1 DEF Good
<1>6. ASSUME NEW v \in Workers \ {w}, NamesOf(v) \cap M # {},
             op[v].at \notin Light \cup {"removeBase"}
      PROVE  Halfway(v)'
  <2>1. op[v] # Idle /\ ~At(v, "removeBase") /\ op[v].src \in NamesOf(v)
    BY <1>6, StepKinds, NamesOfWorker DEF Idle, At
  <2>2. Conflict(op[w].at, op[v].at) /\ Conflict(op[v].at, op[w].at)
    BY <1>1, <1>6, ConflictMeans, StepKinds DEF At
  <2>3. v \in disturbed /\ NamesOf(v) \subseteq dirty /\ w \in disturbed
    BY <1>1, <1>6, <2>2 DEF Sharing
  <2>4. op'[v].src \in dirty' /\ v \in disturbed'
    BY <1>2, <2>1, <2>3
  <2> QED BY <2>4 DEF Halfway
<1>7. Halfway(w)'
  BY <1>2 DEF Halfway, At
<1>8. \A m \in Names \ M : /\ m \in dirs' <=> m \in dirs
                           /\ holder'[m] = holder[m]
                           /\ home'[m] = home[m]
                           /\ holder[m] \in active' <=> holder[m] \in active
                           /\ m \in dirty => m \in dirty'
  BY <1>2, <1>3
<1>9. \A m \in M \cap Names : m \notin dirty' => Good(m)'
  BY <1>5
<1>10. \A i \in issued : (\A m \in Names : holder[m] # i) => \A m \in Names : holder'[m] # i
  BY <1>2
<1>11. \A m \in Names : Making(w, m) \/ Taking(w, m) => m \in M
  BY <1>0, <1>1 DEF Making, Taking, At
<1> HIDE DEF IInv, M
<1> QED BY <1>2, <1>6, <1>7, <1>8, <1>9, <1>10, <1>11, WorkerAgreement

\* A worker that leaves all its names dirty, having changed nothing elsewhere.
LEMMA SoilingAgreement ==
    ASSUME IInv, TypeOK', NEW w \in Workers, DeleteBase(w) \/ Abandon(w)
    PROVE  Agreement'
<1> USE DEF IInv
<1> DEFINE M == IF op[w].at \in HalfDone THEN NamesOf(w) ELSE {}
<1>1. /\ UNCHANGED <<holder, active>>
      /\ op'[w].at = "idle"
      /\ \A v \in Workers \ {w} : op'[v] = op[v] /\ (v \in disturbed => v \in disturbed')
      /\ dirty \subseteq dirty' /\ M \subseteq dirty'
  <2>1. CASE DeleteBase(w)
    <3>1. dirty = Names /\ dirty' = dirty
      BY <2>1 DEF DeleteBase, Sharing, Finish
    <3>2. M \subseteq dirty'
      BY <3>1, NamesOfWorker
    <3> QED BY <2>1, <3>1, <3>2 DEF DeleteBase, Finish, Leave, TypeOK, Idle
  <2>2. CASE Abandon(w)
    BY <2>2 DEF Abandon, Leave, TypeOK, Idle
  <2> QED BY <2>1, <2>2
<1>2. /\ \A m \in Names \ M : (m \in dirs' <=> m \in dirs) /\ home'[m] = home[m]
      /\ op[w].at \notin Movers => UNCHANGED <<dirs, home>>
  <2>1. CASE DeleteBase(w)
    BY <2>1, NamesOfWorker, StepKinds DEF DeleteBase, HalfDone, At
  <2>2. CASE Abandon(w)
    <3> DEFINE removing == IF op[w].at \in {"removeAll", "removeBase"} THEN NamesOf(w) ELSE {}
    <3>1. PICK pages \in SUBSET removing : \E gone \in SUBSET pages :
             /\ home' = [n \in Names |-> IF n \in pages THEN None ELSE home[n]]
             /\ dirs' = dirs \ gone
      BY <2>2 DEF Abandon
    <3>2. removing \subseteq M /\ (op[w].at \notin Movers => removing = {})
      BY StepKinds DEF HalfDone
    <3>3. home \in [Names -> Ids \cup {None, NoOnes}]
      BY DEF TypeOK
    <3> HIDE DEF IInv, removing, M
    <3> QED BY <3>1, <3>2, <3>3
  <2> QED BY <2>1, <2>2
<1>3. ASSUME NEW v \in Workers \ {w}, NamesOf(v) \cap M # {},
             op[v].at \notin Light \cup {"removeBase"}
      PROVE  Halfway(v)'
  <2>1. NamesOf(v) \cap NamesOf(w) # {} /\ ~At(v, "removeBase")
    BY <1>3 DEF At
  <2>2. CASE op[w].at \in Movers
    <3>1. Conflict(op[w].at, op[v].at)
      BY <1>3, <2>2, ConflictMeans, StepKinds
    <3> HIDE DEF IInv
    <3> QED BY <1>1, <2>1, <3>1, Disturbed
  <2>3. CASE op[w].at \notin Movers
    <3>1. UNCHANGED <<holder, active, dirs, home>> /\ op'[v] = op[v] /\ dirty \subseteq dirty'
      BY <1>1, <1>2, <2>3
    <3>2. Halfway(v) /\ (v \in disturbed => v \in disturbed')
      BY <1>1 DEF Agreement
    <3> HIDE DEF IInv
    <3> QED BY <3>1, <3>2 DEF Halfway, At
  <2> QED BY <2>2, <2>3
<1>4. Halfway(w)'
  BY <1>1 DEF Halfway, At
<1>5. \A m \in Names \ M : /\ m \in dirs' <=> m \in dirs
                           /\ holder'[m] = holder[m]
                           /\ home'[m] = home[m]
                           /\ holder[m] \in active' <=> holder[m] \in active
                           /\ m \in dirty => m \in dirty'
  BY <1>1, <1>2
<1>6. \A m \in M \cap Names : m \notin dirty' => Good(m)'
  BY <1>1
<1>7. \A i \in issued : (\A m \in Names : holder[m] # i) => \A m \in Names : holder'[m] # i
  BY <1>1
<1>8. ASSUME NEW m \in Names, Making(w, m) \/ Taking(w, m) PROVE m \in M
  <2>1. op[w].at \in HalfDone /\ ~At(w, "removeBase") /\ op[w] # Idle
    BY <1>8, StepKinds DEF Making, Taking, HalfDone, At, Idle
  <2>2. m \in NamesOf(w)
    BY <1>8, <2>1, NamesOfWorker DEF Making, Taking
  <2> QED BY <2>1, <2>2
<1> HIDE DEF IInv, M
<1> QED BY <1>1, <1>3, <1>4, <1>5, <1>6, <1>7, <1>8, WorkerAgreement

LEMMA StepIInv == IInv /\ [Next]_vars => IInv'
<1> SUFFICES ASSUME IInv, [Next]_vars PROVE IInv'
  OBVIOUS
<1>1. TypeOK' /\ Sharing' /\ Identity'
  BY StepTypeOK, StepSharing, StepIdentity DEF IInv
<1>2. Agreement'
  <2>1. ASSUME NEW w \in Workers, Step(w) PROVE Agreement'
    BY <1>1, <2>1, StartAgreement, RenameUpdateAgreement, DeleteNoRowAgreement,
       ContinueAgreement, RegisterAgreement, MkdirAgainAgreement, RenameDirAgreement,
       DeleteDirAgreement, SoilingAgreement
    DEF Step
  <2>2. CASE UNCHANGED vars
    <3>1. UNCHANGED <<holder, active, dirs, home, op, dirty, disturbed>>
      BY <2>2 DEF vars, disk
    <3> QED BY <3>1 DEF IInv, Agreement, Halfway, Good, Making, Taking, At
  <2> QED BY <2>1, <2>2 DEF Next
<1> QED BY <1>1, <1>2 DEF IInv

(***************************************************************************)
(* The invariant holds whatever operations run in whatever order, cut      *)
(* short anywhere, deletions of all directories and saves by sessions      *)
(* that outlived their accounts included.                                  *)
(***************************************************************************)
THEOREM Invariance == Spec => []IInv
BY InitIInv, StepIInv, PTL DEF Spec

\* Under a settled name nothing is in between.
LEMMA SettledNames ==
    ASSUME IInv, NEW n \in Settled
    PROVE  /\ n \in dirs <=> holder[n] \in active
           /\ home[n] \in Ids => home[n] = holder[n]
<1>1. n \in Names /\ n \notin dirty /\ Good(n)
  BY DEF Settled, IInv, Agreement
<1>2. ASSUME NEW w \in Workers, Making(w, n) \/ Taking(w, n) PROVE FALSE
  <2>1. op[w].at \in HalfDone /\ op[w] # Idle /\ ~At(w, "removeBase")
    BY <1>2, StepKinds DEF Making, Taking, HalfDone, At, Idle
  <2>2. n \in NamesOf(w)
    BY <1>2, <2>1, NamesOfWorker DEF Making, Taking, IInv
  <2> QED BY <2>1, <2>2 DEF Settled
<1> QED BY <1>1, <1>2 DEF Good

(***************************************************************************)
(* However registerHandler, activateUser, renameUser, deleteUser and       *)
(* editFileHandler interleave and wherever they stop, a directory exists   *)
(* exactly for the active accounts under every name that is not excused    *)
(* and not between two halves of an operation.                             *)
(***************************************************************************)
THEOREM DirectoriesMatch == Spec => []DirectoryMatchesRow
<1>1. IInv => DirectoryMatchesRow
  BY SettledNames DEF DirectoryMatchesRow
<1> QED BY <1>1, Invariance, PTL

\* Under the same names, an account's own page is that of the name's bearer.
THEOREM PagesAreTheHolders == Spec => []PageIsTheHolders
<1>1. IInv => PageIsTheHolders
  BY SettledNames DEF PageIsTheHolders
<1> QED BY <1>1, Invariance, PTL

(***************************************************************************)
(* No interleaving of renames, deletions, registrations, saves and stops   *)
(* makes the page of an account that keeps its row disappear from a name   *)
(* that is not excused: it moves with its account.                         *)
(***************************************************************************)
THEOREM PagesAreKept == Spec => NoPageLost
<1>1. IInv /\ [Next]_vars => [KeepsPages]_vars
  <2> SUFFICES ASSUME IInv, [Next]_vars, NEW n \in Names \ (dirty \cup dirty'), LivePage(n),
                      home'[n] = None
               PROVE  \E m \in Names : home'[m] = home[n] /\ holder'[m] = home[n]
    BY DEF KeepsPages
  <2> USE DEF IInv
  <2>0. home[n] \in Ids /\ None \notin Ids /\ NoOnes # None /\ None \notin active
    BY AccountsAssumption DEF LivePage, TypeOK
  <2>1. ASSUME NEW w \in Workers, RenameDir(w)
        PROVE  \E m \in Names : home'[m] = home[n] /\ holder'[m] = home[n]
    <3>0. PICK o \in Names, d \in Names : op[w].src = o /\ op[w].dst = d
      BY <2>1, NamesOfWorker DEF RenameDir, At, Idle
    <3>1. At(w, "moveDir") /\ o # d
      BY <2>1, <3>0 DEF RenameDir, At, Idle, Sharing
    <3>2. /\ o \in dirs /\ d \notin dirs
          /\ home' = [home EXCEPT ![d] = home[o], ![o] = None]
          /\ UNCHANGED holder
      BY <2>0, <2>1, <3>0 DEF RenameDir
    <3>3. n = o
      BY <2>0, <3>0, <3>1, <3>2 DEF Identity, TypeOK
    <3>4. Halfway(w)
      BY DEF Agreement
    <3>5. home[o] = holder[d]
      BY <2>0, <3>0, <3>1, <3>3, <3>4 DEF Halfway, At
    <3>6. home'[d] = home[o]
      BY <3>1, <3>2 DEF TypeOK
    <3> QED BY <3>2, <3>3, <3>5, <3>6
  <2>2. ASSUME NEW w \in Workers, DeleteDir(w) PROVE FALSE
    <3>0. PICK o \in Names : op[w].src = o
      BY <2>2, NamesOfWorker DEF DeleteDir, At, Idle
    <3>1. n = o
      BY <2>0, <2>2, <3>0 DEF DeleteDir, TypeOK
    <3>2. Halfway(w) /\ At(w, "removeAll")
      BY <2>2 DEF DeleteDir, Agreement
    <3> QED BY <3>0, <3>1, <3>2 DEF Halfway, LivePage, At
  <2>3. ASSUME NEW w \in Workers, DeleteBase(w) PROVE FALSE
    BY <2>3 DEF DeleteBase, Sharing
  <2>4. ASSUME NEW w \in Workers, Abandon(w) PROVE FALSE
    <3>1. CASE op[w].at \in {"removeAll", "removeBase"}
      <4>1. dirty' = dirty \cup NamesOf(w)
        BY <2>4, <3>1 DEF Abandon, HalfDone, Movers
      <4>2. PICK pages \in SUBSET NamesOf(w) :
               home' = [m \in Names |-> IF m \in pages THEN None ELSE home[m]]
        BY <2>4, <3>1 DEF Abandon
      <4> QED BY <2>0, <4>1, <4>2
    <3>2. CASE op[w].at \notin {"removeAll", "removeBase"}
      BY <2>0, <2>4, <3>2 DEF Abandon
    <3> QED BY <3>1, <3>2
  <2>5. ASSUME NEW w \in Workers, ActivateIndex(w) \/ SaveWrite(w) PROVE FALSE
    <3>1. PICK o \in Names : op[w].src = o
      BY <2>5, NamesOfWorker DEF ActivateIndex, SaveWrite, At, Idle
    <3>2. \E who : who # None /\ home' = IF o \in dirs THEN [home EXCEPT ![o] = who] ELSE home
      BY <2>0, <2>5, <3>1 DEF ActivateIndex, SaveWrite
    <3> QED BY <2>0, <3>2 DEF TypeOK
  <2>6. ASSUME UNCHANGED home PROVE FALSE
    BY <2>0, <2>6
  <2> QED
    BY <2>1, <2>2, <2>3, <2>4, <2>5, <2>6
    DEF Next, Step, vars, disk, RegisterStat, RegisterInsert, RegisterRefused, ActivateSelect,
        ActivateUpdate, ActivateMkdir, ActivateMkdirAgain, RenameUpdate, DeleteRow, SaveCheck,
        SaveMkdirAll, DeleteNoRow
<1> QED BY <1>1, Invariance, PTL DEF Spec, NoPageLost
===============================================================================
