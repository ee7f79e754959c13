----------------------------- MODULE LogDumpProofs -----------------------------
(***************************************************************************)
(* Proofs about LogDump, for any number of dumpers, any clock and any      *)
(* bounds: its types, that no line is written twice, that no gap is left,  *)
(* and that it implements Archive.                                         *)
(***************************************************************************)
EXTENDS LogDump, TLAPS

USE LogDumpAssumption

\* The timestamps in the table, and what a run takes for the newest, are of rows.
Dated == \A i \in DOMAIN rows : RowAt(rows[i]) \in Instants

Sourced ==
    \A d \in Dumpers : run[d].on => \E i \in DOMAIN rows : run[d].max = RowAt(rows[i])

InLog == \A d \in Dumpers : run[d].on => run[d].pos <= Len(log) + 1

\* One run at a time: what lies before it is not newer than its maximum.
OneRun ==
    \A d, e \in Dumpers : run[d].on /\ run[e].on => d = e

NothingAhead ==
    \A d \in Dumpers : run[d].on =>
        \A i \in DOMAIN rows : rows[i] >= run[d].pos => RowAt(rows[i]) <= run[d].max

Fresh == \A i, j \in DOMAIN rows : rows[i] = rows[j] => i = j

Apart == Steady /\ ~overlapped => OneRun /\ NothingAhead /\ Fresh

\* A run has dealt with each newer line that is behind it.
NothingBehind ==
    \A d \in Dumpers : run[d].on =>
        \A i \in Lines : i < run[d].pos /\ log[i].at > run[d].max => i \in Written \cup failed

Gapless ==
    \A i, j \in Lines : i < j /\ j \in Written /\ log[i].at > SeedAt => i \in Written \cup failed

Complete == Orderly => NothingBehind /\ Gapless

IInv == TypeOK /\ Dated /\ Sourced /\ InLog /\ Apart /\ Complete

-------------------------------------------------------------------------------
\* The types of what the actions read.
LEMMA Types ==
    ASSUME TypeOK
    PROVE  /\ Len(log) \in Nat
           /\ \A i \in Lines : i \in Nat \ {0} /\ log[i].at \in {0} \cup Instants
           /\ \A d \in Dumpers : run[d].max \in {0} \cup Instants /\ run[d].pos \in Nat \ {0}
           /\ \A i \in DOMAIN rows :
                 rows[i] \in Nat /\ rows[i] \in {0} \cup Lines /\ rows[i] \in Written
           /\ \A t \in {0} \cup Instants : t \in Nat
<1>1. log \in Seq([at : {0} \cup Instants, fits : BOOLEAN])
  BY DEF TypeOK
<1>2. Len(log) \in Nat /\ \A i \in Lines : i \in Nat \ {0} /\ log[i].at \in {0} \cup Instants
  <2>1. Len(log) \in Nat /\ \A i \in Lines : i \in Nat \ {0} /\ i \in 1 .. Len(log)
    BY <1>1 DEF Lines
  <2>2. \A i \in 1 .. Len(log) : log[i] \in [at : {0} \cup Instants, fits : BOOLEAN]
    <3>1. ASSUME NEW S, NEW s \in Seq(S) PROVE \A i \in 1 .. Len(s) : s[i] \in S
      OBVIOUS
    <3> QED
      BY <1>1, <3>1
  <2> QED
    BY <2>1, <2>2
<1>3. run \in [Dumpers -> [on : BOOLEAN, max : {0} \cup Instants, pos : Nat \ {0}]]
  BY DEF TypeOK
<1>4. \A d \in Dumpers : run[d].max \in {0} \cup Instants /\ run[d].pos \in Nat \ {0}
  BY <1>3
<1>5. \A i \in DOMAIN rows :
         rows[i] \in Nat /\ rows[i] \in {0} \cup Lines /\ rows[i] \in Written
  BY DEF TypeOK, Written
<1> QED
  BY <1>2, <1>4, <1>5 DEF Instants

\* The initial states are those of the invariant.
LEMMA InitInv == Init => IInv
<1> SUFFICES ASSUME Init PROVE IInv
  OBVIOUS
<1>1. TypeOK
  <2>1. Idle \in [on : BOOLEAN, max : {0} \cup Instants, pos : Nat \ {0}]
    BY DEF Idle
  <2>2. run \in [Dumpers -> [on : BOOLEAN, max : {0} \cup Instants, pos : Nat \ {0}]]
    BY <2>1 DEF Init
  <2>3. /\ rows \in Seq(Nat) /\ Written \subseteq {0} \cup Lines
        /\ log \in Seq([at : {0} \cup Instants, fits : BOOLEAN])
    BY DEF Init, Written
  <2>4. failed \subseteq Lines /\ overlapped \in BOOLEAN
    BY DEF Init
  <2>5. kills \in Nat /\ now \in Instants
    BY DEF Init, Instants
  <2> QED
    BY <2>2, <2>3, <2>4, <2>5 DEF TypeOK
<1>2. Dated
  BY DEF Init, Dated, RowAt, SeedAt, Instants
<1>3. Sourced /\ InLog /\ Apart
  BY DEF Init, Sourced, InLog, Apart, OneRun, NothingAhead, Fresh, Idle
<1>4. Complete
  BY DEF Init, Complete, NothingBehind, Gapless, Lines, Idle
<1> QED
  BY <1>1, <1>2, <1>3, <1>4 DEF IInv

-------------------------------------------------------------------------------
\* A line is added to the log: nothing that is known of the others changes.
LEMMA LogGrows ==
    ASSUME TypeOK, NEW at \in {0} \cup Instants, NEW fits \in BOOLEAN, LogLine(at, fits)
    PROVE  /\ log' \in Seq([at : {0} \cup Instants, fits : BOOLEAN])
           /\ Len(log') = Len(log) + 1
           /\ \A i \in Lines : log'[i] = log[i]
           /\ \A i \in DOMAIN rows : RowAt(rows[i])' = RowAt(rows[i])
<1>1. [at |-> at, fits |-> fits] \in [at : {0} \cup Instants, fits : BOOLEAN]
  OBVIOUS
<1>2. /\ log' = Append(log, [at |-> at, fits |-> fits])
      /\ rows' = rows
      /\ log \in Seq([at : {0} \cup Instants, fits : BOOLEAN])
  BY DEF LogLine, TypeOK
<1>3. /\ log' \in Seq([at : {0} \cup Instants, fits : BOOLEAN])
      /\ Len(log') = Len(log) + 1
      /\ \A i \in Lines : log'[i] = log[i]
  BY <1>1, <1>2 DEF Lines
<1>4. \A i \in DOMAIN rows : rows[i] \in {0} \cup Lines
  BY DEF TypeOK, Written
<1>5. \A i \in DOMAIN rows : RowAt(rows[i])' = RowAt(rows[i])
  BY <1>2, <1>3, <1>4 DEF RowAt
<1> QED
  BY <1>3, <1>5

\* A line that is logged is after all lines of the table, and ahead of every run.
LEMMA LogLineInv ==
    ASSUME IInv, NEW at \in {0} \cup Instants, NEW fits \in BOOLEAN, LogLine(at, fits)
    PROVE  IInv'
<1> USE DEF IInv
<1>0. /\ UNCHANGED <<now, rows, run, failed, overlapped, kills>>
      /\ Lines \subseteq Lines'
      /\ Written' = Written
  BY LogGrows DEF LogLine, Lines, Written, TypeOK
<1>1. TypeOK'
  BY <1>0, LogGrows DEF TypeOK
<1>2. Dated' /\ Sourced' /\ InLog'
  <2>1. Dated'
    BY <1>0, LogGrows DEF Dated, Instants
  <2>2. Sourced'
    BY <1>0, LogGrows DEF Sourced
  <2>3. InLog'
    BY <1>0, LogGrows, Types DEF InLog
  <2> QED
    BY <2>1, <2>2, <2>3
<1>3. Apart'
  BY <1>0, LogGrows DEF Apart, OneRun, NothingAhead, Fresh
<1>4. Complete'
  <2> SUFFICES ASSUME Orderly' PROVE NothingBehind' /\ Gapless'
    BY DEF Complete
  <2>1. Orderly
    BY <1>0, LogGrows DEF Orderly
  <2>2. NothingBehind'
    <3> SUFFICES ASSUME NEW d \in Dumpers, run[d].on,
                        NEW i \in Lines', i < run[d].pos, log'[i].at > run[d].max
                 PROVE  i \in Written \cup failed
      BY <1>0 DEF NothingBehind
    <3>1. i \in Lines
      BY LogGrows DEF InLog, Lines, TypeOK
    <3> QED
      BY <2>1, <3>1, LogGrows DEF Complete, NothingBehind
  <2>3. Gapless'
    <3> SUFFICES ASSUME NEW i \in Lines', NEW j \in Lines',
                        i < j, j \in Written, log'[i].at > SeedAt
                 PROVE  i \in Written \cup failed
      BY <1>0 DEF Gapless, SeedAt
    <3>1. i \in Lines /\ j \in Lines
      BY LogGrows DEF Lines, TypeOK
    <3> QED
      BY <2>1, <3>1, LogGrows DEF Complete, Gapless
  <2> QED
    BY <2>2, <2>3
<1> QED
  BY <1>1, <1>2, <1>3, <1>4

-------------------------------------------------------------------------------
\* A dump begins: the newest row by its text is the newest by time, in a steady clock.
LEMMA DumpStartInv ==
    ASSUME IInv, NEW d \in Dumpers, DumpStart(d)
    PROVE  IInv'
<1> USE DEF IInv
<1>1. PICK i \in DOMAIN rows :
         /\ \A j \in DOMAIN rows : Text[RowAt(rows[j])] <= Text[RowAt(rows[i])]
         /\ run' = [run EXCEPT ![d] = [on |-> TRUE, max |-> RowAt(rows[i]), pos |-> 1]]
  BY DEF DumpStart
<1>2. /\ UNCHANGED <<now, log, rows, failed, kills, Lines, Written>>
      /\ ~run[d].on
      /\ overlapped' = (overlapped \/ \E e \in Dumpers : run[e].on)
  BY DEF DumpStart, Lines, Written
<1>3. RowAt(rows[i]) \in Instants
  BY DEF Dated
<1>4. TypeOK'
  BY <1>1, <1>2, <1>3 DEF TypeOK
<1>5. \A e \in Dumpers : run'[e] = IF e = d THEN [on |-> TRUE, max |-> RowAt(rows[i]), pos |-> 1]
                                           ELSE run[e]
  BY <1>1 DEF TypeOK
<1>6. \A j \in DOMAIN rows : RowAt(rows[j])' = RowAt(rows[j])
  BY <1>2 DEF RowAt
<1>7. Dated' /\ Sourced' /\ InLog'
  <2>1. Dated'
    BY <1>2, <1>6 DEF Dated, Instants
  <2>2. Sourced'
    BY <1>2, <1>5, <1>6 DEF Sourced
  <2>3. Len(log) \in Nat
    BY DEF TypeOK
  <2>4. InLog'
    BY <1>2, <1>5, <2>3 DEF InLog
  <2> QED
    BY <2>1, <2>2, <2>4
<1>8. Apart'
  <2> SUFFICES ASSUME Steady, ~overlapped'
               PROVE  OneRun' /\ NothingAhead' /\ Fresh'
    BY DEF Apart, Steady
  <2>1. \A e \in Dumpers : ~run[e].on
    BY <1>2
  <2>2. OneRun' /\ Fresh'
    BY <1>2, <1>5, <2>1 DEF Apart, OneRun, Fresh
  <2>3. \A j \in DOMAIN rows : RowAt(rows[j]) <= RowAt(rows[i])
    <3> SUFFICES ASSUME NEW j \in DOMAIN rows, RowAt(rows[i]) < RowAt(rows[j])
                 PROVE  FALSE
      BY <1>3 DEF Dated, Instants
    <3>1. Text[RowAt(rows[i])] < Text[RowAt(rows[j])]
      BY <1>3 DEF Dated, Steady
    <3>2. Text[RowAt(rows[i])] \in Nat /\ Text[RowAt(rows[j])] \in Nat
      BY <1>3 DEF Dated
    <3> QED
      BY <1>1, <3>1, <3>2
  <2>4. NothingAhead'
    BY <1>2, <1>5, <1>6, <2>1, <2>3 DEF NothingAhead
  <2> QED
    BY <2>2, <2>4
<1>9. Complete'
  <2>1. Orderly' = Orderly
    BY <1>2 DEF Orderly
  <2>2. \A j \in Lines : j \in Nat /\ ~(j < 1)
    BY DEF Lines
  <2> QED
    BY <1>2, <1>5, <2>1, <2>2 DEF Complete, NothingBehind, Gapless
<1> QED
  BY <1>4, <1>7, <1>8, <1>9

\* A line that is read, and what the run knows of it afterwards.
LEMMA ProceedFacts ==
    ASSUME TypeOK, NEW d \in Dumpers, Reads(d), Proceed(d)
    PROVE  /\ run[d].on /\ run[d].pos \in Lines
           /\ run' \in [Dumpers -> [on : BOOLEAN, max : {0} \cup Instants, pos : Nat \ {0}]]
           /\ \A e \in Dumpers : /\ run'[e].on = run[e].on
                                /\ run'[e].max = run[e].max
                                /\ run'[e].pos = IF e = d THEN run[e].pos + 1 ELSE run[e].pos
<1>1. run \in [Dumpers -> [on : BOOLEAN, max : {0} \cup Instants, pos : Nat \ {0}]]
  BY DEF TypeOK
<1>2. /\ run[d].on /\ run[d].pos \in Lines
      /\ run' = [run EXCEPT ![d] = [run[d] EXCEPT !.pos = run[d].pos + 1]]
  BY <1>1 DEF Reads, Proceed, Lines, TypeOK
<1>3. /\ [run[d] EXCEPT !.pos = run[d].pos + 1] \in
            [on : BOOLEAN, max : {0} \cup Instants, pos : Nat \ {0}]
      /\ [run[d] EXCEPT !.pos = run[d].pos + 1].on = run[d].on
      /\ [run[d] EXCEPT !.pos = run[d].pos + 1].max = run[d].max
      /\ [run[d] EXCEPT !.pos = run[d].pos + 1].pos = run[d].pos + 1
  BY <1>1
<1> QED
  BY <1>1, <1>2, <1>3

\* No run is beyond the line after the last.
LEMMA InLogStays ==
    ASSUME TypeOK, InLog, NEW d \in Dumpers, Reads(d), Proceed(d)
    PROVE  \A e \in Dumpers : run'[e].on => run'[e].pos <= Len(log) + 1
<1> SUFFICES ASSUME NEW e \in Dumpers, run'[e].on
             PROVE  run'[e].pos <= Len(log) + 1
  OBVIOUS
<1>1. CASE e = d
  BY <1>1, ProceedFacts, Types DEF Lines
<1>2. CASE e # d
  BY <1>2, ProceedFacts DEF InLog
<1> QED
  BY <1>1, <1>2

\* Once the run has read on, what is ahead of it was ahead of it before.
LEMMA AheadStays ==
    ASSUME TypeOK, NothingAhead, NEW d \in Dumpers, Reads(d), Proceed(d)
    PROVE  \A e \in Dumpers : run'[e].on =>
              \A i \in DOMAIN rows : rows[i] >= run'[e].pos => RowAt(rows[i]) <= run'[e].max
<1> SUFFICES ASSUME NEW e \in Dumpers, run'[e].on,
                    NEW i \in DOMAIN rows, rows[i] >= run'[e].pos
             PROVE  RowAt(rows[i]) <= run'[e].max
  OBVIOUS
<1>1. run[e].on /\ run'[e].max = run[e].max
  BY ProceedFacts
<1>2. rows[i] >= run[e].pos
  <2>1. rows[i] \in Nat /\ run[e].pos \in Nat
    BY Types
  <2>2. run'[e].pos = run[e].pos \/ run'[e].pos = run[e].pos + 1
    BY ProceedFacts
  <2> QED
    BY <2>1, <2>2
<1> QED
  BY <1>1, <1>2 DEF NothingAhead

\* A line that is passed over is not newer than the run's maximum.
LEMMA DumpSkipInv ==
    ASSUME IInv, NEW d \in Dumpers, DumpSkip(d)
    PROVE  IInv'
<1> USE DEF IInv
<1>1. /\ UNCHANGED <<now, log, rows, failed, overlapped, kills, Lines, Written>>
      /\ Reads(d) /\ ~Newer(d) /\ Proceed(d)
  BY DEF DumpSkip, Lines, Written
<1>2. TypeOK'
  BY <1>1, ProceedFacts DEF TypeOK
<1>3. \A j \in DOMAIN rows : RowAt(rows[j])' = RowAt(rows[j])
  BY <1>1 DEF RowAt
<1>4. Dated' /\ Sourced' /\ InLog'
  <2>1. Dated'
    BY <1>1, <1>3 DEF Dated, Instants
  <2>2. Sourced'
    BY <1>1, <1>3, ProceedFacts DEF Sourced
  <2>3. InLog'
    BY <1>1, InLogStays DEF InLog
  <2> QED
    BY <2>1, <2>2, <2>3
<1>5. Apart'
  <2> SUFFICES ASSUME Steady, ~overlapped
               PROVE  OneRun' /\ NothingAhead' /\ Fresh'
    BY <1>1 DEF Apart, Steady
  <2>1. OneRun /\ NothingAhead /\ Fresh
    BY DEF Apart
  <2>2. OneRun' /\ Fresh'
    BY <1>1, <2>1, ProceedFacts DEF OneRun, Fresh
  <2>3. NothingAhead'
    BY <1>1, <1>3, <2>1, AheadStays DEF NothingAhead
  <2> QED
    BY <2>2, <2>3
<1>6. Complete'
  <2>1. Orderly' = Orderly
    BY <1>1 DEF Orderly
  <2>2. ASSUME NothingBehind PROVE NothingBehind'
    <3> SUFFICES ASSUME NEW e \in Dumpers, run[e].on,
                        NEW i \in Lines, i < run'[e].pos, log[i].at > run[e].max
                 PROVE  i \in Written \cup failed
      BY <1>1, ProceedFacts DEF NothingBehind
    <3>1. CASE e # d
      BY <1>1, <2>2, <3>1, ProceedFacts DEF NothingBehind
    <3>2. CASE e = d
      <4>1. /\ i \in Nat /\ run[d].pos \in Nat /\ i < run[d].pos + 1
            /\ log[i].at \in Nat /\ run[d].max \in Nat
        BY <1>1, <3>2, ProceedFacts, Types
      <4>2. i # run[d].pos
        BY <1>1, <3>2, <4>1 DEF Newer
      <4> QED
        BY <2>2, <3>2, <4>1, <4>2 DEF NothingBehind
    <3> QED
      BY <3>1, <3>2
  <2> QED
    BY <1>1, <2>1, <2>2 DEF Complete, Gapless
<1> QED
  BY <1>2, <1>4, <1>5, <1>6

\* The line a run inserts is not in the table yet.
LEMMA DumpInsertIsFresh ==
    ASSUME IInv, NEW d \in Dumpers, DumpInsert(d), Steady, ~overlapped
    PROVE  \A i \in DOMAIN rows : rows[i] # run[d].pos
<1> USE DEF IInv
<1>1. run[d].on /\ run[d].pos \in Lines /\ log[run[d].pos].at > run[d].max
  BY ProceedFacts DEF DumpInsert, Newer
<1> SUFFICES ASSUME NEW i \in DOMAIN rows, rows[i] = run[d].pos
             PROVE  FALSE
  OBVIOUS
<1>2. RowAt(rows[i]) = log[run[d].pos].at
  BY <1>1, Types DEF RowAt
<1>3. RowAt(rows[i]) <= run[d].max
  BY <1>1, Types DEF Apart, NothingAhead
<1>4. log[run[d].pos].at \in Nat /\ run[d].max \in Nat
  BY <1>1, Types
<1> QED
  BY <1>1, <1>2, <1>3, <1>4

\* An insertion: no gap before the line, by what the run knows of the newer lines behind
\* it and by the row its maximum is of.
LEMMA DumpInsertInv ==
    ASSUME IInv, NEW d \in Dumpers, DumpInsert(d)
    PROVE  IInv'
<1> USE DEF IInv
<1> DEFINE k == run[d].pos
<1>1. /\ UNCHANGED <<now, log, failed, overlapped, kills, Lines>>
      /\ Reads(d) /\ Newer(d) /\ Proceed(d)
      /\ rows' = Append(rows, k)
  BY DEF DumpInsert, Lines
<1>2. k \in Lines /\ k \in Nat \ {0} /\ run[d].on
  BY <1>1, ProceedFacts DEF Lines, TypeOK
<1>3. /\ rows \in Seq(Nat) /\ rows' \in Seq(Nat)
      /\ Len(rows) \in Nat /\ Len(rows') = Len(rows) + 1
      /\ rows'[Len(rows) + 1] = k
      /\ \A i \in DOMAIN rows : i \in DOMAIN rows' /\ rows'[i] = rows[i]
      /\ \A i \in DOMAIN rows' : i \in DOMAIN rows \/ i = Len(rows) + 1
  BY <1>1, <1>2 DEF TypeOK
<1>4. Written' = Written \cup {k}
  <2>1. Len(rows) + 1 \in DOMAIN rows'
    BY <1>3
  <2>2. ASSUME NEW x \in Written PROVE x \in Written'
    BY <1>3 DEF Written
  <2>3. ASSUME NEW x \in Written' PROVE x \in Written \/ x = k
    BY <1>3 DEF Written
  <2>4. k \in Written'
    BY <1>3, <2>1 DEF Written
  <2> QED
    BY <2>2, <2>3, <2>4
<1>5. RowAt(k) = log[k].at /\ log[k].at \in Instants /\ log[k].at > run[d].max
  <2>1. log[k].at \in {0} \cup Instants /\ run[d].max \in {0} \cup Instants
    BY <1>2, Types
  <2> QED
    BY <1>1, <1>2, <2>1 DEF RowAt, Newer, Instants
<1>6. TypeOK'
  BY <1>1, <1>2, <1>3, <1>4, ProceedFacts DEF TypeOK
<1>7. /\ \A i \in DOMAIN rows : RowAt(rows[i])' = RowAt(rows[i])
      /\ \A i \in DOMAIN rows' \ DOMAIN rows : RowAt(rows[i])' = log[k].at
  BY <1>1, <1>2, <1>3 DEF RowAt
<1>8. Dated' /\ Sourced' /\ InLog'
  <2>1. Dated'
    BY <1>3, <1>5, <1>7 DEF Dated, Instants
  <2>2. Sourced'
    <3> SUFFICES ASSUME NEW e \in Dumpers, run[e].on
                 PROVE  \E i \in DOMAIN rows' : run[e].max = RowAt(rows[i])'
      BY <1>1, ProceedFacts DEF Sourced
    <3>1. PICK i \in DOMAIN rows : run[e].max = RowAt(rows[i])
      BY DEF Sourced
    <3> QED
      BY <1>3, <1>7, <3>1
  <2>3. InLog'
    BY <1>1, InLogStays DEF InLog
  <2> QED
    BY <2>1, <2>2, <2>3
<1>9. Apart'
  <2> SUFFICES ASSUME Steady, ~overlapped
               PROVE  OneRun' /\ NothingAhead' /\ Fresh'
    BY <1>1 DEF Apart, Steady
  <2>1. OneRun /\ NothingAhead /\ Fresh
    BY DEF Apart
  <2>2. OneRun'
    BY <1>1, <2>1, ProceedFacts DEF OneRun
  <2>3. \A i \in DOMAIN rows : rows[i] # k
    BY DumpInsertIsFresh
  <2>4. Fresh'
    BY <1>3, <2>1, <2>3 DEF Fresh
  <2>5. NothingAhead'
    <3> SUFFICES ASSUME NEW e \in Dumpers, run'[e].on,
                        NEW i \in DOMAIN rows', rows'[i] >= run'[e].pos
                 PROVE  RowAt(rows[i])' <= run'[e].max
      BY DEF NothingAhead
    <3>1. e = d
      BY <1>1, <1>2, <2>1, ProceedFacts DEF OneRun
    <3>2. run'[d].pos = k + 1
      BY <1>1, ProceedFacts
    <3>3. i \in DOMAIN rows /\ rows'[i] = rows[i]
      BY <1>2, <1>3, <3>1, <3>2
    <3>4. RowAt(rows[i]) <= run'[d].max
      BY <1>1, <2>1, <3>1, <3>3, AheadStays
    <3> QED
      BY <1>7, <3>1, <3>3, <3>4
  <2> QED
    BY <2>2, <2>4, <2>5
<1>10. Complete'
  <2> SUFFICES ASSUME Orderly PROVE NothingBehind' /\ Gapless'
    BY <1>1 DEF Complete, Orderly
  <2>1. NothingBehind /\ Gapless
    BY DEF Complete
  <2>2. NothingBehind'
    <3> SUFFICES ASSUME NEW e \in Dumpers, run[e].on,
                        NEW i \in Lines, i < run'[e].pos, log[i].at > run[e].max
                 PROVE  i \in Written' \cup failed
      BY <1>1, ProceedFacts DEF NothingBehind
    <3>1. CASE i = k
      BY <1>4, <3>1
    <3>2. CASE i # k
      <4>1. i < run[e].pos
        BY <1>1, <3>2, ProceedFacts, Types
      <4> QED
        BY <1>4, <2>1, <4>1 DEF NothingBehind
    <3> QED
      BY <3>1, <3>2
  <2>3. Gapless'
    <3> SUFFICES ASSUME NEW i \in Lines, NEW j \in Lines,
                        i < j, j \in Written', log[i].at > SeedAt
                 PROVE  i \in Written' \cup failed
      BY <1>1 DEF Gapless, SeedAt
    <3>1. CASE j \in Written
      BY <1>4, <2>1, <3>1 DEF Gapless
    <3>2. CASE j = k /\ log[i].at > run[d].max
      BY <1>2, <1>4, <2>1, <3>2 DEF NothingBehind
    <3>3. CASE ~(log[i].at > run[d].max)
      <4>1. PICK r \in DOMAIN rows : run[d].max = RowAt(rows[r])
        BY <1>2 DEF Sourced
      <4>2. /\ log[i].at \in Nat /\ run[d].max \in Nat
            /\ rows[r] \in {0} \cup Lines /\ rows[r] \in Written
        BY <1>2, Types
      <4>3. rows[r] # 0 /\ run[d].max = log[rows[r]].at
        BY <3>3, <4>1, <4>2 DEF RowAt, SeedAt
      <4>4. i <= rows[r]
        <5>1. rows[r] \in Lines
          BY <4>2, <4>3
        <5>2. log[rows[r]].at \in Nat
          BY <4>2, <4>3
        <5>3. rows[r] < i => log[rows[r]].at < log[i].at
          BY <3>3, <4>2, <4>3, <5>1 DEF Orderly, SeedAt
        <5> QED
          BY <3>3, <4>2, <4>3, <5>1, <5>2, <5>3 DEF Lines
      <4>5. CASE i = rows[r]
        BY <1>4, <4>2, <4>5
      <4>6. CASE i < rows[r]
        BY <1>4, <2>1, <4>2, <4>3, <4>6 DEF Gapless
      <4> QED
        BY <4>2, <4>4, <4>5, <4>6 DEF Lines
    <3> QED
      BY <1>4, <3>1, <3>2, <3>3
  <2> QED
    BY <2>2, <2>3
<1> QED
  BY <1>6, <1>8, <1>9, <1>10

\* An insertion that fails puts its line among the failed ones.
LEMMA DumpInsertFailsInv ==
    ASSUME IInv, NEW d \in Dumpers, DumpInsertFails(d)
    PROVE  IInv'
<1> USE DEF IInv
<1>1. /\ UNCHANGED <<now, log, rows, overlapped, kills, Lines, Written>>
      /\ Reads(d) /\ Proceed(d)
      /\ failed' = failed \cup {run[d].pos}
  BY DEF DumpInsertFails, Lines, Written
<1>2. TypeOK'
  BY <1>1, ProceedFacts DEF TypeOK
<1>3. \A j \in DOMAIN rows : RowAt(rows[j])' = RowAt(rows[j])
  BY <1>1 DEF RowAt
<1>4. Dated' /\ Sourced' /\ InLog'
  <2>1. Dated'
    BY <1>1, <1>3 DEF Dated, Instants
  <2>2. Sourced'
    BY <1>1, <1>3, ProceedFacts DEF Sourced
  <2>3. InLog'
    BY <1>1, InLogStays DEF InLog
  <2> QED
    BY <2>1, <2>2, <2>3
<1>5. Apart'
  <2> SUFFICES ASSUME Steady, ~overlapped
               PROVE  OneRun' /\ NothingAhead' /\ Fresh'
    BY <1>1 DEF Apart, Steady
  <2>1. OneRun /\ NothingAhead /\ Fresh
    BY DEF Apart
  <2>2. OneRun' /\ Fresh'
    BY <1>1, <2>1, ProceedFacts DEF OneRun, Fresh
  <2>3. NothingAhead'
    BY <1>1, <1>3, <2>1, AheadStays DEF NothingAhead
  <2> QED
    BY <2>2, <2>3
<1>6. Complete'
  <2>1. Orderly' = Orderly
    BY <1>1 DEF Orderly
  <2>2. ASSUME NothingBehind PROVE NothingBehind'
    <3> SUFFICES ASSUME NEW e \in Dumpers, run[e].on,
                        NEW i \in Lines, i < run'[e].pos, log[i].at > run[e].max
                 PROVE  i \in Written \cup failed'
      BY <1>1, ProceedFacts DEF NothingBehind
    <3>1. i = run[d].pos \/ i < run[e].pos
      BY <1>1, ProceedFacts, Types
    <3> QED
      BY <1>1, <2>2, <3>1 DEF NothingBehind
  <2> QED
    BY <1>1, <2>1, <2>2 DEF Complete, Gapless
<1> QED
  BY <1>2, <1>4, <1>5, <1>6

\* A run ends, or is cut short: the others keep what they know.
LEMMA StopInv ==
    ASSUME IInv, NEW d \in Dumpers, run' = [run EXCEPT ![d] = Idle],
           kills' \in Nat, UNCHANGED <<now, log, rows, failed, overlapped>>
    PROVE  IInv'
<1> USE DEF IInv
<1>1. UNCHANGED <<Lines, Written>> /\ Idle \in [on : BOOLEAN, max : {0} \cup Instants, pos : Nat \ {0}]
  BY DEF Lines, Written, Idle
<1>2. TypeOK'
  BY <1>1 DEF TypeOK
<1>3. \A j \in DOMAIN rows : RowAt(rows[j])' = RowAt(rows[j])
  BY DEF RowAt
<1>4. \A e \in Dumpers : run'[e].on => run[e].on /\ run'[e] = run[e]
  BY DEF TypeOK, Idle
<1>5. Dated' /\ Sourced' /\ InLog'
  <2>1. Dated'
    BY <1>3 DEF Dated, Instants
  <2>2. Sourced'
    BY <1>3, <1>4 DEF Sourced
  <2>3. InLog'
    BY <1>4 DEF InLog
  <2> QED
    BY <2>1, <2>2, <2>3
<1>6. Apart'
  BY <1>1, <1>3, <1>4 DEF Apart, OneRun, NothingAhead, Fresh, Steady
<1>7. Complete'
  <2>1. Orderly' = Orderly
    BY <1>1 DEF Orderly
  <2> QED
    BY <1>1, <1>4, <2>1 DEF Complete, NothingBehind, Gapless
<1> QED
  BY <1>2, <1>5, <1>6, <1>7

\* A step that changes neither the log nor the table nor a run.
LEMMA StutterInv ==
    ASSUME IInv, now' \in Instants, UNCHANGED <<log, rows, run, failed, overlapped, kills>>
    PROVE  IInv'
<1>1. UNCHANGED <<Lines, Written>>
  BY DEF Lines, Written
<1>2. \A j \in DOMAIN rows : RowAt(rows[j])' = RowAt(rows[j])
  BY DEF RowAt
<1>3. TypeOK' /\ Dated' /\ Sourced' /\ InLog'
  BY <1>1, <1>2 DEF IInv, TypeOK, Dated, Sourced, InLog
<1>4. Apart' /\ Complete'
  BY <1>1, <1>2 DEF IInv, Apart, Complete, OneRun, NothingAhead, Fresh, Steady, Orderly,
                    NothingBehind, Gapless
<1> QED
  BY <1>3, <1>4 DEF IInv

-------------------------------------------------------------------------------
(***************************************************************************)
(* The inductive invariant: whatever a run has left behind it that is      *)
(* newer than its maximum is written or failed, and, when runs do not      *)
(* overlap and the clock is steady, nothing ahead of it is written that is *)
(* newer than its maximum.                                                 *)
(***************************************************************************)
THEOREM Invariance == Spec => []IInv
<1>1. Init => IInv
  BY InitInv
<1>2. IInv /\ [Next]_vars => IInv'
  <2> SUFFICES ASSUME IInv, [Next]_vars PROVE IInv'
    OBVIOUS
  <2>1. CASE Tick
    <3>1. now' \in Instants
      BY <2>1 DEF Tick, Instants, IInv, TypeOK
    <3> QED
      BY <2>1, <3>1, StutterInv DEF Tick
  <2>2. ASSUME NEW at \in {0} \cup Instants, NEW fits \in BOOLEAN, LogLine(at, fits)
        PROVE  IInv'
    BY <2>2, LogLineInv
  <2>3. ASSUME NEW d \in Dumpers, Dump(d) \/ Kill(d)
        PROVE  IInv'
    <3>1. CASE DumpStart(d)
      BY <3>1, DumpStartInv
    <3>2. CASE DumpSkip(d)
      BY <3>2, DumpSkipInv
    <3>3. CASE DumpInsert(d)
      BY <3>3, DumpInsertInv
    <3>4. CASE DumpInsertFails(d)
      BY <3>4, DumpInsertFailsInv
    <3>5. CASE DumpEnd(d)
      <4>1. kills' \in Nat
        BY <3>5 DEF DumpEnd, IInv, TypeOK
      <4> QED
        BY <3>5, <4>1, StopInv DEF DumpEnd
    <3>6. CASE Kill(d)
      <4>1. kills' \in Nat
        BY <3>6 DEF Kill, IInv, TypeOK
      <4> QED
        BY <3>6, <4>1, StopInv DEF Kill
    <3> QED
      BY <2>3, <3>1, <3>2, <3>3, <3>4, <3>5, <3>6 DEF Dump
  <2>4. CASE UNCHANGED vars
    <3>1. now' \in Instants /\ UNCHANGED <<log, rows, run, failed, overlapped, kills>>
      BY <2>4 DEF vars, IInv, TypeOK, Instants
    <3> QED
      BY <3>1, StutterInv
  <2> QED
    BY <2>1, <2>2, <2>3, <2>4 DEF Next
<1> QED
  BY <1>1, <1>2, PTL DEF Spec

\* The log, the table and the runs keep their types (log.go's dumpLogs).
THEOREM TypeCorrect == Spec => []TypeOK
<1>1. IInv => TypeOK
  BY DEF IInv
<1> QED
  BY <1>1, Invariance, PTL

(***************************************************************************)
(* Whatever is logged, wherever a dump is cut short: as long as dumps have *)
(* run one at a time, dumpLogs writes no line twice.                       *)
(***************************************************************************)
THEOREM WrittenAtMostOnce == Spec => []AtMostOnce
<1>1. IInv => AtMostOnce
  BY DEF IInv, Apart, Fresh, AtMostOnce
<1> QED
  BY <1>1, Invariance, PTL

(***************************************************************************)
(* When lines are logged in the order of their seconds, one for each, a    *)
(* dump of dumpLogs that is cut short, or overlaps another, leaves no gap  *)
(* before a line it has written, but for insertions that failed.           *)
(***************************************************************************)
THEOREM NoGapIsLeft == Spec => []NoGaps
<1>1. IInv => NoGaps
  BY DEF IInv, Complete, Gapless, NoGaps
<1> QED
  BY <1>1, Invariance, PTL

-------------------------------------------------------------------------------
(***************************************************************************)
(* dumpLogs implements Archive: in a steady clock, each of its steps       *)
(* writes one line that was not written, or is unseen.                     *)
(***************************************************************************)
THEOREM Implements == ASSUME Steady PROVE Spec => IsAnArchive
<1>1. Init => Archived!Init
  BY DEF Init, Archived!Init
<1>2. IInv /\ [Next]_vars => [Archived!Next]_<<Len(log), rows, overlapped>>
  <2> SUFFICES ASSUME IInv, [Next]_vars, ~UNCHANGED <<Len(log), rows, overlapped>>
               PROVE  Archived!Next
    OBVIOUS
  <2>1. CASE Tick
    BY <2>1 DEF Tick
  <2>2. ASSUME NEW at \in {0} \cup Instants, NEW fits \in BOOLEAN, LogLine(at, fits)
        PROVE  Archived!LogLine
    BY <2>2, LogGrows DEF IInv, LogLine, Archived!LogLine
  <2>3. ASSUME NEW d \in Dumpers, Dump(d) \/ Kill(d)
        PROVE  Archived!Next
    <3>1. CASE DumpStart(d)
      <4>1. overlapped' = TRUE
        BY <3>1 DEF DumpStart, IInv, TypeOK
      <4> QED
        BY <3>1, <4>1 DEF DumpStart, Archived!Next, Archived!Overlap
    <3>2. CASE DumpInsert(d)
      <4>1. run[d].pos \in 1 .. Len(log)
        BY <3>2, ProceedFacts DEF DumpInsert, IInv, Lines
      <4>2. ~overlapped => \A i \in DOMAIN rows : rows[i] # run[d].pos
        BY <3>2, DumpInsertIsFresh
      <4>3. Archived!Write(run[d].pos)
        BY <3>2, <4>2 DEF DumpInsert, Archived!Write
      <4> QED
        BY <4>1, <4>3 DEF Archived!Next
    <3>3. CASE DumpSkip(d) \/ DumpInsertFails(d) \/ DumpEnd(d) \/ Kill(d)
      BY <3>3 DEF DumpSkip, DumpInsertFails, DumpEnd, Kill
    <3> QED
      BY <2>3, <3>1, <3>2, <3>3 DEF Dump
  <2>4. CASE UNCHANGED vars
    BY <2>4 DEF vars
  <2> QED
    BY <2>1, <2>2, <2>3, <2>4 DEF Next, Archived!Next
<1> QED
  BY <1>1, <1>2, Invariance, PTL DEF Spec, IsAnArchive, Archived!Spec
================================================================================
