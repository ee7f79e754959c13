-------------------------------- MODULE LogDump --------------------------------
(***************************************************************************)
(* The access log and the table it is dumped to.  Handlers append a line   *)
(* for each request to the log file.  A dump run (the worker of the        *)
(* server, that of every admin command, "flounder dumplogs") asks the      *)
(* table for its newest timestamp, reads the file from its first line to   *)
(* its last, and inserts each line that is newer.  Timestamps are whole    *)
(* seconds; in the table they are text, and their order there is not       *)
(* always that of time: they carry the local time and the zone.            *)
(***************************************************************************)
EXTENDS Naturals, Sequences

CONSTANTS
    Dumpers,        \* processes and goroutines that dump
    LastInstant,    \* bound: the last second
    MaxLag,         \* bound: seconds a request takes to be logged
    MaxLines,       \* bound: length of the log
    MaxKills,       \* bound: how often a dump is cut short
    Text,           \* Text[t]: the place of second t in the order of SQLite's text
    Seeded          \* is there a row in the table at the start?

Instants == 1 .. LastInstant

\* Text order is time order: so it is in UTC, and until a clock is put back.
Steady == \A s, t \in Instants : s < t => Text[s] < Text[t]

ASSUME LogDumpAssumption ==
    /\ LastInstant \in Nat \ {0}
    /\ MaxLag \in Nat /\ MaxLines \in Nat /\ MaxKills \in Nat
    /\ Text \in [Instants -> Nat]
    /\ Seeded \in BOOLEAN

VARIABLES
    now,        \* the second it is
    log,        \* the lines of the log file: their second, 0 when they do not parse,
                \* and whether they fit into the buffer of bufio.Scanner
    rows,       \* table log: the numbers of the lines written, 0 for the first row
    run,        \* run[d]: the dump run of d, its maxTime and the line it reads next
    failed,     \* history: lines whose insertion returned an error
    overlapped, \* history: have two dump runs been on at once?
    kills       \* history: how many dump runs were cut short

vars == <<now, log, rows, run, failed, overlapped, kills>>

SeedAt == 1

RowAt(k) == IF k = 0 THEN SeedAt ELSE log[k].at

Idle == [on |-> FALSE, max |-> 0, pos |-> 1]

-------------------------------------------------------------------------------
Init ==
    /\ now = 1
    /\ log = << >>
    /\ rows = IF Seeded THEN <<0>> ELSE << >>
    /\ run = [d \in Dumpers |-> Idle]
    /\ failed = {}
    /\ overlapped = FALSE
    /\ kills = 0

Tick ==
    /\ now < LastInstant
    /\ now' = now + 1
    /\ UNCHANGED <<log, rows, run, failed, overlapped, kills>>

\* Mutant: the log is moved away before a line is added, as rotateLogs is to do.
LogLineRotated(at, fits) ==
    /\ Len(log) < MaxLines
    /\ at = 0 \/ (at <= now /\ now <= at + MaxLag)
    /\ log' = IF log = << >> THEN <<[at |-> at, fits |-> fits]>> ELSE << >>
    /\ UNCHANGED <<now, rows, run, failed, overlapped, kills>>

\* A request is logged when it has been answered, under the second it began.
LogLine(at, fits) ==
    /\ Len(log) < MaxLines
    /\ at = 0 \/ (at <= now /\ now <= at + MaxLag)
    /\ log' = Append(log, [at |-> at, fits |-> fits])
    /\ UNCHANGED <<now, rows, run, failed, overlapped, kills>>

\* Mutant: a blank first call of scanner.Scan.
DumpStartAfterFirst(d) ==
    /\ ~run[d].on
    /\ overlapped' = (overlapped \/ \E e \in Dumpers : run[e].on)
    /\ \E i \in DOMAIN rows :
          /\ \A j \in DOMAIN rows : Text[RowAt(rows[j])] <= Text[RowAt(rows[i])]
          /\ run' = [run EXCEPT ![d] = [on |-> TRUE, max |-> RowAt(rows[i]), pos |-> 2]]
    /\ UNCHANGED <<now, log, rows, failed, kills>>

\* Select the newest timestamp, as text; with no row, dumpLogs returns at once.
DumpStart(d) ==
    /\ ~run[d].on
    /\ overlapped' = (overlapped \/ \E e \in Dumpers : run[e].on)
    /\ \E i \in DOMAIN rows :
          /\ \A j \in DOMAIN rows : Text[RowAt(rows[j])] <= Text[RowAt(rows[i])]
          /\ run' = [run EXCEPT ![d] = [on |-> TRUE, max |-> RowAt(rows[i]), pos |-> 1]]
    /\ UNCHANGED <<now, log, rows, failed, kills>>

\* The next line that scanner.Scan returns; it stops for good at one that is too long.
Reads(d) == run[d].on /\ run[d].pos <= Len(log) /\ log[run[d].pos].fits

\* Mutant: "not before" in the place of "after".
NotOlder(d) == log[run[d].pos].at >= run[d].max

Newer(d) == log[run[d].pos].at > run[d].max

Proceed(d) == run' = [run EXCEPT ![d].pos = @ + 1]

DumpSkip(d) ==
    /\ Reads(d) /\ ~Newer(d)
    /\ Proceed(d)
    /\ UNCHANGED <<now, log, rows, failed, overlapped, kills>>

DumpInsert(d) ==
    /\ Reads(d) /\ Newer(d)
    /\ rows' = Append(rows, run[d].pos)
    /\ Proceed(d)
    /\ UNCHANGED <<now, log, failed, overlapped, kills>>

\* insertInto prints its error, and the run goes on.
DumpInsertFails(d) ==
    /\ Reads(d) /\ Newer(d)
    /\ failed' = failed \cup {run[d].pos}
    /\ Proceed(d)
    /\ UNCHANGED <<now, log, rows, overlapped, kills>>

\* Mutant: a line that is passed over ends the run, "break" in the place of "continue".
DumpEndAtOld(d) ==
    /\ run[d].on /\ (Reads(d) => ~Newer(d))
    /\ run' = [run EXCEPT ![d] = Idle]
    /\ UNCHANGED <<now, log, rows, failed, overlapped, kills>>

DumpEnd(d) ==
    /\ run[d].on /\ ~Reads(d)
    /\ run' = [run EXCEPT ![d] = Idle]
    /\ UNCHANGED <<now, log, rows, failed, overlapped, kills>>

\* main returns when the admin command is done, or the server is stopped.
Kill(d) ==
    /\ run[d].on
    /\ kills < MaxKills
    /\ kills' = kills + 1
    /\ run' = [run EXCEPT ![d] = Idle]
    /\ UNCHANGED <<now, log, rows, failed, overlapped>>

Dump(d) == DumpStart(d) \/ DumpSkip(d) \/ DumpInsert(d) \/ DumpInsertFails(d) \/ DumpEnd(d)

Next ==
    \/ Tick
    \/ \E at \in {0} \cup Instants, fits \in BOOLEAN : LogLine(at, fits)
    \/ \E d \in Dumpers : Dump(d) \/ Kill(d)

Spec == Init /\ [][Next]_vars

\* dumpLogsWorker starts dumpLogs again and again, and nothing in dumpLogs waits.
FairSpec == Spec /\ \A d \in Dumpers : WF_vars(Dump(d))

-------------------------------------------------------------------------------
Lines == 1 .. Len(log)

Written == {rows[i] : i \in DOMAIN rows}

\* Every variable has its type, and a row is of a line that is in the log.
TypeOK ==
    /\ now \in Instants
    /\ log \in Seq([at : {0} \cup Instants, fits : BOOLEAN])
    /\ rows \in Seq(Nat) /\ Written \subseteq {0} \cup Lines
    /\ run \in [Dumpers -> [on : BOOLEAN, max : {0} \cup Instants, pos : Nat \ {0}]]
    /\ failed \subseteq Lines
    /\ overlapped \in BOOLEAN
    /\ kills \in Nat

(***************************************************************************)
(* No line is written twice, wherever a run is cut short and whatever is   *)
(* logged meanwhile, as long as dumps have run one at a time and the text  *)
(* order of the timestamps is that of time: the next run passes over what  *)
(* is there by its timestamp alone.                                        *)
(***************************************************************************)
AtMostOnce ==
    Steady /\ ~overlapped => \A i, j \in DOMAIN rows : rows[i] = rows[j] => i = j

\* Lines that parse are in the log in the order of their seconds, one for each.
Orderly == \A i, j \in Lines : i < j /\ log[i].at # 0 /\ log[j].at # 0 => log[i].at < log[j].at

(***************************************************************************)
(* A dump that was cut short leaves no gap the next one would not fill: if *)
(* a line is written, those before it are, or their insertion failed.      *)
(* This needs what the note in dumpLogs says ("possible bug if two         *)
(* requests in the same second"), and that requests end in the order they  *)
(* began.                                                                  *)
(***************************************************************************)
NoGaps ==
    Orderly =>
        \A i, j \in Lines :
            i < j /\ j \in Written /\ log[i].at > SeedAt => i \in Written \cup failed

\* With a steady clock, LogDump implements Archive.
Archived == INSTANCE Archive WITH lines <- Len(log)

IsAnArchive == Archived!Spec

(***************************************************************************)
(* A line newer than the whole table is written, or overtaken by one that  *)
(* is not older, unless its insertion fails or a line before it is too     *)
(* long for the scanner: dumps go on for ever.                             *)
(***************************************************************************)
NewerThanTable(k) ==
    /\ rows # << >>
    /\ k \in Lines
    /\ \A i \in 1 .. k : log[i].fits
    /\ \A i \in DOMAIN rows : RowAt(rows[i]) < log[k].at

NewLinesArrive ==
    \A k \in 1 .. MaxLines :
        NewerThanTable(k) ~>
            k \in failed \/ \E i \in DOMAIN rows : k \in Lines /\ RowAt(rows[i]) >= log[k].at
===============================================================================
