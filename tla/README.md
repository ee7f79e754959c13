# Verification of Flounder

Flounder hosts Gemini and web pages: users register, are activated by an
administrator, and edit a directory of files over web forms or SFTP; the pages
are served over HTTP and Gemini. It is one Go process (`flounder serve`: an HTTP,
a Gemini and an SFTP server in goroutines of their own), beside which the same
binary runs `flounder admin ...` and `flounder dumplogs`. Its state is an SQLite
database, a directory for each user, a log file and a second SQLite database for
analytics. Nothing in it takes a lock, but for the map of rate limiters, and it
opens no transaction: what the models are about is which relations between table,
directories, maps and files survive that.

This directory holds TLA+ models of the parts where that matters, TLC
configurations that check them on small instances, and proofs, checked by TLAPS,
that hold for every value of the constants. `PROJECT.json` lists the runs, the
code lines each definition translates (`map`), a mutation that breaks each
property (`mutants`), what is hard to test in this code (`hazards`), and where the
code differs from its own words (`findings`).

To check a model: `tlc -config AccountsRace.cfg MCAccounts`. To check its proofs:
`tlapm AccountsProofs.tla`.

## The system

| Component | State | Operations | What is hard | Correct when |
|---|---|---|---|---|
| **Accounts** (admin.go, http.go, db.go) | table `user`, a directory per name | register, activate, rename, delete, from requests and from the `admin` command | a row and a directory changed by separate calls; two requests on one name; a stop in between; requests that say a name their account does not bear, or none | a directory exists for the active accounts only, and keeps what its bearer saved, for the bearer alone |
| **User files** (http.go, utils.go, db.go, sftp.go) | one user's directory, files open for writing | edit form, upload, delete, SFTP write, rename, remove and mkdir; `checkIfValidFile` | check, then act, call by call; files that vanish while they are listed; limits reached exactly | extensions, lengths and numbers stay within the limits, texts are stored as posted |
| **Access log** (log.go, main.go) | log file, table `log` | append a line, dump the log to the table | timestamps are whole seconds; lines out of order; dumps that overlap or are cut short | each line is written once, none is skipped for ever |
| **Custom domains** (db.go, http.go, gemini.go) | column `domain`, map `domains` | change a domain, rebuild the map, look it up | the shared map is emptied and filled while it is read; check, then update | a domain leads to who holds it, and one account holds it |
| **Sessions** (http.go, auth.go, sftp.go) | signed cookies, names of SFTP connections | login, logout, impersonate, rename, delete, change password | three values in the cookie, changed by different handlers; answers that cross or get lost; a cookie outlives its account | a session acts for the account that logged in, or that it impersonates |
| **Rate limiter** (limit.go) | map of token buckets, mutex | getVisitor, Allow | first requests of an address together; boundary of the bucket | one bucket for an address, at most burst + rate x time requests |
| **Boot** (main.go, db.go) | tables, admin account, cookie key | create what is missing | a stop half way; two processes at once | after a start there is an admin account and one key |
| **Page lookup** (http.go, gemini.go, db.go, utils.go) | none | path to file, feed, listing, redirect or error | files change between `os.Stat` and `os.Open`; two protocols, two copies of the logic | both protocols answer for the same file; a site left alone is answered for as it is |
| **Gemtext to HTML** (gmi2html.go) | three flags | one line at a time | nesting of quotes, lists and preformatted text | tags are balanced |
| Gemfeed, Gemini proxy, Gemini server and certificates, mail, zip archive, templates | none | | | not modelled: see the end |

They interact as follows. The handlers of **Accounts** create, move and remove
the directory that **User files** works in; a rename also changes the session's
name and leaves the domain map as it is. **Custom domains** and **Page lookup**
turn a host and a path into a file of a user's directory. Every request, over
HTTP and Gemini, ends as a line of the **Access log**, which the dump worker
copies to the analytics table. The **Rate limiter** stands before login,
registration and SFTP connections. **Sessions** say by a name whom a request acts for, and
the names are those that **Accounts** hands from one account to another. **Boot** comes
before everything: it makes the first account and the key that signs the sessions.

## The modules

| Module | Models | Extended by |
|---|---|---|
| `Accounts` | registration, activation, renaming, deletion | `MCAccounts` (TLC), `AccountsProofs` |
| `UserFiles` | the requests on one user's directory | `MCUserFiles` (TLC), `UserFilesProofs` |
| `LogDump` | log lines and the dump to the table | `MCLogDump` (TLC), `LogDumpProofs` |
| `Archive` | what a dump promises (abstract) | instantiated by `LogDump` |
| `Domains` | custom domains: the column and the map | `MCDomains` (TLC), `DomainsProofs` |
| `GmiToHtml` | the conversion of a page | `PagesProofs` |
| `Sessions` | cookies, SFTP connections, and the names they hold | `MCSessions` (TLC), `SessionsProofs` |
| `PageLookup` | what answers a request for a path, over HTTP and Gemini | `PagesProofs` |
| `RateLimit` | the limiters of limit.go under their mutex | `RateLimitProofs` |
| `Bucket` | what a rate limit promises (abstract) | instantiated by `RateLimit` |
| `Boot` | the first steps of every `flounder` command | `BootProofs` |

### Accounts

`holder[n]` is the account (an identity of its own, the `id` of the row) whose
username is `n`; `active` is the column of that name; `base` is whether `FilesDirectory` is there,
`dirs` are the directories in it; `home[n]` tells whose `index.gmi` is in directory `n`: the
account's that saved it while it bore `n`, or `NoOnes`.
A worker is a request in flight or an admin command: `op[w]` holds its next step.
Each action is one SQL statement or one file system call: `RegisterStat` and
`RegisterInsert` are the two halves of `registerHandler` with the password hash in
between; `ActivateSelect` ... `ActivateMkdirAgain` the five calls of `activateUser`;
`RenameUpdate`, `RenameDir` and `DeleteRow`, `DeleteDir` those of `renameUser` and
`deleteUser`; `SaveCheck`, `SaveMkdirAll`, `SaveWrite` those by which `index.gmi` is saved over the
edit form, an upload or SFTP (the other files, and what a check looks at, are in `UserFiles`). `Abandon` cuts
an operation short anywhere: a crash, a killed admin command, an error return; what
`os.RemoveAll` had removed by then is any part of it.

No handler asks whether the account that logged in still bears the name in its cookie. A page is
therefore saved under any name that has a directory, by its bearer or by somebody else: a session whose
account was renamed or deleted, or an administrator who impersonates (`SaveWrite`; who that
can be is the subject of `Sessions`). `deleteAccountHandler` does not ask for a login either: without
one the name is empty, no row has it, and what is removed is `FilesDirectory` itself
(`DeleteNoRow`, `DeleteBase`). After that no `os.Mkdir` succeeds until the `os.MkdirAll` of an edit that
had passed its check makes the directory again, or an administrator does.

`os.Rename` is modelled as Go's: it fails when the new name is an existing
directory, empty or not. `renameUser` to the own name changes nothing
and is left out. Email addresses, which are unique as well, only make an insertion
fail: `RegisterRefused` may always happen. An administrator's hand that mends a directory is left out.

Row, directory and pages drift apart in three ways: a rename or a deletion that meets another operation on one
of its names, an operation that stops between its two halves, and a deletion without a name. `dirty`
is history, guards nothing, and is the set of names those may have broken, so that the properties
say exactly what is excused. A name leaves it when it is mended: by an activation or a deletion that nothing
raced with (`disturbed` are the workers of which that cannot be said). Registrations and uploads race with anything,
and activations and edits with each other, without making a name dirty. A page that a session saves under a name which
is not its account's is no one's, whoever bears the name: that it replaces the bearer's is in the model, and no
property promises otherwise.

### UserFiles

The files of one user as paths and lengths: a path is a folder, or `Root`, and a name in it. A request is
a record with its arguments and the next step; `list` and `measure` are the two
halves of `checkIfValidFile` (the walk of `getMyFilesRecursive`, then that of
`dirSize`), which `editFileHandler` calls three times, each time with other
arguments, and the other handlers once. Opening a file, writing to it and renaming
it are steps of their own: `fd[r]` is the file that request `r` has open, wherever
another request has moved it by then. `Size`, what `dirSize` finds, is the number of bytes in all files.

`checkIfValidFile` compares the string it is given with 256, and it is given two kinds: the first and the last
check of an edit and those of SFTP get the full path, the second check of an edit and that of an upload the name
in the form (`CheckedLength`). So a rename to a name that is just short enough is done, and then refused by
the last check. The extension is part of either string (`OkNames`). `os.Rename` moves files, with whoever has
them open, and folders with all they hold (`Rename`, `MoveFolder`); nobody checks the files in a folder, and nobody
needs to: their names, and so their extensions, stay as they are, while the paths may become too long.

`CheckPanic` is the nil pointer of `fileFromPath` when a listed file is gone:
`net/http` ends the one request, while requests of SFTP run in goroutines of the
library, which recover nothing: there the program ends, and all requests with it.

Bounds on the input: folders are one level deep, so `NewPaths` gives a path that may be a folder's only names that
may be a folder's, and `SftpMkdir` makes folders at the top only.
Left out: whether a text is UTF-8 (`isTextFile`) is a choice; a name with `..` or a hidden folder is one that
`checkIfValidFile` sees like any other; a folder in the path of an upload must exist.
`SftpPut` writes one block at the start of the file. Nothing limits what SFTP writes:
`Filewrite` checks the path with no bytes and hands out the open file. The
properties about lengths are therefore stated for the web forms.

### LogDump and Archive

`log` is the log file: for each line the second in its timestamp (0 when it does not
parse) and whether it fits the buffer of `bufio.Scanner`. `rows` is the table, each
row by the number of its line. `run[d]` is a dump in progress: `maxTime`, and
the line it reads next. Dumpers are the server's worker, the worker that
`main` starts in every other command too, and `dumplogs`. A dump may be cut short
(`Kill`) anywhere, as `main` returns when the admin command is done.

`LogLine` takes a timestamp up to `MaxLag` seconds old: the HTTP log has the time a
request began and is written when it ended. `Text` gives the order of the
timestamps as text, which is what SQLite compares; `Steady` says that it is the
order of time, as it is in UTC and until a clock is put back.

`Archive` is the abstract specification: lines are logged, each is written at most
once until two dumps have overlapped, in any order. `IsAnArchive` says that `LogDump`
implements it, with `Len(log)` for its number of lines.

### Domains

`name` and `domain` are the two columns of the table `user`, by row; `domains` is the map in
memory. `req[r]` is a request that changes a domain: it selects its row (`Begin`), looks at the map
(`Check`), updates the table (`Update`), and runs `refreshDomainMap`: an empty
map (`Clear`), the query (`Query`), row after row (`Put`, `Close`). Then it may rename the
account, as `myAccountHandler` does in the same request (`EndRenaming`). `Rename`,
`Delete` and `Register` are what other requests and admin commands do to the table
meanwhile; none of them touches the map.

Whatever the variable `domains` holds by then is what a `Put` writes to: two rebuilds at
once fill one map. What keeps that harmless is SQLite: nobody writes
to the table while a query has rows to return (`Reading`), so that all rebuilds
under way put rows of the same table. The statement has no `ORDER BY`: the rows come in
any order. A read or a write may fail (`UpdateFails`, `QueryFails`); that a row
cannot be scanned, or the query breaks off between rows, is left out.

The Go runtime may notice that a map is written while it is read or written, and ends the
program; `Restart` may happen at any time and covers that. The nil pointer of
`myAccountHandler`, when the row is gone, ends a request before it changes anything:
`Begin` does not happen then.

History variables say what is excused: `stale` (renamed or deleted since the map was
emptied), `raced` (claimed while another request was changing a domain, or after a failed
read), `unread` (the last read failed).

### GmiToHtml

`textToHTML` on a document of which each line is a kind. `flags` is the set of
`pre`, `list` and `blockquote` that are set; `out` is what is written: tags of those
three elements, and the numbers of the lines whose content was written. `ReadLine`
is one turn of the loop, for a line the parser of the Gemini library can
give there (`Parsed`); `Finish` is what follows the loop.

What a line says, how it is escaped, the alternative text of a preformatted block and the
rewriting of links to the proxy are left out; that a link whose URL does
not parse is dropped, after it has ended a quote or list, is not.

### Sessions

The server keeps no sessions: `jar[x]` is the signed cookie of a browser, with the values
`auth_user` (`user`), `impersonating_user` (`impers`) and `admin`, or the name an SFTP
connection logged in with. A request carries the cookie its browser had when it was sent
(`Send`); a handler that changes the session answers with a whole new cookie
(`AnswerWith`), which replaces the browser's if the answer comes (`Arrive`) and is
forgotten otherwise (`Drop`). Two requests of one browser may be under way, and their answers
may cross. The handlers are `Login`, `Logout`, `Impersonate`, `ActivateByAdmin`; those that
work in two calls are `RenameRow` and `RenameDone` (the table, then, when the directory has
been moved, the cookie), `DeleteRow` and `DeleteDone`, `ResetCheck` and `ResetUpdate` (the
password is checked and stored by name, with a hash computed in between).

`holder`, `active`, `password`, `email` and `admins` are columns of the table; of `email` only values that are
possible usernames matter, as nothing checks that an address looks like one. People are taken for the
accounts they registered; `Activate`, `MakeAdmin`, `SetPassword`, `CommandRename`,
`CommandDelete` are the `admin` command and other people's requests, `Register` is a
registration. What becomes of the directories is in `Accounts`: a rename or a deletion that
fails there is a `Drop` here.

The other fields of a cookie are history: the accounts its two names stood for (`acts`,
`back`), the one whose password was entered last (`by`), whether that was while impersonating
(`mixed`), and which of the accounts its names are not of (`astray`): they were renamed or deleted since by anything but the
request that answers with this cookie, or logged in over SFTP with their email. `former[n]` is every account that ever had name
`n`. They say what the properties excuse.

`checkLogin` looks for a row with the given string as its username *or* its email (`LoginOk`). `loginHandler` then
puts the username of the row into the cookie; an SFTP connection keeps the string it was given (`Connect`), and acts on the
directory of that name: an account whose email is the username of another one, or a free name, works in that
one's directory. `NamesAreCurrent` names this next to renames and deletions.

A value that is missing or set to nil is `None`: `getAuthUser` reads both alike. Left out: the expiry of cookies and their signature,
which are the library's.

### PageLookup

`userFile` and `gmiPage` for one path of one user's site. The path is one of seven kinds
(`AllPaths`: the code distinguishes them by their ends); `site` is what the file system has there:
nothing, a regular file above it (`below`: `os.Stat` fails with `ENOTDIR`, which
`os.IsNotExist` does not count), a file, or a directory with or without an `index.gmi` and with any of `Files`.
`Change` is one system call of anybody else, between any two of a request: `HttpStat`
and `HttpStatIndex` are the two `os.Stat` of `userFile`; `HttpList` is the `ReadDir` of `generateFolderPage`, and
`HttpDescribe` its `fileFromPath` on one entry after the other, in any order, which panics on one that has
gone, whichever it is; `HttpRead` the `os.Open` or `http.ServeFile`.
`GeminiStat` and `GeminiServeFile` are `gmiPage`. `out` collects what is written to the client,
`seen` the states of the site during the request. The specification is called `LookupSpec`, and
its parts likewise, so that `PagesProofs` can extend `GmiToHtml` as well.

`gmi.ServeFile` and `http.ServeFile` are libraries (the redirect of the latter for names that
end in `index.html` is left out); so are the template and query of the server's own index page.

### RateLimit and Bucket

`visitors` is the map, `buckets` the limiters it leads to, `mu` the mutex. A request waits
for the mutex (`lock`), makes a limiter while it holds it (`make`), and asks the limiter it got
(`allow`) at some later time. A limiter of `golang.org/x/time/rate` is lazy: it keeps what it
had at its last success, and when that was; it locks itself, so `Allow` is one step. The
unit is half a token, which is what a second brings: a request costs two of them, four are a
full bucket (`rate.NewLimiter(.5, 2)`).

`Bucket` is the abstract specification: for each address one bucket, which gains a unit each
second. `IsOneBucket` says that `RateLimit` implements it, where `Credit` is what the limiter in
the map would count by now, and full without one.

### Boot

`main` up to the point where the servers start or the `admin` command runs: `CREATE TABLE user`;
if that succeeds, the insertion and activation of the first account (`InsertAdmin`,
`SelectAdmin`, `UpdateAdmin`, `Mkdir`, `WriteIndex`), and the look at the error of the
insertion after that (`CheckInsert`, `log.Fatal`); then the table of keys, and the first key, read or made.
Every program starts like this, so two may do it at once; each may be stopped between any two
calls. A statement may fail while another process works on the database (`Locked`): for
`CREATE TABLE user` the code takes that for "it exists". The configuration file is left
out, and so is what happens to the first account's name and row once a program is up.

## The runs

| Run | Instance | Shows |
|---|---|---|
| `AccountsRace` | 3 names, 2 accounts, 2 operations in flight | types, `DirectoryMatchesRow`, `PageIsTheHolders`, `NoPageLost` |
| `UserFilesRace` | 3 files that do not fit together, one length allowed and one refused, 2 requests, web forms | `QuotaBound`, `FilesWithinLimit` |
| `UserFilesSftp` | 3 names, one with a refused extension, a folder, 2 requests, SFTP | types, `OnlyOkExtensions` |
| `UserFilesAlone` | 7 names, one of them long and one refused, 2 folders, 3 lengths, 1 request, web forms | `WrittenAsPosted`, `TopLevelWithinLimit` |
| `Domains` | 2 rows, 2 names, 1 domain, 2 requests | types, `EntriesHold`, `EveryClaimIsKnown`, `OneHolder`, `ClaimsTakeEffect` |
| `GmiToHtml` | all documents of up to 6 lines | types, `LinesAreInPlace`, `OneElementPerRun`, `WellNested`, `TitleIsTheFirst` |
| `LogDump` | 3 lines in 3 seconds, 2 dumpers, 1 cut short | types, `NoGaps`, `IsAnArchive`, `NewLinesArrive` |
| `Sessions` | 2 names, which may be emails as well, 2 accounts, 1 browser with 2 requests under way, 1 SFTP connection, 8 steps of `Spend` | types, `NamesAreCurrent`, `AdminFlagIsEarned`, `ImpersonationIsUndone`, `PasswordIsTheOwners` |
| `PageLookup` | 7 kinds of paths, one more file in a directory, a request over HTTP and one over Gemini, each meeting up to 3 different sites | `UnchangedIsServed`, `NotFoundWasMissing`, `PanicHasACause`, `SameFileOverBoth` |
| `RateLimit` | 2 addresses, 2 requests, 4 seconds | `BurstAndRate`, `IsOneBucket`, `EveryRequestIsAnswered` |
| `Boot` | 2 programs, 4 starts | `AdminIsThere`, `KeyIsTheFirst` |

One run, `UserFilesPanic`, is expected to fail. `acceptInboundConnection` recovers from panics, so
that one connection does not take the others down (sftp.go:180-184); the run shows that a file
deleted while SFTP checks a path ends the program (`findings`).

### What else the models show

Behaviour that the models have because the code has it, and that a reader of the code may
not expect:

- An account is created over a directory that appeared after `registerHandler` looked
  (`Accounts`). An activation that is repeated writes the welcome page over the user's. A deletion without a login
  removes every user's directory. A session that outlived its account saves pages under the next bearer of the name.
- An edit renames a file to a name whose full path is too long, and then reports that it was refused; renaming a folder can
  make the paths of its files too long as well (`UserFiles`).
- Files in folders are not counted by `MaxFilesPerUser`; an SFTP rename that failed is answered
  with success; SFTP writes are not limited in length (`UserFiles`).
- An empty analytics table is never filled: the dump looks for the newest row first (`LogDump`).
- A login while impersonating keeps `impersonating_user`, so that the next logout leads to the
  impersonator rather than out, and pages show the new user as impersonated (`Sessions`, the
  field `mixed`). A session of an account renamed or deleted elsewhere goes on acting on the name. A login over SFTP with
  an email acts on the directory that is called like the email.
- A directory asked for without a slash is answered with a redirect, after which
  `userFile` writes another answer (`HttpStatIndex`). A Gemini page below a regular file ends in a
  panic, which `net/http` recovers, and so does the listing of a directory from which a file goes
  meanwhile (`PanicHasACause`). An `index.gmi` that goes away between `os.Stat` and
  `os.Open` gives an empty page; a directory without an index under `?raw` gives the listing of `net/http`;
  a file called `gemlog` is a file over HTTP and a feed over Gemini (`PageLookup`).
- When the first start is cut short after `CREATE TABLE user`, or that statement meets a locked
  database, no later start makes the first account. Two programs that find no cookie key at once
  insert one each, and one of them signs with a key nobody reads again (`Boot`).

### Bounds, and why they are enough

- *Two requests, operations or dumpers in flight.* Every race in this code is
  between the check of one and the act of another; a third brings another pair.
  The theorems hold for any number. `QuotaBound` depends on the number, and is proved
  for all.
- *Three names and two accounts* (`Accounts`) let a name pass from one account to the
  other while a third name is the target of a rename. `Ids` bounds how many accounts
  are ever created.
- *Lengths.* With one request (`UserFilesAlone`) lengths 1 to 3 under limits of 2 for a file and 3 for the
  directory: a file may fit, fill or exceed either. With two (`UserFilesRace`) lengths 2 and 3 under limits of
  2 and 2: one file fills the directory, the other length is refused, and two requests can each find room. Names
  are 1 long, or 3 in `UserFilesAlone`, the directory's path is 1, the limit 3: the long name passes by itself
  and not as a full path, and a name in a folder just fits.
- *One folder over SFTP, two over the web forms*: with two folders and two requests over SFTP the state space is too
  large; that a folder moves under a file another request has open is only proved.
- *Three lines, three seconds*: two lines in one second, one logged late, one before
  and one after a cut. `LastInstant`, `MaxLines` and `MaxKills` bound the run;
  `MaxLag` bounds how late a line may come.
- *Two rows, two names, one domain*: a name and a domain can each pass from one account to the
  other, or be claimed by both at once. With two domains TLC finds the invariants true as well
  (1.9 million states); they are proved for any number.
- *Six lines* hold two transitions from any kind of line to any other, with
  preformatted text among them. Proved for documents of any length.
- *One browser with two requests, one connection* (`Sessions`): a cookie that is on its way crosses
  another one, and the account of either can be renamed or deleted by the other, by the connection's
  owner or by a command; two names and two accounts let a name pass on, or be the other's email. `MaxSpent` bounds
  requests, connections and commands together: eight let an administrator log in, impersonate and log
  out while an account is registered, activated and renamed. The theorems need none of these bounds.
- *One request over each protocol* (`PageLookup`): requests do not influence each other; `Change`
  may happen any number of times between their calls, but leads to at most three different sites in one
  request (`MaxSites`): a directory with all files, without one, and without the other or the directory. Proved for any
  number of requests and files and, as `MaxSites` is any number, of sites.
- *Four seconds* (`MaxClock`): a bucket is emptied, refilled to the full in four units, and has its
  boundary at half a token; two addresses and two requests let first requests of one address meet
  while another has its bucket. Proved for all.
- *Four starts of two programs* (`MaxStarts`): each can be cut short once and start again.
- Symmetry is over names, identities, workers and requests nothing singles out, and
  never in the runs of liveness properties.

Deadlock is not checked where a run has an end: `Sessions` and `Boot` stop at their
bounds, and in `PageLookup` each request is made once.

### Fairness

`LogDump` has weak fairness of each dumper's next step (`Dump(d)`): `dumpLogsWorker` calls
`dumpLogs` again and again, and nothing `dumpLogs` does waits for anything else. Logging,
the clock and kills are not fair: nobody needs to make a request. The kills are
bounded, so that there comes a dump that is not cut short.

`Domains` has weak fairness of each request's next step (`Work(r)`): Go runs a handler
until it returns, and what waits for the read lock of another request gets it or fails after a
while (`UpdateFails`). No request has to be made, and a step that may fail may fail each time:
`ClaimsTakeEffect` excuses a table that cannot be read.

`RateLimit` has weak fairness of each request's next step (`Serve(r)`): Go runs a handler until it
returns, and the mutex is unlocked by a deferred call. Requests arrive and time passes
without fairness. A request keeps the mutex from one step to the next only to make a limiter, once
for each address, so weak fairness is enough for those that wait: in the program, where each look
takes the mutex for a moment, Go's mutex lets no waiter starve.

## The proofs

All are of the form `Spec => []P`, for any constants that meet the module's `ASSUME`,
by an invariant that implies `P` and is kept by every action.

**AccountsProofs.** `TypeCorrect` first. The invariant `IInv` adds three things. `Sharing`: two workers that can break
each other and have a name in common are both `disturbed`, and their names `dirty`; both names of a rename are
dirty, or neither; without `FilesDirectory` all are. `Identity`: an account bears one name and is known
wherever it appears, so that one issued later owns no old page. `Agreement`: under a name that is
not dirty, row, directory and page disagree only while a worker is between the halves of an operation on it (`Good`),
and what each worker relies on at its next step, if its names are clean or if nothing raced with it (`Halfway`). The
second case is what lets an activation or a deletion mend a name that was dirty before it came. The strengthening is
needed because between two calls the properties are false of the name that is being worked on. `DirectoriesMatch` and
`PagesAreTheHolders` are `Good` for a settled name; `PagesAreKept` is an action property and follows from the same invariant.

**UserFilesProofs.** `TypeCorrect` includes that requests carry paths that exist.
`ExtensionsAreOk` needs that a request past its check carries a path it accepted
(`AllVetted`), that files are only opened and moved under those, and that a folder's move keeps the names in it.
`FilesAreWithinLimit` needs the same of lengths (`Bounded`). `QuotaIsBounded` is the
hardest: with `n` requests, the directory is at most `MaxUserBytes + (n - 1) *
MaxFileBytes` long. The invariant `Room` counts the requests that may still write what
they were granted: `Size` plus `MaxFileBytes` for each such request never exceeds the limit plus
`n - 1` files. The counting rests on lemmas about cardinalities: as `Size` is the number of bytes in
all files (`Bytes`), no induction over the files is needed, a call changes the bytes of one file, of two in turn, or
carries all of a folder's to another (`Summed`). `EntriesAreWithinLimit` counts
what requests are going to add as if it were there: in the invariant `Crowded` a request that saw room, or
is past its check, counts once for the file or folder it may still make, and once more while it may make
both; a rename, of a file or a folder, adds nothing. The bound is tight for one request and for two (TLC reaches it).
`TextIsWrittenAsPosted` is the one theorem with a hypothesis on the number of requests, as the property
is about one at a time (`OneAtATime`); with two it is false, another request may write the same file.
Its invariant `AllWritten` follows an edit from the truncation to the rename.

**LogDumpProofs.** `Apart`: as long as dumps have not overlapped and text order is time order, there is one
run, no row ahead of it is newer than its maximum, and no line is in the table twice: so
an insertion is always of a new line. `Complete`: when the lines are in order, what a
run has behind it and is newer than its maximum is written or failed, and its maximum is
of a row, before which there are no gaps; so an insertion leaves none either. From these,
`WrittenAtMostOnce`, `NoGapIsLeft` (overlapping runs included), and `Implements`: every step of `LogDump` is
a step of `Archive` or leaves its variables alone.

**DomainsProofs.** `TypeCorrect` needs that a request has a name (`Named`), or its update would
meet the rows that are gone. `Locked`: what a query has still to return is in the table. With it
`EntriesHold` is inductive (`EntriesAreHeld`). `ClaimsAreKnown` needs the same property while the map is being
filled: what is missing is still to be returned by some query (`Covered`). It is what a
request that is alone relies on when it finds its domain free; `AloneIsFree` carries that to
its update, and `Unique` says that the update meets one row: `DomainsHaveOneHolder`. Together they
give `MapIsTheColumn`: between rebuilds the map says of a host what the table says, but for races and renames.

**PagesProofs.** For `GmiToHtml`, documents of any length. `TypeCorrect` (at most one flag is set after a line) and
`TitleIsFirst` follow the flags through one turn of the loop. The properties of the output need an
invariant that relates flags and tags (`TagInv`): what has been opened more often than closed is what the flags say
(`Balanced`, over `Standing`), the last content is of the last line (`LastLine`), each line so far is inside its element
(`InPlace`), there is an element for each run (`PerRun`), and what was opened is closed before another is,
or still open with nothing but contents after it (`Nested`). `Times` counts tags by
cardinality. From it `EveryLineInPlace`, `OneElementForEachRun` and `EveryElementClosed`.

For `PageLookup`, any number of requests. A request holds what it found some calls ago, when the site
was another, so the invariant (`LookupInv`) gives each of its decisions a witness among the sites it has seen: a
directory that was there at the first `os.Stat` and one without an index at the second (`Listed`), and so on up to
`HttpAnswer`, the ways to each answer. `Connected` says that sites of two kinds are seen only with a time in
between when there was nothing. What is still to be described was in a directory that was seen, so an entry that
is missing by now is one that went. The four theorems about answers are then cases of `HttpAnswer` and
`GeminiAnswer`, for `UnchangedSiteIsServed` with a single witness for all.

**SessionsProofs.** `Inv` is about every cookie, on a browser, a connection, or a request at any of its
steps. `Honest` says how the values of a cookie go together: a cookie
stands for nobody without a name, an admin flag was earned, and an impersonation leads back. `StandsFor`
must be said of a request at each step for the name that its account has by then
(`NameNow`: between `RenameRow` and `RenameDone` that is the new one). For a password, a request
that has checked it must remember that whoever asked knew that of *some* account that had the name
(`KnewOne`): the name may be another's at the update. The main lemma is that a
step that changes the table keeps what is true of all cookies, as long as it marks those of the
account it moves (`TableStep`, `Marked`). From `Inv`: `NamesStayCurrent`, `AdminIsEarned`,
`ImpersonationUndone`, `PasswordsAreOwned`, and `TypeCorrect`.

**RateLimitProofs.** `Apart` (each address has a bucket of its own) and `Guarded` (who makes a bucket holds the mutex
and the address has none; who asks a bucket asks the one in the map) make `Credit` a bucket: every step of `RateLimit` is a step of
`Bucket` or leaves it alone (`Implements`). For `RateIsBounded`, each span of admissions that ends with the
last one is paid for by the burst and the time since it began, less what the bucket still holds; without that
remainder the bound is not inductive.

**BootProofs.** `AdminInv`: only the program that made the table is between the insertion and the end of the
activation, and it comes alone; so what it leaves behind is complete, or `spoiled`
(`AdminIsMade`). `KeyInv`: who is about to insert a key and met nobody inserts the
first (`KeyIsFirst`).

Only model-checked: `NewLinesArrive`, `ClaimsTakeEffect` and `EveryRequestIsAnswered`, as liveness under
fairness is out of this prover's reach. Every other property of a passing run is a theorem.

## Plan

Done: `Accounts`, `UserFiles`, `LogDump` with `Archive`, `Domains`, `GmiToHtml`, `PageLookup`, `Sessions`,
`RateLimit` with `Bucket`, `Boot`; all with proofs of their safety properties. That `Domains` implements a map that is
the column is stated as an invariant, `MapIsTheColumn`, for the times at which it is true.

Left: generalisations of the theorems that excuse more than they need to, where a proof shows it.

## Not modelled

- *Gemfeed* (gemfeed.go): which files are entries, their dates and their order. Parsing and a
  sort, with no state; that a feed is made is an answer of `PageLookup`.
- *Gemini proxy* (proxy.go): one Gemini request for one HTTP request and a table of answers by
  status, without state.
- *Gemini server and certificates*: the library makes and stores them.
- *Mail*: one call to an SMTP server, whose result is only logged.
- *Archive download*: a walk that writes what it finds.
- *Templates*, and the parsing of the configuration: presentation and input.
