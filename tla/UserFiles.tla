------------------------------- MODULE UserFiles -------------------------------
(***************************************************************************)
(* The directory of one user and the requests that change it: the edit     *)
(* form, the upload form, the delete buttons, and SFTP.  Nothing is locked: *)
(* a request checks the directory (checkIfValidFile), then works on it     *)
(* call by call, while other requests of the same user do the same.  Each  *)
(* action is the part of a handler between two such calls.                 *)
(*                                                                         *)
(* A file is its path and its length; a path is a folder, or Root, and a   *)
(* name in it.  Folders are one level deep: none is made in, or moved      *)
(* into, another.                                                          *)
(***************************************************************************)
EXTENDS Integers, FiniteSets

CONSTANTS
    TopNames,           \* names of files in the user's directory itself
    InnerNames,         \* names of files in its folders
    Folders,            \* names of folders
    Root,               \* the user's directory itself
    OkNames,            \* the names with an extension in OkExtensions
    NameLength,         \* NameLength[n]: the length of the name n
    DirectoryLength,    \* the length of the path of the user's directory
    MaxPathLength,      \* 256 in checkIfValidFile
    IndexName,          \* index.gmi
    WelcomeBytes,       \* the length activateUser gives it
    Sizes,              \* lengths of the texts and files that are sent
    MaxFileBytes, MaxUserBytes, MaxFilesPerUser,    \* the limits in flounder.toml
    EnableSFTP,
    Requests,           \* requests that may be in flight at once
    NoPath              \* no file

\* Where a file may be.
Paths == ({Root} \X TopNames) \cup (Folders \X InnerNames)

Index == <<Root, IndexName>>

ASSUME UserFilesAssumption ==
    /\ Root \notin Folders
    /\ IndexName \in TopNames \cap OkNames
    /\ NoPath \notin Paths
    /\ Folders \cap Paths = {}
    /\ NameLength \in [TopNames \cup InnerNames \cup Folders -> Nat]
    /\ DirectoryLength \in Nat /\ MaxPathLength \in Nat
    /\ Sizes \subseteq Nat
    /\ MaxFileBytes \in Nat /\ MaxUserBytes \in Nat /\ MaxFilesPerUser \in Nat
    /\ WelcomeBytes \in Nat
    /\ WelcomeBytes <= MaxFileBytes /\ WelcomeBytes <= MaxUserBytes
    /\ EnableSFTP \in BOOLEAN
    /\ IsFiniteSet(Requests) /\ Requests # {}

VARIABLES
    files,      \* the files there are
    len,        \* len[p]: the length of file p, 0 when there is none
    folders,    \* the folders there are
    req,        \* req[r]: the request r, its arguments and its next step
    fd          \* fd[r]: the file r has open for writing, NoPath if none or unlinked

disk == <<files, len, folders>>
vars == <<files, len, folders, req, fd>>

-------------------------------------------------------------------------------
(***************************************************************************)
(* A request: its next step; for a request in checkIfValidFile, the step   *)
(* it was called before; the path, the new name and the length it carries; *)
(* whether isTextFile held; what ReadDir listed; and whether an error page *)
(* has been sent.                                                          *)
(***************************************************************************)
Idle ==
    [at |-> "idle", then |-> "none", path |-> NoPath, new |-> NoPath, bytes |-> 0,
     text |-> FALSE, seen |-> {}, error |-> FALSE]

Resting == {"idle", "saved", "refused"}

At(r, step) == req[r].at = step

InFlight(r) == req[r].at \notin Resting

Begin(r, then, p, q, b, text) ==
    /\ ~InFlight(r)
    /\ req' = [req EXCEPT ![r] = [Idle EXCEPT !.at = "list", !.then = then, !.path = p,
                                              !.new = q, !.bytes = b, !.text = text]]
    /\ UNCHANGED <<disk, fd>>

Goto(r, step) == req' = [req EXCEPT ![r].at = step]

\* The request ends with an answer.
Reply(r, outcome) == req' = [req EXCEPT ![r] = [Idle EXCEPT !.at = outcome]]

\* The next call is checkIfValidFile, before the step called then.
CheckThen(r, then) == req' = [req EXCEPT ![r].at = "list", ![r].then = then]

Folder == [p \in Paths |-> p[1]]

FolderOf(p) == {Folder[p]} \ {Root}

\* The files and folders in the user's directory itself.
TopLevel(entries) == {e \in entries : e \in Folders \/ (e \in Paths /\ Folder[e] = Root)}

\* A path is that of a folder there is.
IsFolder(p) == Folder[p] = Root /\ p[2] \in folders

Longer(m, n) == IF m < n THEN n ELSE m

\* The bytes of all files, each as the file it is in and its place there.
Bytes == UNION {{p} \X (1 .. len[p]) : p \in files}

\* What dirSize adds up when it walks the directory.
Size == Cardinality(Bytes)

-------------------------------------------------------------------------------
\* File system calls.

\* A file can be made, or another put in its place.
CanOpen(p) == FolderOf(p) \subseteq folders /\ ~IsFolder(p)

\* What MkdirAll makes of the folder of p: nothing, when that is the name of a file.
MadeFor(p) == {d \in FolderOf(p) : <<Root, d>> \notin files}

\* Mutant: without O_TRUNC, as uploadFilesHandler opens.
OpenAsItIs(r, p) ==
    /\ files' = files \cup {p}
    /\ fd' = [fd EXCEPT ![r] = p]
    /\ UNCHANGED <<len, folders>>

\* O_CREATE and O_TRUNC.
OpenEmpty(r, p) ==
    /\ files' = files \cup {p}
    /\ len' = [len EXCEPT ![p] = 0]
    /\ fd' = [fd EXCEPT ![r] = p]
    /\ UNCHANGED folders

\* Mutant: with O_APPEND.
PutAtEnd(r, n) ==
    /\ len' = IF fd[r] = NoPath THEN len ELSE [len EXCEPT ![fd[r]] = @ + n]
    /\ UNCHANGED <<files, folders>>

\* n bytes, the first of them at the start of the file r has open.
Put(r, n) ==
    /\ len' = IF fd[r] = NoPath THEN len ELSE [len EXCEPT ![fd[r]] = Longer(@, n)]
    /\ UNCHANGED <<files, folders>>

\* Mutant: who has the file open keeps it under the old name.
MoveByName(p, q) ==
    /\ files' = (files \ {p}) \cup {q}
    /\ len' = [len EXCEPT ![q] = len[p], ![p] = 0]
    /\ UNCHANGED <<folders, fd>>

\* os.Rename of a file: what was at q goes, files open for writing stay open.
Move(p, q) ==
    /\ files' = (files \ {p}) \cup {q}
    /\ len' = [len EXCEPT ![q] = len[p], ![p] = 0]
    /\ fd' = [s \in Requests |-> CASE fd[s] = p -> q
                                   [] fd[s] = q -> NoPath
                                   [] OTHER -> fd[s]]
    /\ UNCHANGED folders

\* Where p is once folder d is called e.
Carried(p, d, e) == IF p \in Paths /\ Folder[p] = d THEN <<e, p[2]>> ELSE p

\* os.Rename of a folder: its files go with it, those open for writing too.
MoveFolder(d, e) ==
    /\ files' = {Carried(p, d, e) : p \in files}
    /\ len' = [p \in Paths |-> CASE Folder[p] = e -> len[<<d, p[2]>>]
                                 [] Folder[p] = d -> 0
                                 [] OTHER -> len[p]]
    /\ folders' = (folders \ {d}) \cup {e}
    /\ fd' = [s \in Requests |-> Carried(fd[s], d, e)]

\* A folder goes only where nothing is.
CanMoveFolder(p, q) ==
    /\ IsFolder(p) /\ ~IsFolder(q) /\ q \notin files
    /\ q \in {Root} \X Folders

\* os.Rename, whose error no handler looks at.
Rename(p, q) ==
    \/ p \in files /\ CanOpen(q) /\ Move(p, q)
    \/ p \notin files /\ CanMoveFolder(p, q) /\ MoveFolder(p[2], q[2])
    \/ /\ IF p \in files THEN ~CanOpen(q) ELSE ~CanMoveFolder(p, q)
       /\ UNCHANGED <<disk, fd>>

-------------------------------------------------------------------------------
Init ==
    /\ files = {Index}
    /\ len = [p \in Paths |-> IF p = Index THEN WelcomeBytes ELSE 0]
    /\ folders = {}
    /\ req = [r \in Requests |-> Idle]
    /\ fd = [r \in Requests |-> NoPath]

\* isTextFile: where nothing is TRUE, where something is as it may be.
IsText(p) ==
    IF p \in files \/ IsFolder(p) \/ MadeFor(p) # FolderOf(p) THEN BOOLEAN ELSE {TRUE}

\* Requests arrive: a POST of the edit form, of the upload form, SFTP commands.
EditStart(r, p, q, b) ==
    \E text \in IsText(p) : Begin(r, "mkdir", p, q, b, text)

UploadStart(r, p, b) == Begin(r, "store", p, p, b, FALSE)

SftpWriteStart(r, p) == EnableSFTP /\ Begin(r, "open", p, p, 0, FALSE)

SftpRenameStart(r, p, q) == EnableSFTP /\ p # q /\ Begin(r, "move", p, q, 0, FALSE)

-------------------------------------------------------------------------------
(***************************************************************************)
(* checkIfValidFile(path, bytes).  First the name and the length; then     *)
(* getMyFilesRecursive lists the directory and looks at every entry, only  *)
(* those at the top being counted; then dirSize adds up the lengths.       *)
(***************************************************************************)
\* Mutant: a rename is checked under its old name.
CheckedOldPath(r) == req[r].path

CheckedPath(r) == IF req[r].then \in {"mkdir", "store", "open"} THEN req[r].path ELSE req[r].new

CheckedBytes(r) == IF req[r].then \in {"mkdir", "save", "store"} THEN req[r].bytes ELSE 0

\* The name in the form and that of an upload are checked as they are, without the
\* path of the user's directory before them.
CheckedLength(r) ==
    LET p == CheckedPath(r) IN
    NameLength[p[2]]
      + (IF Folder[p] = Root THEN 0 ELSE NameLength[Folder[p]])
      + (IF req[r].then \in {"save", "store"} THEN 0 ELSE DirectoryLength)

Acceptable(r) ==
    /\ CheckedLength(r) <= MaxPathLength
    /\ CheckedPath(r)[2] \in OkNames
    /\ CheckedBytes(r) <= MaxFileBytes

\* Mutants: the file in hand is not added; one file too many.
HasRoomAlready(r) ==
    /\ Cardinality(TopLevel(req[r].seen)) < MaxFilesPerUser
    /\ Size <= MaxUserBytes

HasRoomForOneMore(r) ==
    /\ Cardinality(TopLevel(req[r].seen)) <= MaxFilesPerUser
    /\ Size + CheckedBytes(r) <= MaxUserBytes

HasRoom(r) ==
    /\ Cardinality(TopLevel(req[r].seen)) < MaxFilesPerUser
    /\ Size + CheckedBytes(r) <= MaxUserBytes

\* Something ReadDir listed is no longer where it was.
Gone(r) == ~(req[r].seen \subseteq files \cup folders)

CheckList(r) ==
    /\ At(r, "list")
    /\ Acceptable(r)
    /\ req' = [req EXCEPT ![r].at = "measure", ![r].seen = files \cup folders]
    /\ UNCHANGED <<disk, fd>>

CheckPass(r) ==
    /\ At(r, "measure")
    /\ HasRoom(r)
    /\ IF req[r].then = "reply"
       THEN Reply(r, IF req[r].error THEN "refused" ELSE "saved")
       ELSE req' = [req EXCEPT ![r].at = req[r].then, ![r].seen = {}]
    /\ UNCHANGED <<disk, fd>>

\* Refused by one of the limits, or as Walk met a file that was gone.
CheckRefuse(r) ==
    /\ \/ At(r, "list") /\ ~Acceptable(r)
       \/ At(r, "measure") /\ (~HasRoom(r) \/ Gone(r))
    /\ Reply(r, "refused")
    /\ UNCHANGED <<disk, fd>>

(***************************************************************************)
(* fileFromPath does not look at the error of os.Stat and calls ModTime on *)
(* nothing.  net/http gives up the request; SFTP requests are served by    *)
(* goroutines of the library, where nobody recovers: the program stops.    *)
(***************************************************************************)
CheckPanic(r) ==
    /\ At(r, "measure") /\ Gone(r)
    /\ IF req[r].then \in {"open", "move"}
       THEN /\ req' = [s \in Requests |-> Idle]
            /\ fd' = [s \in Requests |-> NoPath]
       ELSE req' = [req EXCEPT ![r] = Idle] /\ UNCHANGED fd
    /\ UNCHANGED disk

-------------------------------------------------------------------------------
\* editFileHandler, from its first check on.
EditMkdir(r) ==
    /\ At(r, "mkdir")
    /\ folders' = folders \cup MadeFor(req[r].path)
    /\ CheckThen(r, "save")
    /\ UNCHANGED <<files, len, fd>>

\* WriteFile opens the file; when it cannot, an error page is sent, and on it goes.
EditOpen(r) ==
    /\ At(r, "save")
    /\ req[r].text
    /\ IF CanOpen(req[r].path)
       THEN OpenEmpty(r, req[r].path) /\ Goto(r, "fill")
       ELSE /\ req' = [req EXCEPT ![r].at = "rename", ![r].error = TRUE]
            /\ UNCHANGED <<disk, fd>>

\* "Cant edit binary files here".
EditSkip(r) ==
    /\ At(r, "save")
    /\ ~req[r].text
    /\ Goto(r, "rename")
    /\ UNCHANGED <<disk, fd>>

EditFill(r) ==
    /\ At(r, "fill")
    /\ Put(r, req[r].bytes)
    /\ fd' = [fd EXCEPT ![r] = NoPath]
    /\ Goto(r, "rename")

EditRenameMkdir(r) ==
    /\ At(r, "rename")
    /\ folders' = IF req[r].new = req[r].path THEN folders ELSE folders \cup MadeFor(req[r].new)
    /\ Goto(r, "renameTo")
    /\ UNCHANGED <<files, len, fd>>

EditRenameTo(r) ==
    LET p == req[r].path
        q == req[r].new
    IN
    /\ At(r, "renameTo")
    /\ IF p = q THEN UNCHANGED <<disk, fd>> ELSE Rename(p, q)
    /\ CheckThen(r, "reply")

\* uploadFilesHandler: the file is opened without O_TRUNC.
UploadOpen(r) ==
    LET p == req[r].path IN
    /\ At(r, "store")
    /\ IF CanOpen(p)
       THEN /\ files' = files \cup {p}
            /\ fd' = [fd EXCEPT ![r] = p]
            /\ Goto(r, "copy")
            /\ UNCHANGED <<len, folders>>
       ELSE Reply(r, "refused") /\ UNCHANGED <<disk, fd>>

UploadCopy(r) ==
    /\ At(r, "copy")
    /\ Put(r, req[r].bytes)
    /\ fd' = [fd EXCEPT ![r] = NoPath]
    /\ Reply(r, "saved")

\* Filewrite returns the open file; the client then sends what it likes.
SftpOpen(r) ==
    /\ At(r, "open")
    /\ IF CanOpen(req[r].path)
       THEN OpenEmpty(r, req[r].path) /\ Goto(r, "stream")
       ELSE Reply(r, "refused") /\ UNCHANGED <<disk, fd>>

SftpPut(r, n) ==
    /\ At(r, "stream")
    /\ Put(r, n)
    /\ UNCHANGED <<req, fd>>

SftpClose(r) ==
    /\ At(r, "stream")
    /\ fd' = [fd EXCEPT ![r] = NoPath]
    /\ Reply(r, "saved")
    /\ UNCHANGED disk

\* Filecmd Rename.
SftpMove(r) ==
    /\ At(r, "move")
    /\ Rename(req[r].path, req[r].new)
    /\ Reply(r, "saved")

-------------------------------------------------------------------------------
\* The delete form and Filecmd Remove: os.Remove takes a file or an empty folder.
DeleteFile(p) ==
    /\ p \in files
    /\ files' = files \ {p}
    /\ len' = [len EXCEPT ![p] = 0]
    /\ fd' = [s \in Requests |-> IF fd[s] = p THEN NoPath ELSE fd[s]]
    /\ UNCHANGED <<folders, req>>

DeleteFolder(d) ==
    /\ d \in folders
    /\ \A p \in files : Folder[p] # d
    /\ folders' = folders \ {d}
    /\ UNCHANGED <<files, len, req, fd>>

SftpMkdir(d) ==
    /\ EnableSFTP
    /\ <<Root, d>> \notin files
    /\ folders' = folders \cup {d}
    /\ UNCHANGED <<files, len, req, fd>>

\* The server is killed, or the connection of an SFTP client closed, mid-request.
Abandon(r) ==
    /\ InFlight(r)
    /\ req' = [req EXCEPT ![r] = Idle]
    /\ fd' = [fd EXCEPT ![r] = NoPath]
    /\ UNCHANGED disk

IsFolderPath(p) == p \in {Root} \X Folders

\* The new names of what is at p: a folder's path is only given another folder's
\* name, as otherwise a folder might come to be in a folder.
NewPaths(p) == IF IsFolderPath(p) THEN {q \in Paths : IsFolderPath(q)} ELSE Paths

Arrive(r) ==
    \E p \in Paths :
        \/ \E q \in NewPaths(p), b \in Sizes : EditStart(r, p, q, b)
        \/ \E b \in Sizes : UploadStart(r, p, b)
        \/ SftpWriteStart(r, p)
        \/ \E q \in NewPaths(p) : SftpRenameStart(r, p, q)

Work(r) ==
    \/ CheckList(r) \/ CheckPass(r) \/ CheckRefuse(r) \/ CheckPanic(r)
    \/ EditMkdir(r) \/ EditOpen(r) \/ EditSkip(r) \/ EditFill(r)
    \/ EditRenameMkdir(r) \/ EditRenameTo(r)
    \/ UploadOpen(r) \/ UploadCopy(r)
    \/ SftpOpen(r) \/ (\E n \in Sizes : SftpPut(r, n)) \/ SftpClose(r) \/ SftpMove(r)
    \/ Abandon(r)

Next ==
    \/ \E r \in Requests : Arrive(r) \/ Work(r)
    \/ \E p \in Paths : DeleteFile(p)
    \/ \E d \in Folders : DeleteFolder(d) \/ SftpMkdir(d)

Spec == Init /\ [][Next]_vars

-------------------------------------------------------------------------------
Steps == {"list", "measure", "mkdir", "save", "fill", "rename", "renameTo", "store", "copy",
          "open", "stream", "move"}

Thens == {"mkdir", "save", "reply", "store", "open", "move"}

Request ==
    [at : Steps \cup Resting, then : Thens \cup {"none"},
     path : Paths \cup {NoPath}, new : Paths \cup {NoPath}, bytes : Nat, text : BOOLEAN,
     seen : SUBSET (Paths \cup Folders), error : BOOLEAN]

\* Every variable has its type, and a file that does not exist has no bytes.
TypeOK ==
    /\ files \subseteq Paths
    /\ len \in [Paths -> Nat]
    /\ \A p \in Paths \ files : len[p] = 0
    /\ folders \subseteq Folders
    /\ req \in [Requests -> Request]
    /\ fd \in [Requests -> files \cup {NoPath}]

(***************************************************************************)
(* However the requests of a user interleave, the directory exceeds        *)
(* MaxUserBytes by at most one file of MaxFileBytes for each further       *)
(* request that can be in flight: checkIfValidFile adds the length of the  *)
(* file in hand, but not those of requests between their check and write.  *)
(***************************************************************************)
QuotaBound ==
    ~EnableSFTP => Size <= MaxUserBytes + (Cardinality(Requests) - 1) * MaxFileBytes

\* The web forms never leave a file longer than MaxFileBytes.
FilesWithinLimit == ~EnableSFTP => \A p \in Paths : len[p] <= MaxFileBytes

(***************************************************************************)
(* No way of making or renaming a file or its folder, in any interleaving, *)
(* leaves one with an extension checkIfValidFile refuses.  Nothing is said *)
(* of lengths: the third check of an edit refuses names the second let     *)
(* pass, and the files of a renamed folder are not checked at all.         *)
(***************************************************************************)
OnlyOkExtensions == \A p \in files : p[2] \in OkNames

(***************************************************************************)
(* With one request at a time, the text an edit is about to rename and     *)
(* report as saved is the posted one to its last byte: WriteFile truncates *)
(* first, so no older, longer text shows at its end.                       *)
(***************************************************************************)
WrittenAsPosted ==
    \A r \in Requests :
        At(r, "rename") /\ req[r].text /\ ~req[r].error /\ req[r].path \in files =>
            len[req[r].path] = req[r].bytes

(***************************************************************************)
(* However n requests interleave, the entries at the top of the directory  *)
(* are at most 2 * n - 1 more than MaxFilesPerUser: one more, with one     *)
(* request at a time, while a file is on its way into a new folder.  Each  *)
(* check of editFileHandler leaves room for one entry, and after the last  *)
(* of them that counts a file may be made, and a folder to rename it into. *)
(***************************************************************************)
TopLevelWithinLimit ==
    ~EnableSFTP =>
        Cardinality(TopLevel(files \cup folders))
            <= MaxFilesPerUser - 1 + 2 * Cardinality(Requests)

-------------------------------------------------------------------------------
\* What the code's own words say, and the code does not do.

\* A panic ends the request it happens in and no other (acceptInboundConnection recovers).
PanicIsContained ==
    [][\A r, s \in Requests :
          r # s /\ InFlight(r) /\ InFlight(s) => ~(req'[r] = Idle /\ req'[s] = Idle)]_vars
===============================================================================
