------------------------------ MODULE PageLookup ------------------------------
(***************************************************************************)
(* Which file, generated page or error answers a request for one path of a *)
(* user's site: userFile over HTTP, gmiPage over Gemini.  Both ask the     *)
(* file system in several calls, while the site's owner and the admins     *)
(* create, remove and rename what is at the path.                          *)
(* LookupSpec and its parts have names of their own, so that one module    *)
(* can extend this one and GmiToHtml, which converts what is found here.   *)
(***************************************************************************)
EXTENDS Naturals, Sequences, FiniteSets

CONSTANTS
    HttpRequests, GeminiRequests,   \* requests that may be in flight at once
    Paths,                          \* kinds of paths that are asked for
    Files,                          \* what a directory may hold beside an index.gmi
    MaxSites                        \* bound: the different sites that one request meets

Requests == HttpRequests \cup GeminiRequests

(***************************************************************************)
(* page: ends in .gmi or .gemini; index: ends in index.gmi; root: "/";     *)
(* gemlog and atom: /gemlog and /gemlog/atom.xml; hidden: in .hidden.      *)
(***************************************************************************)
AllPaths == {"page", "other", "root", "index", "gemlog", "atom", "hidden"}

ASSUME PageLookupAssumption ==
    /\ Paths \subseteq AllPaths
    /\ HttpRequests \cap GeminiRequests = {}
    /\ "index.gmi" \notin Files

VARIABLES
    path,   \* the path all requests ask for
    site,   \* what is there
    req     \* req[r]: a request, what it found and has written so far

lookupVars == <<path, site, req>>

(***************************************************************************)
(* At the path there is nothing, or a regular file in the place of one of  *)
(* its directories (the error of os.Stat is then ENOTDIR, which            *)
(* os.IsNotExist does not count), a file, or a directory with or without   *)
(* an index.gmi and with some other files.                                 *)
(***************************************************************************)
Sites == {s \in [node : {"absent", "below", "file", "dir"},
                 index : BOOLEAN, files : SUBSET Files] :
             s.node # "dir" => ~s.index /\ s.files = {}}

Entries == Files \cup {"index.gmi"}

\* ioutil.ReadDir of the path, whose error is dropped.
ReadDir(s) == s.files \cup {e \in {"index.gmi"} : s.index}

Asks == [slash : BOOLEAN, raw : BOOLEAN]

Idle == [at |-> "idle", ask |-> [slash |-> FALSE, raw |-> FALSE],
         found |-> "absent", target |-> "self", listed |-> {}, seen |-> {}, out |-> <<>>]

\* os.Stat on the index.gmi of the path.
StatIndex(s) ==
    IF s.index THEN "there"
    ELSE IF s.node \in {"absent", "dir"} THEN "absent" ELSE "error"

\* Request r goes on at a step; it ends with answer a.
Goto(r, step) == req' = [req EXCEPT ![r].at = step] /\ UNCHANGED <<path, site>>

AnswerWith(r, a) ==
    /\ req' = [req EXCEPT ![r].at = "done", ![r].out = Append(@, a),
                          ![r].found = Idle.found, ![r].target = Idle.target,
                          ![r].listed = Idle.listed]
    /\ UNCHANGED <<path, site>>

At(r, step) == req[r].at = step

-------------------------------------------------------------------------------
LookupInit ==
    /\ path \in Paths
    /\ site \in Sites
    /\ req = [r \in Requests |-> Idle]

Begin(r, ask) ==
    /\ At(r, "idle")
    /\ r \in HttpRequests /\ path = "root" => ask.slash
    /\ r \in GeminiRequests => ~ask.slash /\ ~ask.raw
    /\ req' = [req EXCEPT ![r] = [Idle EXCEPT !.at = "stat", !.ask = ask, !.seen = {site}]]
    /\ UNCHANGED <<path, site>>

(***************************************************************************)
(* One system call of somebody else: something comes to the path or goes   *)
(* from it, a folder with all it holds; or in a directory a name comes, or *)
(* goes, or is given in the place of another.  seen is history.            *)
(***************************************************************************)
AtMostOne(S) == \A e, f \in S : e = f

Change(s) ==
    /\ s # site
    /\ \/ s.node = "absent" \/ site.node = "absent"
       \/ /\ s.node = "dir" /\ site.node = "dir"
          /\ AtMostOne(ReadDir(s) \ ReadDir(site)) /\ AtMostOne(ReadDir(site) \ ReadDir(s))
    /\ \A r \in Requests : At(r, "done") \/ Cardinality(req[r].seen \cup {s}) <= MaxSites
    /\ site' = s
    /\ req' = [r \in Requests |->
                 IF req[r].at \in {"idle", "done"} THEN req[r]
                 ELSE [req[r] EXCEPT !.seen = @ \cup {s}]]
    /\ UNCHANGED path

-------------------------------------------------------------------------------
\* userFile, first os.Stat.
HttpStat(r) ==
    LET slash == req[r].ask.slash IN
    /\ At(r, "stat")
    /\ \/ path = "index" /\ AnswerWith(r, "redirect")
       \/ path = "hidden" /\ AnswerWith(r, "forbidden")
       \/ path = "atom" /\ ~slash /\ site.node = "absent" /\ AnswerWith(r, "atom")
       \/ /\ path \notin {"index", "hidden"}
          /\ ~(path = "atom" /\ ~slash /\ site.node = "absent")
          /\ req' = [req EXCEPT ![r].at = "statIndex", ![r].found = site.node]
          /\ UNCHANGED <<path, site>>

\* Mutant: what is not found is refused before the branch for directories.
HttpStatIndexRefusesFirst(r) ==
    /\ At(r, "statIndex")
    /\ IF StatIndex(site) = "absent" THEN AnswerWith(r, "notfound") ELSE Goto(r, "read")

\* Mutant: a directory is served in the place of its index.
HttpStatIndexKeepsDir(r) ==
    /\ At(r, "statIndex")
    /\ IF StatIndex(site) = "absent"
       THEN IF req[r].found = "dir" THEN Goto(r, "list") ELSE AnswerWith(r, "notfound")
       ELSE Goto(r, "read")

\* userFile, second os.Stat: the redirect of a directory does not return.
HttpStatIndex(r) ==
    LET isDir == req[r].found = "dir"
        out == IF isDir /\ ~req[r].ask.slash THEN <<"redirect">> ELSE <<>>
        missing == StatIndex(site) = "absent"
    IN
    /\ At(r, "statIndex")
    /\ \/ /\ ~isDir /\ missing
          /\ AnswerWith(r, "notfound")
       \/ /\ isDir /\ missing
          /\ req' = [req EXCEPT ![r].at = "list", ![r].out = out]
          /\ UNCHANGED <<path, site>>
       \/ /\ ~missing
          /\ req' = [req EXCEPT ![r].at = "read", ![r].out = out,
                                ![r].target = IF isDir THEN "index" ELSE "self"]
          /\ UNCHANGED <<path, site>>

\* Mutant: stat is replaced by that of the index even when there is none.
GeneratedWithoutStat(r, a) ==
    IF req[r].ask.raw THEN Goto(r, "read") ELSE AnswerWith(r, "panic")

\* The page in the place of a missing index, or the directory when raw.
Generated(r, a) ==
    IF req[r].ask.raw THEN Goto(r, "read") ELSE AnswerWith(r, a)

(***************************************************************************)
(* generateGemfeedPage, or generateFolderPage: ReadDir, then fileFromPath  *)
(* on each name, in some order, which panics on a file that is gone.       *)
(***************************************************************************)
HttpList(r) ==
    /\ At(r, "list")
    /\ \/ path = "gemlog" /\ Generated(r, "feed")
       \/ /\ path # "gemlog"
          /\ req' = [req EXCEPT ![r].at = "describe", ![r].listed = ReadDir(site)]
          /\ UNCHANGED <<path, site>>

HttpDescribe(r) ==
    /\ At(r, "describe")
    /\ \/ \E e \in req[r].listed :
             \/ /\ e \in ReadDir(site)
                /\ req' = [req EXCEPT ![r].listed = @ \ {e}]
                /\ UNCHANGED <<path, site>>
             \/ e \notin ReadDir(site) /\ AnswerWith(r, "panic")
       \/ req[r].listed = {} /\ Generated(r, "folder")

(***************************************************************************)
(* A Gemini file is opened, converted and served with the time of stat:    *)
(* an error of os.Open makes an empty page, and stat is nil when the first *)
(* os.Stat failed.  Any other file, or all when raw, is left to            *)
(* http.ServeFile, which lists a directory.                                *)
(***************************************************************************)
HttpRead(r) ==
    LET self == req[r].target = "self"
        html == ~req[r].ask.raw /\ (path = "page" \/ ~self)
        what == IF self
                THEN IF site.node = "file" THEN "file"
                     ELSE IF site.node = "dir" THEN "listing" ELSE "notfound"
                ELSE IF site.index THEN "index" ELSE "notfound"
    IN
    /\ At(r, "read")
    /\ AnswerWith(r,
          IF ~html THEN what
          ELSE IF req[r].found \in {"absent", "below"} THEN "panic"
          ELSE IF what \in {"file", "index"} THEN what ELSE "empty")

-------------------------------------------------------------------------------
\* Mutant: a gemlog is always answered with its feed.
GeminiStatAlwaysFeed(r) ==
    /\ At(r, "stat")
    /\ IF path = "gemlog" THEN AnswerWith(r, "feed") ELSE Goto(r, "read")

\* gmiPage, up to gmi.ServeFile.
GeminiStat(r) ==
    /\ At(r, "stat")
    /\ \/ path = "hidden" /\ AnswerWith(r, "notfound")
       \/ path = "gemlog" /\ ~site.index /\ AnswerWith(r, "feed")
       \/ path = "atom" /\ site.node \notin {"file", "dir"} /\ AnswerWith(r, "atom")
       \/ /\ path # "hidden"
          /\ path = "gemlog" => site.index
          /\ path = "atom" => site.node \in {"file", "dir"}
          /\ Goto(r, "read")

\* gmi.ServeFile, external: the file, or the index of a directory.
GeminiServeFile(r) ==
    /\ At(r, "read")
    /\ AnswerWith(r,
          IF site.node = "file" /\ path # "root" THEN "file"
          ELSE IF site.index THEN "index" ELSE "notfound")

Http(r) ==
    HttpStat(r) \/ HttpStatIndex(r) \/ HttpList(r) \/ HttpDescribe(r) \/ HttpRead(r)

Gemini(r) == GeminiStat(r) \/ GeminiServeFile(r)

LookupNext ==
    \/ \E r \in Requests, ask \in Asks : Begin(r, ask)
    \/ \E s \in Sites : Change(s)
    \/ \E r \in HttpRequests : Http(r)
    \/ \E r \in GeminiRequests : Gemini(r)

LookupSpec == LookupInit /\ [][LookupNext]_lookupVars

-------------------------------------------------------------------------------
Done(r) == At(r, "done")

Last(r) == req[r].out[Len(req[r].out)]

(***************************************************************************)
(* What a site that is left alone owes an HTTP request: the file; for a    *)
(* directory its index, the feed of a gemlog or a list of its files; the   *)
(* feed that is made when there is no file of that name; or not found.     *)
(* Below a file there is nothing, but a Gemini page there ends in a panic. *)
(***************************************************************************)
Owed(s, ask) ==
    CASE path = "index" -> "redirect"
      [] path = "hidden" -> "forbidden"
      [] OTHER ->
          CASE s.node = "file" -> "file"
            [] s.node = "dir" -> IF s.index THEN "index"
                                 ELSE IF ask.raw THEN "listing"
                                 ELSE IF path = "gemlog" THEN "feed" ELSE "folder"
            [] s.node = "absent" -> IF path = "atom" /\ ~ask.slash THEN "atom" ELSE "notfound"
            [] s.node = "below" -> IF path = "page" /\ ~ask.raw THEN "panic" ELSE "notfound"

(***************************************************************************)
(* A request during which nothing changes is given what the site owes it,  *)
(* through the two os.Stat, the variable stat that is overwritten and the  *)
(* two branches of userFile.                                               *)
(***************************************************************************)
UnchangedIsServed ==
    \A r \in HttpRequests : \A s \in Sites :
        Done(r) /\ req[r].seen = {s} => Last(r) = Owed(s, req[r].ask)

(***************************************************************************)
(* Whatever changes between the calls of userFile: not found is the answer *)
(* only if at some time in the request there was nothing, or the index of  *)
(* a directory went away under a raw request.                              *)
(***************************************************************************)
NotFoundWasMissing ==
    \A r \in HttpRequests : Done(r) /\ Last(r) = "notfound" =>
        \/ \E s \in req[r].seen : s.node \in {"absent", "below"}
        \/ req[r].ask.raw /\ \E s, t \in req[r].seen : s.index /\ ~t.index

(***************************************************************************)
(* A request ends in a panic only below a regular file, or when the page   *)
(* came between two calls, or when anything went from a directory that has *)
(* no index and is listed (generateFolderPage): never for a path that is   *)
(* left alone and has no file above it, and never for files that only      *)
(* come to a directory.                                                    *)
(***************************************************************************)
PanicHasACause ==
    \A r \in HttpRequests : Done(r) /\ Last(r) = "panic" =>
        \/ \E s \in req[r].seen : s.node = "below"
        \/ \E s, t \in req[r].seen : s.node = "absent" /\ t.node # "absent"
        \/ /\ path # "gemlog"
           /\ \E s \in req[r].seen : s.node \in {"absent", "dir"} /\ ~s.index
           /\ \E s, t \in req[r].seen : ~(ReadDir(s) \subseteq ReadDir(t))

(***************************************************************************)
(* HTTP and Gemini, which look up a path in two ways, answer with the same *)
(* file wherever one of them answers with a file of an unchanged site; but *)
(* for the redirect of index.gmi, the hidden folder, and a file that is    *)
(* called gemlog, for which gmiPage makes a feed.                          *)
(***************************************************************************)
SameFileOverBoth ==
    \A h \in HttpRequests, g \in GeminiRequests, s \in Sites :
        (/\ Done(h) /\ req[h].seen = {s}
         /\ Done(g) /\ req[g].seen = {s}
         /\ path \notin {"index", "hidden"}
         /\ s.node = "file" => path \notin {"gemlog", "root"}
         /\ {Last(h), Last(g)} \cap {"file", "index"} # {})
        => Last(h) = Last(g)
===============================================================================
