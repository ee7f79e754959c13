\* One request over each protocol, for every kind of path.
CONSTANTS
    HttpRequests = {h}
    GeminiRequests = {g}
    Paths = {"page", "other", "root", "index", "gemlog", "atom", "hidden"}
    Files = {f}
    MaxSites = 3
SPECIFICATION LookupSpec
\* Each request is one request: the run ends.
CHECK_DEADLOCK FALSE
INVARIANTS UnchangedIsServed NotFoundWasMissing PanicHasACause SameFileOverBoth
