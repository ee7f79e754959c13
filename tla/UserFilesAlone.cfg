\* One request from the web forms at a time; a length, an extension and a long name are refused.
CONSTANTS
    TopNames = {index, other, long, odd, d, e}
    InnerNames = {page}
    Folders = {d, e}
    Root = Root
    OkNames = {index, other, long, page, d, e}
    LongNames = {long}
    NameLength <- Lengths
    DirectoryLength = 1
    MaxPathLength = 3
    IndexName = index
    WelcomeBytes = 1
    Sizes = {1, 2, 3}
    MaxFileBytes = 2
    MaxUserBytes = 3
    MaxFilesPerUser = 2
    EnableSFTP = FALSE
    Requests = {r1}
    NoPath = NoPath
SPECIFICATION Spec
INVARIANTS WrittenAsPosted TopLevelWithinLimit
