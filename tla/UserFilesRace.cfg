\* Two requests from the web forms, on three files that do not fit together; a length is refused.
CONSTANTS
    TopNames = {index, page, other}
    InnerNames = {}
    Folders = {}
    Root = Root
    OkNames = {index, page, other}
    LongNames = {}
    NameLength <- Lengths
    DirectoryLength = 1
    MaxPathLength = 3
    IndexName = index
    WelcomeBytes = 1
    Sizes = {2, 3}
    MaxFileBytes = 2
    MaxUserBytes = 2
    MaxFilesPerUser = 2
    EnableSFTP = FALSE
    Requests = {r1, r2}
    NoPath = NoPath
SPECIFICATION Spec
SYMMETRY Interchangeable
INVARIANTS QuotaBound FilesWithinLimit
