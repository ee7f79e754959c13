\* Two requests, over SFTP and the web forms, beside deletions.
CONSTANTS
    TopNames = {index}
    InnerNames = {page}
    Folders = {d}
    Root = Root
    OkNames = {index, page}
    LongNames = {}
    NameLength <- Lengths
    DirectoryLength = 1
    MaxPathLength = 3
    IndexName = index
    WelcomeBytes = 1
    Sizes = {1, 2}
    MaxFileBytes = 2
    MaxUserBytes = 3
    MaxFilesPerUser = 3
    EnableSFTP = TRUE
    Requests = {r1, r2}
    NoPath = NoPath
SPECIFICATION Spec
SYMMETRY Interchangeable
PROPERTY PanicIsContained
