\* Two dumpers, one of them cut short once.
CONSTANTS
    Dumpers = {worker, command}
    LastInstant = 3
    MaxLag = 1
    MaxLines = 3
    MaxKills = 1
    Text <- UTC
    Seeded = TRUE
SPECIFICATION FairSpec
INVARIANTS TypeOK NoGaps
PROPERTIES IsAnArchive NewLinesArrive
